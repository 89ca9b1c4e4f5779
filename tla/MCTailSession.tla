--------------------------- MODULE MCTailSession ---------------------------
(* Instances of TailSession.  The units are small, and in the order of the  *)
(* code's own: settle 750 ms, keepalive 15 s, window 5 min, ceiling 1 h.    *)
EXTENDS TailSession
=============================================================================
