----------------------------- MODULE MCProcess -----------------------------
(***************************************************************************)
(* A small instance of Process: one query and one live tail.               *)
(***************************************************************************)
EXTENDS Process
=============================================================================
