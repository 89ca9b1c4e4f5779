--------------------------- MODULE MCQueryStream ---------------------------
(***************************************************************************)
(* Small instances of QueryStream.  With a limit of 2 and up to 3 rows the *)
(* limit is missed, met and exceeded.                                      *)
(***************************************************************************)
EXTENDS QueryStream
=============================================================================
