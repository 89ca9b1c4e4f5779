---------------------------- MODULE MCWorkspace ----------------------------
(* Instances of Workspace with two tools.  With three requests a query can *)
(* be superseded and what superseded it be superseded again; with a cap of *)
(* one row the second row of a tail already overflows the pane.            *)
EXTENDS Workspace
=============================================================================
