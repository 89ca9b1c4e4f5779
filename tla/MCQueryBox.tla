----------------------------- MODULE MCQueryBox -----------------------------
(* Instances of QueryBox: queries of two words and two tools.  The word p   *)
(* has two completions, one completes to itself, and q has none.            *)
EXTENDS QueryBox, TLC

CONSTANTS p, p1, q

MCOffers == (p :> <<p1, p>>) @@ (p1 :> <<p1>>) @@ (q :> <<>>)
=============================================================================
