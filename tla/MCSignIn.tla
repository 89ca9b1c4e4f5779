------------------------------ MODULE MCSignIn ------------------------------
(***************************************************************************)
(* A small instance of SignIn: two tabs of one browser, an account that is *)
(* allowed in and one that is not.                                         *)
(***************************************************************************)
EXTENDS SignIn, TLC

TabSymmetry == Permutations(Tabs)
=============================================================================
