------------------------------- MODULE MCSignIn -------------------------------
(* Small instances of SignIn.                                               *)
EXTENDS SignIn, TLC

Symmetry == Permutations(Request) \cup Permutations(Password)
===============================================================================
