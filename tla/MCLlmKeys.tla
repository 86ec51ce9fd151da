------------------------------- MODULE MCLlmKeys -------------------------------
(* Small instances of LlmKeys.                                              *)
EXTENDS LlmKeys, TLC

Symmetry == Permutations(Request) \cup Permutations(Id)
================================================================================
