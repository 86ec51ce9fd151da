---------------------------- MODULE MCGmailIngest ----------------------------
(* Small instances of GmailIngest.                                          *)
EXTENDS GmailIngest, TLC

Symmetry == Permutations(Thread)
=============================================================================
