---------------------------- MODULE MCReplySend ----------------------------
(* Small instances of ReplySend for TLC.  Requests are interchangeable, and *)
(* so are workers: the safety runs use both symmetries, the liveness run    *)
(* none.                                                                    *)
EXTENDS ReplySend, TLC

Symmetry == Permutations(Request) \cup Permutations(Worker)
=============================================================================
