------------------------------ MODULE MCSyncRun ------------------------------
(* Module SyncRun on small instances. *)
EXTENDS SyncRun, TLC

(* Runs and starters are interchangeable where no liveness is checked.      *)
Symmetry == Permutations(Run) \cup Permutations(Starter)
=============================================================================
