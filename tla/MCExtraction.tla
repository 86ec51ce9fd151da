---------------------------- MODULE MCExtraction -----------------------------
(* Module Extraction on small instances. *)
EXTENDS Extraction, TLC

(* Workers are interchangeable: no property below is a liveness property    *)
(* where this is used.                                                      *)
Symmetry == Permutations(Worker)
=============================================================================
