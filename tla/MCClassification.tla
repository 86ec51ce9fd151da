--------------------------- MODULE MCClassification ---------------------------
(* Small instances of Classification.                                       *)
EXTENDS Classification, TLC

(* WORKER_RETRIES and INLINE_RETRIES, scaled down: one tick is the backoff's *)
(* base, and a provider may ask for a wait no policy would grant.            *)
MCWorker == RetryPolicy(3, 2, 2)
MCInline == RetryPolicy(2, 1, 1)

Symmetry == Permutations(Proc) \cup Permutations(Message \ Sent)
================================================================================
