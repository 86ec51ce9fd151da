----------------------------- MODULE MCLabelSync -----------------------------
(* Module LabelSync on small instances. *)
EXTENDS LabelSync, TLC
=============================================================================
