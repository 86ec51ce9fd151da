------------------------------- MODULE MCGrants -------------------------------
(* Small instances of Grants.                                               *)
EXTENDS Grants
===============================================================================
