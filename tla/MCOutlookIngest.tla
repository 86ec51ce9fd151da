--------------------------- MODULE MCOutlookIngest ---------------------------
(* Small instances of OutlookIngest.                                        *)
EXTENDS OutlookIngest
=============================================================================
