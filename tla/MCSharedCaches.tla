--------------------------- MODULE MCSharedCaches ---------------------------
(* Instances of SharedCaches for TLC.                                      *)
EXTENDS SharedCaches
=============================================================================
