-------------------------- MODULE MCSacctRefresher --------------------------
(* Instances of SacctRefresher for TLC.                                    *)
EXTENDS SacctRefresher
=============================================================================
