---------------------------- MODULE MCTimedCache ----------------------------
(* The instance of TimedCache for TLC.                                     *)
EXTENDS TimedCache
=============================================================================
