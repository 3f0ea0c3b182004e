---------------------------- MODULE MCSlurmInfo -----------------------------
(* Instances of SlurmInfo for TLC.                                         *)
EXTENDS SlurmInfo

Required == {"sinfo", "squeue"}
Optional == {"sbatch"}
=============================================================================
