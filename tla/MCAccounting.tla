---------------------------- MODULE MCAccounting ----------------------------
(* Instances of SacctEfficiency, Scheduler and FairShare for TLC.  They have *)
(* nothing in common: a behaviour is one of theirs, from the initial states  *)
(* of all three on.                                                          *)
EXTENDS SacctEfficiency, Scheduler, FairShare

MCInit == SacctInit /\ StatsInit /\ ShareInit

MCNext ==
  \/ StatsInit /\ ShareInit /\ SacctNext /\ UNCHANGED <<statsVars, shareVars>>
  \/ SacctInit /\ ShareInit /\ StatsNext /\ UNCHANGED <<sacctVars, shareVars>>
  \/ SacctInit /\ StatsInit /\ ShareNext /\ UNCHANGED <<sacctVars, statsVars>>

MCSpec == MCInit /\ [][MCNext]_<<sacctVars, statsVars, shareVars>>

Job(user, account, state, alloc, elapsed, busy, reqMem, steps) ==
  [user |-> user, account |-> account, state |-> state, alloc |-> alloc,
   elapsed |-> elapsed, busy |-> busy, reqMem |-> reqMem, steps |-> steps]

\* One job of every kind that the parser or the averages tell apart.
Ended == {
  Job("alice", "hpc", "COMPLETED", 2, 2, 1, 4, <<1, 3>>),
  Job("alice", "hpc", "FAILED",    2, 1, 2, 4, <<0>>),
  Job("alice", "hpc", "COMPLETED", 2, 1, 1, 0, <<1>>),
  Job("alice", "hpc", "CANCELLED", 0, 0, 0, 4, <<>>),
  Job("alice", "hpc", "NODE_FAIL", 2, 1, 1, 4, <<2>>),
  Job("alice", "",    "COMPLETED", 2, 1, 1, 4, <<2>>),
  Job("bob",   "hpc", "TIMEOUT",   4, 2, 1, 4, <<4, 0, 2>>)}

\* The pattern stops at the dot of two of the names.
RPCs     == {"REQUEST_JOB_INFO", "REQUEST_SUBMIT_BATCH_JOB"}
Senders  == {"root", "j.doe", "j.roe"}
Matched  == [n \in RPCs \cup Senders |-> IF n \in {"j.doe", "j.roe"} THEN "j" ELSE n]

\* An account is listed again, as in TestFairShareCollector_DeduplicateAccounts.
Tree     == <<"root", "hpc", "bio", "hpc">>
PartOf   == [a \in {"hpc", "bio"} |-> IF a = "bio" THEN "hpc" ELSE "root"]
Members  == <<"alice", "bob">>
=============================================================================
