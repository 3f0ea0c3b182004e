---------------------------- MODULE MCJobQueue ------------------------------
(* The instance of JobQueue for TLC, with a squeue that lists unasked what  *)
(* queue.go says it does.                                                   *)
EXTENDS JobQueue

\* The same jobs listed by a squeue that lists suspended and completing ones too, as
\* in test_data/squeue_jobs.txt.
AsCaptured == INSTANCE JobQueue WITH
  DefaultStates <- {"PENDING", "RUNNING", "SUSPENDED", "COMPLETING"}

\* With such a squeue a task that is suspended and resumes is in one of the series of
\* its user all along, and leaves them when it begins to end.
SuspendedTasksInOneSeries == AsCaptured!EveryTaskInOneSeries

Job(u, a, ps, c, g, n) ==
  [user |-> u, account |-> a, parts |-> ps, cpus |-> c, gpus |-> g, tasks |-> n]

\* Two users who share an account; a job in the default partition, one queued in
\* two partitions, an array and one in the hidden partition.
SomeJobs ==
  {Job("ann", "phys", <<"cpu">>, 1, 0, 1),
   Job("ann", "chem", <<"gpu", "cpu">>, 2, 1, 1),
   Job("bob", "phys", <<"gpu">>, 2, 1, 2),
   Job("bob", "chem", <<"test">>, 1, 0, 1)}

\* "OUT_OF_MEMORY" is a state of Slurm that the queue collector has no map for.
SomeEnds == {"CANCELLED", "COMPLETED", "OUT_OF_MEMORY"}
=============================================================================
