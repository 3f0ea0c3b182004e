\* Three jobs, or tasks of an array, at a time.
SPECIFICATION QueueSpec
CONSTANTS
  Shapes <- SomeJobs
  Partitions = {"cpu", "gpu", "test"}
  Hidden = {"test"}
  DefaultPartition = "cpu"
  PendingReasons = {"Resources", "Priority"}
  DefaultStates = {"PENDING", "RUNNING"}
  Ends <- SomeEnds
  MaxJobs = 3
INVARIANTS PartitionsMatchQueue RunningCountedOnce
           TotalsCountJobs AggregateCountsAll EveryTaskInOneSeries SuspendedTasksInOneSeries
