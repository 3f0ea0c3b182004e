\* Two jobs that end before, in and after the hour that occurs twice, in a window that holds
\* two intervals and that hour; three events between two resets; two
\* associations in three accounts, one of which is listed twice.
SPECIFICATION MCSpec
CONSTANTS
  Interval = 1
  Lookback = 4
  SetBack = 4
  Hour = 1
  JobLimit = 2
  MaxTime = 8
  Endings <- Ended
  Operations <- RPCs
  RPCUsers <- Senders
  Label <- Matched
  Durations = {2, 5}
  MaxEvents = 3
  Accounts <- Tree
  Above <- PartOf
  ShareUsers <- Members
  Clusterwide = "all"
  InPartitions = {"gpu"}
  MaxUsage = 1
  MaxAssociations = 2
INVARIANTS
  EveryListedJobCounted
  MissedRefreshHarmless
  GaugesAreTheirFigures
  RPCViewsAgree
  SharesAreConsistent
\* The clock of the jobs stops at its bound.
CHECK_DEADLOCK FALSE
