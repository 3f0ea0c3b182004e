\* A command no longer than the interval, which may take all of it so that a tick
\* is ready at select after select, and two scrapes.
SPECIFICATION LiveSpec
CONSTANTS
  Refresher = r
  Procs = {r, s1, s2}
  NoOne = NoOne
  Interval = 3
  Timeout = 3
INVARIANTS TimestampMatchesMetrics CollectNeverWaitsForSacct
           SacctSpaced NoFalseAlarm
PROPERTIES CancelEndsRefresher
