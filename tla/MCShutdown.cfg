\* A command that may take the whole wait for the refresher, as with the defaults,
\* and is shorter than the interval.
SPECIFICATION LiveSpec
CONSTANTS
  Refresher = r
  NoOne = NoOne
  Interval = 3
  Timeout = 2
  Conns = {c1, c2}
  ShutdownTimeout = 3
  SacctWait = 2
INVARIANTS BoundedShutdown RequestsFinish OrderlyExit
PROPERTIES ProcessEnds
\* The process has exited.
CHECK_DEADLOCK FALSE
