\* "-1 means the cache has never been populated" (the gauge's help text).
SPECIFICATION Spec
CONSTANTS
  Procs = {s1, s2}
  NoOne = NoOne
  TTL = 1
  Timeout = 1
  MaxTime = 1
INVARIANTS MinusOneMeansNeverPopulated
