\* Two scrapes, both caches, time for a refresh of each.
SPECIFICATION LiveSpec
CONSTANTS
  Procs = {s1, s2}
  NoOne = NoOne
  TTL = 1
  Timeout = 1
  MaxTime = 1
INVARIANTS LocksNotNested
PROPERTIES EveryCallCompletes
