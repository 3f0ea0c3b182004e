\* Two scrapes in progress; time for two refreshes of one cache.
SPECIFICATION LiveSpec
CONSTANTS
  Procs = {s1, s2}
  NoOne = NoOne
  TTL = 2
  Timeout = 2
  MaxTime = 4
INVARIANTS TypeOK SingleFlight BoundedStaleness MonotonicReads
PROPERTIES EveryCallReturns ImplementsLiveRegister
