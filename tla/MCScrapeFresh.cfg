\* "one fetch per scrape, always fresh": one unit is five seconds, with the
\* default TTL of 25 s, scrape interval of 30 s and command timeout of 5 s.
SPECIFICATION Spec
CONSTANTS
  Procs = {s1}
  Enabled <- Periodic
  TTL = 5
  Timeout = 1
  Interval = 6
  MaxTime = 7
INVARIANTS AlwaysFresh
\* Between scrapes, once the clock is at its bound, the exporter is idle.
CHECK_DEADLOCK FALSE
