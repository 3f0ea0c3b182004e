\* Two scrapes that overlap: no SYMMETRY, which is not sound for liveness.
SPECIFICATION MixedSpec
CONSTANTS
  Procs = {s1, s2}
  Enabled <- Mixed
  TTL = 2
  Timeout = 1
  Interval = 1
  MaxTime = 1
INVARIANTS SuccessIsTruthful EveryCollectorReports
PROPERTIES EveryScrapeEnds
