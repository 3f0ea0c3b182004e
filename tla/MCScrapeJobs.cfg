\* Two scrapes that overlap, with two readers of the job snapshot each.
SPECIFICATION Spec
CONSTANTS
  Procs = {s1, s2}
  Enabled <- TwoReaders
  TTL = 2
  Timeout = 1
  Interval = 1
  MaxTime = 4
SYMMETRY Scrapes
INVARIANTS SameSnapshot
