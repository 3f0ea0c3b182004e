\* Three scrapes that may all be the first; commands that may leave a process
\* holding their output, as a wrapper script that starts something in the
\* background does, and commands that may not.
SPECIFICATION LiveInfoSpec
CONSTANTS
  Scrapes = {s1, s2, s3}
  Nobody = Nobody
  requiredBinaries <- Required
  optionalBinaries <- Optional
  commandTimeout = 2
  MaxElapsed = 3
INVARIANTS ResultIsTruthful SameSeries
PROPERTIES EveryCollectReturns
