\* One job, two threads, two overlapping manual retries, every fault.
CONSTANTS
  Null = Null
  Jobs = {1}
  Workers = {w1, w2}
  Handlers = {h1, h2}
  Tokens = {t1, t2, t3}
  MaxRetries = 1
  BaseDelay = 2
  MaxDelay = 1
  StaleThreshold = 0
  MaxErrors = 2
  MaxFaults = 1
  MaxRequests = 2
  Timely = FALSE
SPECIFICATION Spec
SYMMETRY Symmetry
INVARIANT TypeOK
INVARIANT LeaseExclusion
INVARIANT CompletedHasExtraction
INVARIANT ExtraResultsAreErrors
