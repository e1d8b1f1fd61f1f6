\* Two jobs, two threads, no unexpected error: what the fence alone gives.
CONSTANTS
  Null = Null
  Jobs = {1, 2}
  Workers = {w1, w2}
  Handlers = {h1}
  Tokens = {t1, t2, t3, t4}
  MaxRetries = 1
  BaseDelay = 1
  MaxDelay = 1
  StaleThreshold = 0
  MaxErrors = 0
  MaxFaults = 1
  MaxRequests = 2
  Timely = FALSE
SPECIFICATION Spec
SYMMETRY Symmetry
INVARIANT FenceInv
INVARIANT NoDuplicateResults
PROPERTY SettledStays
PROPERTY LeaseSpec
