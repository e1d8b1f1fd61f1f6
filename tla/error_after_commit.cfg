\* An exception after the final commit runs a settled job again.
CONSTANTS
  Null = Null
  Jobs = {1}
  Workers = {w1, w2}
  Handlers = {h1}
  Tokens = {t1, t2, t3}
  MaxRetries = 1
  BaseDelay = 1
  MaxDelay = 1
  StaleThreshold = 0
  MaxErrors = 1
  MaxFaults = 0
  MaxRequests = 0
  Timely = FALSE
SPECIFICATION Spec
INVARIANT NoDuplicateResults
