\* Recovery: every error, fault and retry is eventually worked off.
CONSTANTS
  Null = Null
  Jobs = {1}
  Workers = {w1, w2}
  Handlers = {h1}
  Tokens = {t1, t2, t3}
  MaxRetries = 2
  BaseDelay = 1
  MaxDelay = 2
  StaleThreshold = 1
  MaxErrors = 2
  MaxFaults = 2
  MaxRequests = 1
  Timely = TRUE
SPECIFICATION FairSpec
PROPERTY EveryJobSettles
PROPERTY OrphansReclaimed
