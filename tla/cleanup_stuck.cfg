\* One expired job whose file cannot be deleted; nothing else goes wrong.
SPECIFICATION FairSpec
CONSTANTS
  j1 = j1
  j2 = j2
  u1 = u1
  h1 = h1
  None = None
  Jobs = {j1, j2}
  Stuck = {j1}
  Uploads = {u1}
  Handlers = {h1}
  MaxBacklog = 1
  BatchSize = 2
  MaxFaults = 0
  MaxRequests = 0
PROPERTY CleanupEnds
