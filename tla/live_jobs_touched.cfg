\* A job is retried by hand after the cleanup has selected it.
SPECIFICATION Spec
CONSTANTS
  j1 = j1
  j2 = j2
  u1 = u1
  u2 = u2
  h1 = h1
  None = None
  Stuck = {}
  Jobs = {j1, j2}
  Uploads = {u1, u2}
  Handlers = {h1}
  MaxBacklog = 1
  BatchSize = 2
  MaxFaults = 0
  MaxRequests = 1
PROPERTY LiveJobsUntouched
