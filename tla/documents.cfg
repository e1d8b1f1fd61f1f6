\* Three jobs, two uploads at a time, batches of two, a manual retry, one fault, pages of one.
SPECIFICATION MCSpec
CONSTANTS
  u1 = u1
  u2 = u2
  h1 = h1
  None = None
  Stuck = {}
  Jobs = {1, 2, 3}
  Uploads = {u1, u2}
  Handlers = {h1}
  MaxBacklog = 1
  BatchSize = 2
  MaxFaults = 1
  MaxRequests = 1
  Limit = 1
INVARIANT TypeOK
INVARIANT LiveJobHasFile
INVARIANT NoLeakedFile
INVARIANT RetentionKept
INVARIANT StrayFilesAreFailures
INVARIANT BacklogOvershoot
INVARIANT ListingMissesNone
PROPERTY ExpiredJobsGo
