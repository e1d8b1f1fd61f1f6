\* Two threads for two connections, a client of each kind of request.
SPECIFICATION FairSpec
CONSTANTS
  q1 = q1
  p1 = p1
  t1 = t1
  u1 = u1
  None = None
  Queries = {q1}
  Probes = {p1}
  Retries = {t1}
  Uploads = {u1}
  Threads = 2
  Connections = 2
INVARIANT TypeOK
INVARIANT NoHoldAndWait
INVARIANT NoConnectionLost
PROPERTY EveryRequestAnswered
