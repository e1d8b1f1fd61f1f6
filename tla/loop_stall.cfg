\* An upload comes back from its thread while two readers hold both connections.
SPECIFICATION Spec
CONSTANTS
  q1 = q1
  q2 = q2
  u1 = u1
  None = None
  Queries = {q1, q2}
  Probes = {}
  Retries = {}
  Uploads = {u1}
  Threads = 3
  Connections = 2
INVARIANT LoopNotStalled
