SPECIFICATION Spec
CONSTANTS
  c1 = c1
  c2 = c2
  None = None
  r1 = r1
  r2 = r2
  k1 = k1
  Runner = {r1}
  Caller = {c1, c2}
  Asks <- AllRequests
  Closer = {k1}
  MaxCandidates = 1
INVARIANTS
  PauseTakesEffect
CHECK_DEADLOCK FALSE
