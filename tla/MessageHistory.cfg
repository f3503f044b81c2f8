SPECIFICATION Spec
CONSTANTS
  m1 = m1
  m2 = m2
  m3 = m3
  r1 = r1
  r2 = r2
  Msgs = {m1, m2, m3}
  Requests = {r1, r2}
  Limit = 2
SYMMETRY Symmetric
INVARIANTS CacheSound SkipIsSound
PROPERTIES LeavesForPage
CHECK_DEADLOCK FALSE
