SPECIFICATION Spec
CONSTANTS
  None = None
  c1 = c1
  c2 = c2
  main = main
  a1 = a1
  b1 = b1
  d1 = d1
  d2 = d2
  d3 = d3
  e1 = e1
  e2 = e2
  r1 = r1
  r2 = r2
  q1 = q1
  q2 = q2
  x1 = x1
  s1 = s1
  s2 = s2
  v1 = v1
  v2 = v2
INVARIANTS
  InstalledWhole
  DeletionSparesOthers
  TokenShared
  SharedCache
  P2PObjects
CHECK_DEADLOCK FALSE
