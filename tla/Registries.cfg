SPECIFICATION Spec
CONSTANTS
  None = None
  r1 = r1
  r2 = r2
  r3 = r3
  c1 = c1
  c2 = c2
  c3 = c3
  q1 = q1
  q2 = q2
  k1 = k1
  a1 = a1
  b1 = b1
  d1 = d1
  d2 = d2
  e1 = e1
INVARIANTS
  OneOwner
PROPERTIES
  ClaimProtocol
  EverySettles
CHECK_DEADLOCK FALSE
