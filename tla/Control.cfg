SPECIFICATION Spec
CONSTANTS
  None = None
  t1 = t1
  t2 = t2
  g1 = g1
  g2 = g2
  e1 = e1
  e2 = e2
  s1 = s1
  s2 = s2
  m1 = m1
  v1 = v1
  v2 = v2
  k1 = k1
  k2 = k2
  st1 = st1
  st2 = st2
  c1 = c1
  c2 = c2
  llm = llm
  id1 = id1
  r1 = r1
  r2 = r2
  q1 = q1
  q2 = q2
  x1 = x1
  x2 = x2
  x3 = x3
  t3 = t3
  c3 = c3
  c4 = c4
INVARIANTS
  RefitState
  NamesResolve
  ServerState
PROPERTIES
  RefitSteps
CHECK_DEADLOCK FALSE
