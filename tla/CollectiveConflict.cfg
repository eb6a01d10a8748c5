SPECIFICATION Spec
CONSTANTS
  a1 = a1
  a2 = a2
  b1 = b1
  b2 = b2
  t0 = t0
  g0 = g0
  l1 = l1
  l2 = l2
  d1 = d1
  d2 = d2
  i1 = i1
  i2 = i2
  o1 = o1
  o2 = o2
  k1 = k1
  k2 = k2
  None = None
  Worker = {a1, b1}
  TrainerSlot = {t0}
  GeneratorSlot = {g0}
  Lane = {l1}
  Digest = {d1, d2}
  BootstrapId = {i1}
  Op = {o1, o2}
  Key = {k1}
  MaxEpoch = 2
  Joins <- PlanJoins
  LeaderSlot <- OneLane
SYMMETRY ConflictSymmetry
INVARIANTS
  OpenOpsCurrent
  OneOpenOp
  PlanSourceIsMember
PROPERTIES
  TerminalIsFinal
CHECK_DEADLOCK FALSE
