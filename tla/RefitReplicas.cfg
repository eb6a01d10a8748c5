SPECIFICATION Spec
CONSTANTS
  t1 = t1
  t2 = t2
  g1 = g1
  g2 = g2
  e1 = e1
  e2 = e2
  s1 = s1
  s2 = s2
  m1 = m1
  v1 = v1
  v2 = v2
  k1 = k1
  k2 = k2
  st1 = st1
  st2 = st2
  c1 = c1
  c2 = c2
  llm = llm
  id1 = id1
  None = None
  Worker = {t1, t2, g1}
  Model = {llm}
  Endpoint = {e1, e2}
  Shard = {s1}
  Mesh = {m1}
  Version = {v1, v2}
  Key = {k1, k2}
  Stable = {st1, st2}
  Sum = {c1}
  LeaseId = {id1}
  LeaseIdOf <- CollidingLeaseIds
  WorkerMetadata <- ReplicaFleet
  Memberships <- ReplicaMemberships
  VersionRequest <- ReplicaRequests
  MaxGeneration = 2
SYMMETRY ReplicaSymmetry
INVARIANTS
  TypeOK
  UnlinkedVersionsInert
  LeasesIndexed
  PublishersAreMembers
PROPERTIES
  LeaseProtectsPublications
  LeaseFreezesMesh
  SupersededVersionsFrozen
CHECK_DEADLOCK FALSE
