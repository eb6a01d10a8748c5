SPECIFICATION Spec
CONSTANTS
  r1 = r1
  r2 = r2
  q1 = q1
  q2 = q2
  q3 = q3
  k1 = k1
  k2 = k2
  None = None
  Replica = {r1, r2}
  Request = {q1, q2}
  Cache = {k1, k2}
  Fault = {"crash", "error", "reply", "late", "delete", "files", "evict", "disk"}
  MaxFaults = 2
  MaxClaims = 2
  Home <- Routing
  CacheOf <- OwnCaches
INVARIANTS
  TypeOK
  ServedFromCache
  StaleOnlyWhileEvicting
PROPERTIES
  ClaimProtocol
CHECK_DEADLOCK FALSE
