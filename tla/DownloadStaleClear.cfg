SPECIFICATION Spec
CONSTANTS
  r1 = r1
  r2 = r2
  q1 = q1
  q2 = q2
  q3 = q3
  k1 = k1
  k2 = k2
  None = None
  Replica = {r1, r2}
  Request = {q1, q2, q3}
  Cache = {k1, k2}
  Fault = {"files"}
  MaxFaults = 1
  MaxClaims = 3
  Home <- Routing
  CacheOf <- OwnCaches
PROPERTIES
  ClearsOnlyDownloaded
CHECK_DEADLOCK FALSE
