CONSTANTS
  w1 = w1
  r1 = r1
  r2 = r2
  None = None
  Worker = {w1}
  Replica = {r1, r2}
  Republishing = {w1}
  HeartbeatTimeout = 1
  GcTimeout = 2
  MaxDelay = 1
  MaxAge = 3
  Fault = {"crash", "exit", "error", "reply", "deadline", "health", "unready", "flush", "restart", "giveup", "store"}
  MaxFaults = 2
SPECIFICATION FairSpec
INVARIANTS
  TypeOK
  RegisteredIsIndexed
  RetiredStaysDown
  GoneIsNotListed
  DownWhileAnswered
PROPERTIES
  RunningIsListed
  GoneIsForgotten
