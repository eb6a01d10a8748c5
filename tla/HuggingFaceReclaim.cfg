SPECIFICATION Spec
CONSTANTS
  None = None
  c1 = c1
  c2 = c2
  main = main
  d1 = d1
  d2 = d2
  e1 = e1
  x = x
  y = y
  z = z
  Commit = {c1, c2}
  Branch = {main}
  Slashed = {}
  File = {"config", "weights"}
  BlobOf <- Blobs
  Empty = {}
  Download = {d1, d2}
  Wants <- BranchAndPin
  Deletion = {e1}
  Target <- Older
  Default = main
  Fault = {}
  MaxFaults = 0
PROPERTY ReclaimKeepsLinked
CHECK_DEADLOCK FALSE
