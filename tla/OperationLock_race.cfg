SPECIFICATION Spec
CONSTANTS
  c1 = c1
  c2 = c2
  c3 = c3
  i1 = i1
  i2 = i2
  NoFile = NoFile
  Callers = {c1, c2, c3}
  Inodes = {i1, i2}
  MaxCalls = 2
  MaxCrashes = 1
  MaxUnreadable = 0
INVARIANTS LiveOwnerKeepsLock
CHECK_DEADLOCK FALSE
