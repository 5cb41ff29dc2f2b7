SPECIFICATION Spec
CONSTANTS
  c1 = c1
  c2 = c2
  i1 = i1
  i2 = i2
  NoFile = NoFile
  Callers = {c1, c2}
  Inodes = {i1, i2}
  MaxCalls = 2
  MaxCrashes = 0
  MaxUnreadable = 1
INVARIANTS JudgedStaleIsDead
CHECK_DEADLOCK FALSE
