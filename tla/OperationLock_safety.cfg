SPECIFICATION Spec
CONSTANTS
  c1 = c1
  c2 = c2
  c3 = c3
  i1 = i1
  i2 = i2
  NoFile = NoFile
  Callers = {c1, c2, c3}
  Inodes = {i1, i2}
  MaxCalls = 2
  MaxCrashes = 2
  MaxUnreadable = 1
SYMMETRY Symmetry
INVARIANTS ExclusionUnlessStolen LockHasUser
CHECK_DEADLOCK FALSE
