SPECIFICATION Spec
CONSTANTS
  NPorts = 2
  MaxChildren = 3
  MaxWrappers = 1
  MaxCrashes = 0
  MaxTakeovers = 0
  MaxFaults = 1
INVARIANTS StopEndsChildren
CHECK_DEADLOCK FALSE
