SPECIFICATION FairSpec
CONSTANTS
  NPorts = 4
  Targets = {2, 3}
  Limit = 1
  MaxTroubles = 2
  MaxScales = 1
  MaxTakeovers = 1
  MaxFaults = 1
INVARIANTS NothingIsLost
PROPERTIES OnlyExcessLeaves StopEnds DegradedIsRepaired
CHECK_DEADLOCK FALSE
