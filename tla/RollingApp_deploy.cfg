SPECIFICATION FairSpec
CONSTANTS
  NPorts = 2
  MaxChildren = 4
  MaxWrappers = 2
  MaxCrashes = 1
  MaxTakeovers = 1
  MaxFaults = 2
INVARIANTS RecordCoversChildren StatusIsRouted StoppedOffRoute
PROPERTIES OthersRouteStands OperationsEnd OrphansAreCollected
CHECK_DEADLOCK FALSE
