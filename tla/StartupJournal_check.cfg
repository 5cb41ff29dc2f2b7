SPECIFICATION FairSpec
CONSTANTS
  s1 = s1
  s2 = s2
  o1 = o1
  Nobody = Nobody
  Starters = {s1, s2}
  Operators = {o1}
  Editable = {"pid"}
  MaxTroubles = 2
INVARIANTS LiveOwnerStands ReadIsCurrent
PROPERTIES AllOrNothing PendingEnds
CHECK_DEADLOCK FALSE
