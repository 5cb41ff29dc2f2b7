SPECIFICATION FairSpec
CONSTANTS
  m1 = m1
  m2 = m2
  w1 = w1
  s1 = s1
  NoMessage = NoMessage
  Messages = {m1, m2}
  Marketing = {m1}
  Workers = {w1}
  Scanners = {s1}
  Operators = {}
  MaxDeliveries = 1
PROPERTIES
  NothingStaysOpen
CHECK_DEADLOCK FALSE
