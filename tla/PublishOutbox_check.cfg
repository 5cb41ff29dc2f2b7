SPECIFICATION FairSpec
CONSTANTS
  m1 = m1
  d1 = d1
  d2 = d2
  r1 = r1
  NoMessage = NoMessage
  NoHolder = NoHolder
  Messages = {m1}
  Dispatchers = {d1, d2}
  Redrivers = {r1}
  MaxDisturbances = 5
INVARIANTS AbandonedIsDecided PublishedIsOffered
PROPERTIES PublicationStands IntentIsServed MessageIsServed
CHECK_DEADLOCK FALSE
