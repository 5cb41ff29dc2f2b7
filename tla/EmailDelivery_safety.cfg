SPECIFICATION Spec
CONSTANTS
  m1 = m1
  w1 = w1
  w2 = w2
  s1 = s1
  o1 = o1
  NoMessage = NoMessage
  Messages = {m1}
  Marketing = {m1}
  Workers = {w1, w2}
  Scanners = {s1}
  Operators = {o1}
  MaxDeliveries = 2
SYMMETRY Symmetry
INVARIANTS
  AtMostOneSend
  SendIsRecordedFirst
  OutcomeIsTrue
  AlertIsRecorded
  BarredIsNeverSent
PROPERTIES
  OutcomesAreFinal
  PromiseSpec
