SPECIFICATION Spec
CONSTANTS
  Producer = {p1, p2}
  NoProducer = NoProducer
  EventId = {e1, bad}
  NoEvent = NoEvent
  Malformed = {bad}
  Content = {c1, c2, undeclared}
  Declared = {c1, c2}
  Logged = {c2}
  Uuid = {1, 2}
  BatchLimit = 1
  MaxTime = 1
SYMMETRY ProducerSymmetry
INVARIANTS
  AdmissionInv
  EventAdmittedOnce
  AcceptedWasAdmitted
  RefusalIsJustified
PROPERTY
  NewestIsRetained
