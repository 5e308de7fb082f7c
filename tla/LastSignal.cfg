SPECIFICATION Spec
CONSTANTS
  Producer = {p1, p2}
  NoProducer = NoProducer
  EventId = {e1}
  NoEvent = NoEvent
  Malformed = {}
  Content = {c1}
  Declared = {c1}
  Logged = {}
  Uuid = {1, 2}
  BatchLimit = 1
  MaxTime = 1
INVARIANT
  LastSignalIsLastAdmitted
