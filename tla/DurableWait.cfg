SPECIFICATION Spec
CONSTANTS
  start = start
  approve = approve
  charge = charge
  route = route
  done = done
  decided = decided
  Node <- WaitNodes
  NoNode = NoNode
  Signal = {decided}
  NoSignal = NoSignal
  StartNode = start
  Kind <- WaitKind
  Successors <- WaitSuccessors
  OnTimeout <- WaitOnTimeout
  OnError <- NoErrorRoute
  MaxRetries <- NoRetries
  Accepts <- WaitAccepts
  Routed = {}
  Staged = {}
  Hooks = {}
  Uuid = {u1, u2, u3, u4, u5}
  NoUuid = NoUuid
  Worker = {w1, w2}
  NoWorker = NoWorker
  Value = {0}
  TotalAttempts = 1
  AttemptCap = 1
  MaxSignals = 1
SYMMETRY Symmetry
INVARIANTS
  SingleContinuation
  TimersBelongToOpenWait
PROPERTY
  WaitClosesOnce
