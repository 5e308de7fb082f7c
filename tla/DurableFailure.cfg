SPECIFICATION Spec
CONSTANTS
  start = start
  approve = approve
  charge = charge
  route = route
  done = done
  decided = decided
  Node <- FailNodes
  NoNode = NoNode
  Signal = {decided}
  NoSignal = NoSignal
  StartNode = start
  Kind <- FailKind
  Successors <- FailSuccessors
  OnTimeout <- FailOnTimeout
  OnError <- FailOnError
  MaxRetries <- FailRetries
  Accepts <- FailAccepts
  Routed = {approve}
  Staged = {}
  Hooks = {"complete"}
  Uuid = {u1, u2, u3, u4}
  NoUuid = NoUuid
  Worker = {w1, w2}
  NoWorker = NoWorker
  Value = {0}
  TotalAttempts = 2
  AttemptCap = 2
  MaxSignals = 1
SYMMETRY Symmetry
INVARIANTS
  IInv
  NothingIsLost
  RetainedTaskSurvives
  RecoveryRunsFirst
PROPERTIES
  SuspendedIsQuiet
  ImplementsToken
