SPECIFICATION FairSpec
CONSTANTS
  start = start
  approve = approve
  charge = charge
  route = route
  done = done
  decided = decided
  Node <- FailNodes
  NoNode = NoNode
  Signal = {decided}
  NoSignal = NoSignal
  StartNode = start
  Kind <- FailKind
  Successors <- FailSuccessors
  OnTimeout <- FailOnTimeout
  OnError <- FailOnError
  MaxRetries <- FailRetries
  Accepts <- FailAccepts
  Routed = {approve}
  Staged = {}
  Hooks = {"complete"}
  Uuid = {u1, u2, u3}
  NoUuid = NoUuid
  Worker = {w1}
  NoWorker = NoWorker
  Value = {0, 1}
  TotalAttempts = 2
  AttemptCap = 2
  MaxSignals = 0
INVARIANT
  NoLostPatch
PROPERTIES
  DueWorkRuns
  RecoveryEnds
