SPECIFICATION SurfaceSpec
CONSTANTS
  v1 = v1
  v2 = v2
  i1 = i1
  i2 = i2
  Scope = {v1, v2}
  Instance = {i1, i2}
  ScopeOf <- Versions
  Filter <- Filters
  NoInstance = NoInstance
  PageSize = 1
  MaxTabs = 1
  LogLimit = 2
  LogStep = 1
  MaxLog = 3
  LogPage = 1
  FirstRows <- AtFirst
  MaxRows <- RowsOf
  MaxLoads = 2
  MaxRevision = 4
  ask = ask
  work = work
  fork = fork
  sig1 = sig1
  sig2 = sig2
  stageA = stageA
  va = va
  Block = {ask, work, fork}
  BlockType <- Types
  NextBlocks <- Nexts
  TimeoutAt <- Timeouts
  Awaits <- Waits
  StageAt <- Stages
  DeclaredStage = {stageA}
  Hooks = {"stage", "show", "complete"}
  Var = {va}
  Caller = {c1, c2}
  Runner = {r1}
  Absent = Absent
  MaxTasks = 2
  MaxChanges = 2
  MaxVisits = 1
  k1 = k1
  k2 = k2
  Uuid = {1, 2, 3, 4}
  Legacy <- SomeTables
  LegacyRow <- OldRows
  LastPart = 1
  Operator = {o1, o2}
  NoPlan = NoPlan
  MaxPlans = 2
  MaxWrites = 1
  LastTime = 1
SYMMETRY CallerSymmetry
INVARIANTS
  MonitorInv
  HistoryHasNoGap
  TimersStayCancellable
PROPERTIES
  ViewNeverRegresses
  CommitSeesTheInstance
  RepairIsExact
CHECK_DEADLOCK FALSE
