SPECIFICATION FairSpec
CONSTANTS
  i1 = i1
  t1 = t1
  t2 = t2
  Runner = {r1}
  Slot = {s1, s2}
  Instance = {i1}
  Task = {t1, t2}
  InstanceOf <- TwoOfOne
  NoTask = NoTask
  NoInstance = NoInstance
  Free = Free
  Other = Other
INVARIANTS
  RunnerTypeOK
  NoLostWakeup
  OneWorkerPerInstance
PROPERTY
  ShutdownStops
