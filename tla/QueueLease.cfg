SPECIFICATION Spec
CONSTANTS
  Task = {t1, t2}
  NoTask = NoTask
  Claim = {c1, c2, c3}
  NoClaim = NoClaim
  Lease = 2
  MaxTime = 5
SYMMETRY LeaseSymmetry
CHECK_DEADLOCK FALSE
INVARIANTS
  LeaseTypeOK
  OneAttemptExecutes
  DeadlineIsConservative
