SPECIFICATION Spec
CONSTANTS
  Version = {1, 2, 3}
  Uuid = {u1, u2, u3}
  NoUuid = NoUuid
  b1 = b1
  b2 = b2
  Body = {b1, b2}
  Command <- RegistryCommands
  Registrar = {r1, r2}
  Starter = {s1}
  ProcessId = {p1}
  MaxTime = 1
  MaxIndex = 3
SYMMETRY RegistrySymmetry
INVARIANTS
  RegistryInv
  RegistrationOrderIsTotal
  PublicationsIncrease
  BoundVersionIsStable
PROPERTY
  StartsOnEligibleVersion
