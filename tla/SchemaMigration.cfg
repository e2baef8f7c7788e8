SPECIFICATION Spec
CONSTANTS
  a = a
  A = A
  b = b
  m1 = m1
  m2 = m2
  m3 = m3
  None = None
  Machines = {m1, m2, m3}
  Candidates = {m1, m2}
  Slugs = {a, A, b}
  Fold <- MCFold
  MaxId = 2
  MaxCrashes = 1
  Failover = FALSE
INVARIANTS
  TypeOK
  IdsNotReused
  ServesCurrentSchema
PROPERTIES
  MigrationKeepsData
  RolloutCompletes
