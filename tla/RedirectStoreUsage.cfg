SPECIFICATION Spec
CONSTANTS
  a = a
  b = b
  c = c
  A = A
  u = u
  w = w
  None = None
  Slugs = {a, A, b}
  Canonical = {a, b}
  Fold <- MCFold
  Rank <- MCRank
  URLs = {u, w}
  Clock = {0, 2, 3}
  Expirations = {1, 4}
  LastInstant = 3
  Resolution = 2
  MaxCount = 2
  MaxId = 2
  MaxMisses = 2
  Batches <- MCBatches
INVARIANTS
  TypeOK
  SlugsUnique
  UsageConsistent
PROPERTIES
  UsageGrows
