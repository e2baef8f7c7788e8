SPECIFICATION Spec
CONSTANTS
  a = a
  b = b
  c = c
  A = A
  u = u
  w = w
  None = None
  Slugs = {a, A, b, c}
  Canonical = {a, b, c}
  Fold <- MCFold
  Rank <- MCRank
  URLs = {u}
  Clock = {0, 2, 3}
  Expirations = {}
  LastInstant = 3
  Resolution = 2
  MaxCount = 2
  MaxId = 3
  MaxMisses = 2
  Batches <- SlugOnlyBatches
INVARIANTS
  MissesUnresolved
  MissRetention
PROPERTIES
  OnlyOldestPruned
