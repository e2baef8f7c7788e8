SPECIFICATION Spec
CONSTANTS
  a = a
  b = b
  u = u
  p = p
  r = r
  v1 = v1
  v2 = v2
  None = None
  Slugs = {a, b}
  Canonical = {a, b}
  Fold <- MCFold
  Rank <- MCRank
  URLs = {u}
  Clock = {0}
  Expirations = {}
  LastInstant = 1
  Resolution = 1
  MaxCount = 3
  MaxId = 2
  MaxMisses = 1
  Batches <- MCBatches
  Visits = {v1, v2}
  Nodes = {p, r}
  Primary = p
  Capacity = 1
INVARIANTS
  TypeOK
  CreditsFollowedLink
  NeverOvercounts
  LateMissesStayOut
SYMMETRY MCSymmetry
