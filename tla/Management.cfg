SPECIFICATION Spec
CONSTANTS
  u = u
  w = w
  invalid = invalid
  t1 = t1
  t2 = t2
  c1 = c1
  c2 = c2
  None = None
  Characters = {"a", "A", "k", "Kelvin", "-", "."}
  Plain = {"a", "k"}
  Capitals = {"A"}
  Hyphen = "-"
  Lower <- MCLower
  Words <- MCWords
  MaxSlugLength = 3
  Api <- MCApi
  Admin <- MCAdmin
  WellKnown <- MCWellKnown
  Generated <- MCGenerated
  Commands = {c1, c2}
  Jobs <- MCJobs
  Tokens = {t1, t2}
  MaxGeneratedSlugAttempts = 2
  Rank <- MCRank
  URLs = {u, w, invalid}
  Destinations = {u, w}
  Clock = {0}
  Expirations = {1}
  LastInstant = 1
  Resolution = 1
  MaxCount = 1
  MaxId = 4
  MaxMisses = 1
  Batches <- MCBatches
INVARIANTS
  CreatedReachable
  BackupTokenOnlyExports
PROPERTIES
  KeepsPromise
CHECK_DEADLOCK FALSE
