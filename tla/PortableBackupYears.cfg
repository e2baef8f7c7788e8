SPECIFICATION Spec
CONSTANTS
  None = None
  Bad = Bad
  Slugs <- MCSlugs
  Canonical <- MCCanonical
  Fold <- MCFold
  Rank <- MCRank
  Managed <- MCManaged
  URLs <- MCURLs
  Destinations <- MCDestinations
  Garbled <- MCGarbled
  Characters <- MCCharacters
  Capitals <- MCCapitals
  Lower <- MCLower
  Nul <- MCNul
  Legacy <- MCLegacy
  Clock = {2}
  Expirations = {1, 3}
  LastInstant = 2
  Resolution = 1
  MaxCount = 1
  MaxId = 2
  MaxMisses = 1
  Files <- MCFiles
  MaxEntries = 2
INVARIANTS
  AlwaysExportable
