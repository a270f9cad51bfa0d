CONSTANTS
  a1 = a1
  a2 = a2
  Apps = {a1, a2}
  Settings <- AllWays
  Candidates = {1, 2}
  MaxRelease = 2
  LengthsSent = TRUE
SPECIFICATION FairSpec
INVARIANTS
  SameSelectorSameApk
  VersionIsOfFile
  FallbackIsNewest
  FreshWhenDisabled
PROPERTIES
  CacheIsStable
  EveryAppEnds
