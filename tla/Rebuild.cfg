CONSTANTS
  Runs = {r1, r2}
  AppOrder <- MCAppOrder
  Bundles = {"b1", "b2"}
  Configs <- MCConfigs
  AppVersions = {1, 2}
  Rank <- MCRank
  MaxChanges = 2
  MaxFailures = 1
  MaxOverlaps = 1
SPECIFICATION FairSpec
INVARIANTS
  NoSpuriousRebuild
  NothingMissed
PROPERTIES
  RevisionsGrow
  Settles
