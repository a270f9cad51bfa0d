CONSTANTS
  a1 = a1
  a2 = a2
  cli = cli
  p1 = p1
  p2 = p2
  Apps = {a1, a2}
  Urls = {cli, p1}
  Configured <- SharedBundle
  MaxWorkers = 2
  MaxTag = 2
SPECIFICATION FairSpec
INVARIANTS
  AppsAgree
  NothingMissing
  OneFetchAtATime
PROPERTIES
  CacheIsStable
  EveryAppFinishes
