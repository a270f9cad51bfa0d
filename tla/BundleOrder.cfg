CONSTANTS
  a1 = a1
  a2 = a2
  cli = cli
  p1 = p1
  p2 = p2
  Apps = {a1, a2}
  Urls = {cli, p1, p2}
  Configured <- TwoBundles
  MaxWorkers = 1
  MaxTag = 1
SPECIFICATION Spec
INVARIANTS
  BundleOrder
