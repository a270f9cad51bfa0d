CONSTANTS
  Slug <- MCSlug
  AllArchs = {"arm64", "armv7", "x86_64", "x86"}
  Env <- MCEnv
  NameRank <- MCNameRank
SPECIFICATION Spec
INVARIANTS
  ArgumentsAgree
  SelectionAgrees
  ListingRoundTrips
  DownloadChoice
CHECK_DEADLOCK FALSE
