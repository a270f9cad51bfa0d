CONSTANTS
  NumApps = 2
  MaxParallel = 2
  MaxInterrupts = 2
SPECIFICATION FairSpec
INVARIANTS
  BuiltByThisRun
  TerminatedNeverBuilt
  BuildsRecorded
  FailedNotExported
PROPERTIES
  CancelEndsPatchers
  CancelledRunEnds
