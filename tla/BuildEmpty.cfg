CONSTANTS
  NumApps = 2
  MaxParallel = 2
  MaxInterrupts = 1
SPECIFICATION Spec
INVARIANTS
  EmptyRunFails
