CONSTANTS
  Sigs = {int}
  Clients = {c1}
  MaxId = 1
  MaxSignals = 2
  Reentrant = TRUE
  EarlySignals = FALSE
  MainFinishes = FALSE
SPECIFICATION Spec
INVARIANTS
  DrainedBeforeFinalize
CHECK_DEADLOCK FALSE
