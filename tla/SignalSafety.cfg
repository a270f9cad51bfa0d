CONSTANTS
  Sigs = {int}
  Clients = {c1}
  MaxId = 2
  MaxSignals = 2
  Reentrant = FALSE
  EarlySignals = FALSE
  MainFinishes = TRUE
SPECIFICATION Spec
INVARIANTS
  AcceptedCleanupsDrained
  EscalationReachesCoroutine
  DrainedBeforeFinalize
PROPERTIES
  KeepsPromise
  StrictLifo
CHECK_DEADLOCK FALSE
