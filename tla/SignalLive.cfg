CONSTANTS
  Sigs = {int, term}
  Clients = {c1}
  MaxId = 1
  MaxSignals = 2
  Reentrant = FALSE
  EarlySignals = TRUE
  MainFinishes = FALSE
SPECIFICATION FairSpec
INVARIANTS
  RaisesToPriorHandler
  DeliveredOnce
PROPERTIES
  EventuallyRedelivered
CHECK_DEADLOCK FALSE
