CONSTANTS
  Posters = {p1, p2, p3}
  RingSize = 2
SPECIFICATION FairSpec
INVARIANTS
  NoLostWakeup
PROPERTIES
  Refines
  PostPromised
CHECK_DEADLOCK FALSE
