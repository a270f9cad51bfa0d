CONSTANTS
  Threads = {t1, t2}
  Sites = {s1}
  SiteOf <- MCSiteOf
  DirectStatuses = {0, 200, 403, 503}
  ServiceStatuses = {99, 200, 403, 600}
SPECIFICATION FairSpec
INVARIANTS
  OneLateRequest
  AnswerIsJustified
  ClearanceCarried
PROPERTIES
  CallsEnd
CHECK_DEADLOCK FALSE
