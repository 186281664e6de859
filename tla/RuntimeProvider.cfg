CONSTANTS
  Threads = {t1, t2}
  Providers = {p1, p2}
  Payloads = {s1, s2}
  Nobody = Nobody
  CallLimit = 5
SPECIFICATION FairSpec
CHECK_DEADLOCK FALSE
INVARIANTS
  SessionExclusive
  NoOrphan
PROPERTIES
  UnloadReleases
  CloseEndsAll
  CallsReturn
