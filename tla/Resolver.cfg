CONSTANTS
  Names = {n}
  Addresses = {x}
  Tcp = {t}
  BYPASS_TTL = 2
  MaxTime = 4
  MaxFailures = 1
  MaxFlushes = 1
  MaxLists = 1
  None = None
SPECIFICATION FairSpec
INVARIANTS TypeOK BypassEnds
PROPERTIES StopFrees
CHECK_DEADLOCK FALSE
