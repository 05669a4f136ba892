CONSTANTS
  Names = {n}
  Addresses = {x}
  Tcp = {t}
  BYPASS_TTL = 2
  MaxTime = 3
  MaxFailures = 0
  MaxFlushes = 0
  MaxLists = 0
  None = None
SPECIFICATION Spec
INVARIANTS AnsweredInTable
CHECK_DEADLOCK FALSE
