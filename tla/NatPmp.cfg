CONSTANTS
  Clients = {a, b}
  Protocols = {udp}
  InternalPorts = {1}
  MaxPort = 1025
  MaxLifetime = 1
  MaxTime = 2
  MaxStarts = 2
  MaxFailures = 1
  None = None
SPECIFICATION FairSpec
INVARIANTS TypeOK AnchorIsTable AnswerIsTrue ExpiredIsClosed
PROPERTIES OthersAreUntouched StopsClean
CHECK_DEADLOCK FALSE
