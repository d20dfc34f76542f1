SPECIFICATION FairSpec
CONSTANTS
  IdSpan = 2
  MaxConnects = 1
  MaxCalls = 0
  MaxIncoming = 1
PROPERTIES
  ConnectReported
CHECK_DEADLOCK FALSE
