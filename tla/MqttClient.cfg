SPECIFICATION FairSpec
CONSTANTS
  IdSpan = 2
  MaxConnects = 2
  MaxCalls = 2
  MaxIncoming = 1
INVARIANTS
  InFlightIsHead
  PublishesAccounted
PROPERTIES
  ConnectAnswered
  QueueDrains
  SilenceNoticed
CHECK_DEADLOCK FALSE
