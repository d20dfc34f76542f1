SPECIFICATION FairSpec
CONSTANTS
  QueueLen = 3
  MaxOthers = 3
  MaxLen = 4
  MaxWrites = 5
  CBWrites = FALSE
  Returns <- AnyReturn
INVARIANTS
  UpdatedMeansPending
  AtMostOnePending
PROPERTIES
  WriteWakesReader
  EventuallyDrained
CHECK_DEADLOCK FALSE
