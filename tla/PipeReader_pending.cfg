SPECIFICATION Spec
CONSTANTS
  QueueLen = 3
  MaxOthers = 2
  MaxLen = 3
  MaxWrites = 4
  CBWrites = TRUE
  Returns <- AnyReturn
INVARIANTS
  AtMostOnePending
CHECK_DEADLOCK FALSE
