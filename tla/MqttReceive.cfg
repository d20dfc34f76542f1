SPECIFICATION Spec
CONSTANTS
  Kinds <- MCKinds
  LENGTH_BASE = 4
  max_message_length = 11
  SplitLength = FALSE
  MaxMessages = 3
  MaxConnections = 2
INVARIANTS Reassembled HeapAccounted
CHECK_DEADLOCK FALSE
