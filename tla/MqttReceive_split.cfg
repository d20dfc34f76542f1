SPECIFICATION Spec
CONSTANTS
  Kinds <- MCKinds
  LENGTH_BASE = 4
  max_message_length = 11
  SplitLength = TRUE
  MaxMessages = 3
  MaxConnections = 2
INVARIANTS Reassembled
CHECK_DEADLOCK FALSE
