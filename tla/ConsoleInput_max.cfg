SPECIFICATION Spec
CONSTANTS
  RX_BUFF_SIZE = 2
  MaxInput = 3
  QueueLen = 2
  MaxChars = 3
  MayUnregister = FALSE
  Registrations <- MCRegistrations
INVARIANTS
  EndCharMax
CHECK_DEADLOCK FALSE
