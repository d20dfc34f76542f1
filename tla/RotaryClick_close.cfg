SPECIFICATION ClickSpec
CONSTANTS
  Ms = 2
  Long = 4
  Click = 4
  MaxTime = 11
  MaxEvents = 4
  MaxClosed = 2
INVARIANTS
  TimerHasOwner
CHECK_DEADLOCK FALSE
