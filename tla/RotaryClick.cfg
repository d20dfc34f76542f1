SPECIFICATION ClickSpec
CONSTANTS
  Ms = 2
  Long = 4
  Click = 4
  MaxTime = 11
  MaxEvents = 4
  MaxClosed = 2
INVARIANTS
  TimerOnTime
  EveryReleaseCounted
  DblClickIsDouble
  LongPressIsLong
CHECK_DEADLOCK FALSE
