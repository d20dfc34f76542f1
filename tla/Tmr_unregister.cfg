SPECIFICATION Spec
CONSTANTS
  t1 = t1
  t2 = t2
  f1 = f1
  NoRef = NoRef
  Timers <- MCOneTimer
  Intervals <- MCOneInterval
  Callbacks <- MCOneCallback
PROPERTIES
  UnregisterStops
CHECK_DEADLOCK FALSE
