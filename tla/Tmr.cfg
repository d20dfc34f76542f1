SPECIFICATION FairSpec
CONSTANTS
  t1 = t1
  t2 = t2
  f1 = f1
  NoRef = NoRef
  Timers <- MCTimers
  Intervals <- MCIntervals
  Callbacks <- MCOneCallback
INVARIANTS
  ArmedIsPinned
  ModeMatchesOs

PROPERTIES
  ImplementsContract
  OneShotReclaimed
CHECK_DEADLOCK FALSE
