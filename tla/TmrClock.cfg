SPECIFICATION ClockSpec
CONSTANTS
  RtcMod = 16
  Frac = 4
  Threshold = 4
  UsPerSec = 14
  Period = 8
  Calibrations <- MCOneCalibration
  Timeouts <- MCTimeouts
  MaxTicks = 28
INVARIANTS
  RoundingDoesNotAccumulate
  WatchdogOnTime
CHECK_DEADLOCK FALSE
