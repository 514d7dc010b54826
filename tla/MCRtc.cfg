CONSTANTS
  LastYear = 2037
  Period = 14
  Guard = 8
  Update = 3
  BootDates <- MCBootDates
  TimesOfDay <- MCTimes
  Garbage = {0, 255}
SPECIFICATION RtcFairSpec
INVARIANT BaseSecExact
PROPERTY ReadEnds
CHECK_DEADLOCK FALSE
