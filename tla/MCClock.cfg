CONSTANTS
  TOP = 16
  ULONG = 22
  USEC_PER_MSEC = 3
  USEC_PER_SEC = 6
  ROUNDING = 2
  Cpus <- MCCpus
  Speeds = {1, 2, 5, 14, 17}
  Sleeps = {1, 3, 21}
SPECIFICATION ClockSpec
INVARIANTS
  DivisionExact
  SleptEnough
  StopwatchExact
  TrapsOnlyOldCpus
PROPERTY DivisionEnds
CHECK_DEADLOCK FALSE
