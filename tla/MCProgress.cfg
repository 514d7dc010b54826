SPECIFICATION BarSpec
CONSTANTS
  CHS_HEAD_MAX = 1
  CHS_CYLINDER_MAX = 1
  CHS_SECTOR_MAX = 3
  ErrCodes = {1, 4}
  Labels <- MCLabels
  FirstId = 128
  LastId = 129
  WIPE_BUFFER_SIZE = 1024
  Machines <- WipeMachines
  Options <- AllOptions
  MaxFaults = 2
  line_width = 2
INVARIANTS
  TypeOK
  RequestInRange
  WipedInFull
  WipeInv
  TestModeReadOnly
  BarIsCurrent
  FullMeansWhole
PROPERTIES
  NoStrayWrite
CHECK_DEADLOCK FALSE
