SPECIFICATION Spec
CONSTANTS
  CHS_HEAD_MAX = 1
  CHS_CYLINDER_MAX = 1
  CHS_SECTOR_MAX = 3
  ErrCodes = {1, 4}
  Labels <- MCLabels
  FirstId = 128
  LastId = 129
  WIPE_BUFFER_SIZE = 1024
  Machines <- PlainMachines
  Options <- CheckOptions
  MaxFaults = 1
INVARIANTS
  CheckedWipeMissesNothing
CHECK_DEADLOCK FALSE
