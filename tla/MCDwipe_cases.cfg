SPECIFICATION FairSpec
CONSTANTS
  CHS_HEAD_MAX = 2
  CHS_CYLINDER_MAX = 1
  CHS_SECTOR_MAX = 3
  ErrCodes = {1, 4}
  Labels <- MCLabels
  FirstId = 128
  LastId = 129
  WIPE_BUFFER_SIZE = 3072
  Machines <- CaseMachines
  Options <- CaseOptions
  MaxFaults = 2
INVARIANTS
  ProtectedUntouched
  AddressLimitReported
PROPERTIES
  EveryDiskCounted
  ImplementsService
CHECK_DEADLOCK FALSE
