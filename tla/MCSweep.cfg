SPECIFICATION Spec
CONSTANTS
  CHS_HEAD_MAX = 254
  CHS_CYLINDER_MAX = 1023
  CHS_SECTOR_MAX = 63
  Geometries <- MCGeometries
  Starts <- MCStarts
CONSTRAINT Walk
INVARIANTS
  AddressesExact
  RefusedOnlyAtHead255
  PackRoundTrip
PROPERTY
  Odometer
CHECK_DEADLOCK FALSE
