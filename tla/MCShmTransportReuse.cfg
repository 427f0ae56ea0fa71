SPECIFICATION Spec
CONSTANTS
  NBlocks = 3
  Regions = 2
  FieldSpan = 16
  ShmSize = 12
INVARIANTS NoDirtyData
CHECK_DEADLOCK FALSE
