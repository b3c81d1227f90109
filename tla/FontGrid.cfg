SPECIFICATION Spec
CONSTANTS
  Vts <- MCVts
  Monitors <- MCMonitors
  MaxScale = 2
INVARIANTS
  TypeOK
  FontShared
  SizesAgree
CHECK_DEADLOCK FALSE
