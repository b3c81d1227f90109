SPECIFICATION Spec
CONSTANTS
  Vts <- MCVts
  o1 = o1
  o2 = o2
  Objects = {o1, o2}
  None = None
  MaxId = 4
  MaxHalf = 1
SYMMETRY Addresses
INVARIANTS
  TypeOK
  RefcountExact
  OnCurrentDrm
  BuffersAccounted
CHECK_DEADLOCK FALSE
