SPECIFICATION PtySpec
CONSTANTS
  Byte = {0, 1}
  Garbage = 9
  Width = 4
  MaxSize <- CodeMaxSize
  Sizes <- CodeSizes
  RoundUp <- CodePow2
  Mask <- CodeMask
  MaxWrite = 2
  MaxPending = 3
  BufSize = 3
  KOut = 3
  KIn = 1
  Asks <- MCAsks
  MaxOut = 5
  MaxKeys = 2
INVARIANTS
  RingTypeOK
  NoGarbage
  TypeOK
  InputInOrder
  FaithfulUnlessClobbered
PROPERTIES
  ImplementsQueue
  BothWaysFlow
CHECK_DEADLOCK FALSE
