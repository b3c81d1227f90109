SPECIFICATION Spec
CONSTANTS
  BufSize = 3
  KOut = 3
  KIn = 1
  Asks <- MCAsks
  MaxOut = 5
  MaxKeys = 2
INVARIANT ShownAsWritten
