SPECIFICATION Spec
CONSTANTS
  NumVts = 2
  FlagChoices <- AllFlags
  MaxExits = 1
  MaxKeys = 1
INVARIANTS
  TypeOK
  ParentTold
  UseAfterClose
PROPERTIES
  EndsTogether
  RoundServes
CHECK_DEADLOCK FALSE
