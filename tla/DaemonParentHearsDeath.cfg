SPECIFICATION Spec
CONSTANTS
  NumVts = 2
  FlagChoices <- AllFlags
  MaxExits = 1
  MaxKeys = 1
PROPERTY ParentHearsDeath
CHECK_DEADLOCK FALSE
