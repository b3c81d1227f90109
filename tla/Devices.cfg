SPECIFICATION DevicesSpec
CONSTANTS
  Word = 64
  DeviceChoices <- MCMachines
  Modes <- MCModes
  Sizes = {0, 2, 3}
  Places <- MCPlaces
  FontSizes = {1, 2, 3, 5}
  Paths <- MCPaths
  Modifiers <- MCModifiers
  MaxQueue = 4
  MaxPlugs = 2
INVARIANTS
  DisplayTypeOK
  FollowsWhereIdsApart
  DrawsAsAsked
  TypeOK
  KeyboardsFollowed
  ChordAsPressed
PROPERTY EveryKeyboardServed
CHECK_DEADLOCK FALSE
