SPECIFICATION DisplaySpec
CONSTANTS
  Word = 64
  DeviceChoices <- MCMachines
  Modes <- MCModes
  Sizes = {0, 2, 3}
  Places <- MCPlaces
  FontSizes = {1, 2, 3, 5}
INVARIANT FollowsMonitor
