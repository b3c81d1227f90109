SPECIFICATION LiveSpec
CONSTANTS
  MaxSplashImages = 3
  Durations = {2}
  Offsets = {0}
  NoOffset = 0
  LoopStarts <- MCLoopStarts
  LoopCounts <- MCLoopCounts
  MaxLoad = 3
  MaxPass = 2
INVARIANTS
  TypeOK
  Paced
  OneImageLoaded
PROPERTIES
  FramesInOrder
  PlaysItsPasses
CHECK_DEADLOCK FALSE
