SPECIFICATION ServedSpec
CONSTANTS
  NumVts = 2
  FlagChoices <- AllFlags
  Connectors = {1, 2}
  MaxRetry = 1
  MaxBacklog = 1
INVARIANTS
  TypeOK
  OnlyCurrentActive
  BackgroundYieldsMaster
  HotplugKept
  LinksSound
  LastCallMatchesMode
PROPERTIES
  ImplementsHandoff
  LoopReturns
  HandoffDelivered
