SPECIFICATION Spec
CONSTANTS
  NumVts = 2
  FlagChoices <- AllFlags
  Connectors = {1}
  MaxRetry = 1
  MaxBacklog = 0
INVARIANT LinksComplete
