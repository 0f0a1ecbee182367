CONSTANTS
  IdMod = 16
  CompletedWindow = 1
  MaxInFlight = 2
  MaxCompleted = 4
  FirstIds = {0}
  Shards = {2}
  RepairCount = 1
  MaxEpochs = 4
  Delay = 1
  Expires = TRUE
SPECIFICATION Spec
INVARIANT InFlightRetainsState
CHECK_DEADLOCK FALSE
