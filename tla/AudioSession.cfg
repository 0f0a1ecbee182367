CONSTANTS
  IdMod = 16
  CompletedWindow = 1
  MaxInFlight = 2
  MaxCompleted = 4
  FirstIds = {0}
  Shards = {2}
  RepairCount = 1
  MaxEpochs = 3
  Delay = 1
  Expires = FALSE
  MaxAssembling = 1
  MaxIgnored = 3
  MaxBuffered = 1
  GroupSize = 1
  PtsSteps = {0, 1}
SPECIFICATION SessionSpec
INVARIANTS
  NothingPlayedIsHeld
  AssembliesCanComplete
  DecodedEpochsAreReported
CHECK_DEADLOCK FALSE
VIEW View
