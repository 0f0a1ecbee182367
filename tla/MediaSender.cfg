CONSTANTS
  MaxPerPlan = 5
  HardPerPlan = 5
  MaxScanned = 2
  MaxVisits = 5
  Spacing = 1
  StaleDelay = 1
  UrgentWindow = 2
  MaxExtra = 1
  HardExtra = 2
  SafetySymbols = 0
  SafetyMargin = 2
  Batches <- Offered
  QueueDelays = {0, 1}
  InFlightLimits = {1, 3}
  Paths <- RepairPaths
  Fetches <- FetchEstimates
  MaxFrames = 3
  MaxTime = 3
SPECIFICATION Spec
INVARIANTS
  SentInTime
  PassIsAccounted
  DeferredGaveWay
  RecoveryIsInTime
  RecoveryCovers
  LossIsAccounted
PROPERTY CarrierIsNotOverrun
CHECK_DEADLOCK FALSE
