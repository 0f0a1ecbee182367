CONSTANTS
  SequenceMod = 16
  MaxTrackedGap = 2
  Bases = {13}
  LastPacket = 4
  Reorder = 3
  Unit = 20
  KeyframeLoss = 4
  JitterFull = 1
  QueueFull = 2
  FullPressure = 1
  FrameHeader = 2
  U16Max = 4
  U32Max = 30
  MaxSource = 3
  Policies <- MCPolicies
  Congestion <- Rates
  PathStates <- MCPaths
  FrameSizes = {0, 7, 15, 31}
  MaxReceived = 5
  MaxChanges = 1
SPECIFICATION LoopSpec
INVARIANTS
  ExpectedPassesNoLoss
  LossesAreTracked
  TrackingStaysAhead
  RateInLimits
  FramesFitTheirBlocks
PROPERTIES
  CleanFlowIsNotCut
  RateRecovers
