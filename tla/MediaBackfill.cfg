CONSTANTS
  IdMod = 16
  CompletedWindow = 8
  Streams = {1, 2}
  FirstSeq <- FirstSequences
  FrameWindow = 1
  Fragments = {2}
  K = 2
  Repair = 0
  Order = "Encoded"
  MaxFrames = 3
  Reorder = 1
  Capacity = 2
  MaxRequests = 1
SPECIFICATION BackfillSpec
INVARIANTS
  FramesAreReturnedOnce
  PartialsCanComplete
  BackfillCompletes
CHECK_DEADLOCK FALSE
