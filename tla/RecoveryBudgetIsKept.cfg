CONSTANTS
  IdMod = 16
  CompletedWindow = 1
  Streams = {1}
  FirstSeq <- FirstSequences
  FrameWindow = 1
  Fragments = {3}
  K = 2
  Repair = 1
  Order = "SourceFirst"
  MaxFrames = 1
  Reorder = 0
SPECIFICATION Spec
INVARIANT
  RecoveryBudgetIsKept
CHECK_DEADLOCK FALSE
