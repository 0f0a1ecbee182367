CONSTANTS
  IdMod = 8
  CompletedWindow = 1
  SequenceMod = 32
  MaxTrackedGap = 2
  FirstIds = {7}
  ResetIds = {}
  SourceSymbols = 2
  ObjectSymbols = {1, 2}
  Repairs = {1}
  MaxChunks = 2
  MaxBlocks = 3
  Delay = 1
SPECIFICATION Spec
INVARIANT ExpiredIsNotRecreated
