CONSTANTS
  SequenceMod = 16
  MaxTrackedGap = 3
  Bases = {0, 12, 15}
  LastPacket = 6
  Reorder = 6
SPECIFICATION Spec
INVARIANT MissingIsUnreceived
