CONSTANTS
  U32 = 16
  U16Max = 6
  EsiLimit = 9
  MaxSource = 4
  MaxSourceBytes = 7
  MaxExtra = 3
  MaxOutput = 12
  HeaderBytes = 3
  Lengths = {0, 1, 3, 4, 5, 6, 7, 8, 9, 15}
  SymbolSizes = {1, 2, 3}
  PrimaryRepairs = {0, 1, 3, 5, 8}
  Sequences = {0, 14}
SPECIFICATION RepairSpec
INVARIANTS
  RepairTypeOK
  SymbolsAreFresh
  NamespaceIsKept
  NextIsAnnounced
  DeclaredIsEncoded
CHECK_DEADLOCK FALSE
