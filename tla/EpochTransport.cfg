CONSTANTS
  IdMod = 16
  CompletedWindow = 1
  MaxInFlight = 1
  MaxCompleted = 3
  FirstIds = {0}
  Shards = {2}
  RepairCount = 1
  MaxEpochs = 4
  Delay = 1
  Expires = TRUE
  FecFraming = 2
  SessionTrailer = 1
  ShardHeader = 1
  AudioMagic = 1
  StreamPrefix = 2
  MaxSymbolSize = 100
  MaxBlockSymbols = 3
  AudioWord = 1
  FecWord = 2
  Adapter <- MCAdapter
  Config <- MCConfig
  Epoch <- MCEpoch
  Session = 5
  Adapters <- MCAdapters
  Configs <- MCConfigs
  Groupings <- MCGroupings
SPECIFICATION TransportSpec
INVARIANTS
  ShardsAtMostOnce
  StateIsBounded
  EpochsAreWhole
  InFlightIsOpen
  GeometryIsOptimal
  EpochsGetThrough
PROPERTY GivenUpIsSilent
CHECK_DEADLOCK FALSE
