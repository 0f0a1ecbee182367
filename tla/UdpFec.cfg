CONSTANTS
  IdMod = 8
  CompletedWindow = 1
  Senders = {1, 2}
  Addresses = {1, 2, 3}
  FirstAddress <- MCFirstAddress
  Payloads <- MCPayloads
  ResetIds = {0, 2}
  MaxBlocks = 2
  MaxResets = 1
  MaxArrivals = 3
  SocketSize = 2
SPECIFICATION Spec
INVARIANT HeldIsOfItsPeer
PROPERTY BlocksThatArriveAreReturned
CHECK_DEADLOCK FALSE
