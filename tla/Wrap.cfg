CONSTANTS
  Client = Client
  Server = Server
  WireMod = 32
  ChanMod = 5
  AckBits = 3
  MaxPending = 8
  MaxRecent = 8
  HistorySize = 4
  MaxMsgs <- MCOrdered
  MaxWire = 7
  MaxAge = 2
  Window = 2
SPECIFICATION Spec
INVARIANT OrderedIsExact
CHECK_DEADLOCK FALSE
