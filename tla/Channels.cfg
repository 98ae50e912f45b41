CONSTANTS
  Client = Client
  Server = Server
  WireMod = 32
  ChanMod = 16
  AckBits = 3
  MaxPending = 8
  MaxRecent = 8
  HistorySize = 4
  MaxMsgs <- MCArrive
  MaxWire = 4
  MaxAge = 4
  Window = 8
SPECIFICATION FairSpec

CHECK_DEADLOCK FALSE
INVARIANTS TypeOK AtMostOnce 
PROPERTIES ImplementsOrderedChannel AllArrive
