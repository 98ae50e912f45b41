CONSTANTS
  Client = Client
  Server = Server
  WireMod = 32
  ChanMod = 16
  AckBits = 3
  MaxPending = 8
  MaxRecent = 8
  HistorySize = 4
  MaxMsgs <- MCDownlink
  MaxWire = 4
  MaxAge = 8
  Window = 8
SPECIFICATION Spec
PROPERTY AckedIsSettled
CHECK_DEADLOCK FALSE
