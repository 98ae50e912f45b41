CONSTANTS
  Clients = {c1, c2, c3}
  MaxClients = 2
  MaxIds = 2
  MaxWire = 2
  MaxDuplicates = 1
  Timeouts = FALSE
  WireMod = 32
  ChanMod = 16
  AckBits = 3
  MaxPending = 8
  MaxRecent = 8
  HistorySize = 4
SPECIFICATION Spec
SYMMETRY Symmetry
INVARIANTS TypeOK  ConnectedAnswered
CHECK_DEADLOCK FALSE
