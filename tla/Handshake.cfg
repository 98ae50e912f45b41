CONSTANTS
  Clients = {c1}
  MaxClients = 1
  MaxIds = 1
  MaxWire = 4
  MaxDuplicates = 0
  Timeouts = TRUE
  WireMod = 32
  ChanMod = 16
  AckBits = 3
  MaxPending = 8
  MaxRecent = 8
  HistorySize = 4
SPECIFICATION FairSpec
INVARIANTS IdsAgree
PROPERTIES NoRegress OnlyTimeoutsOrphan AttemptEnds SlotFreed
CHECK_DEADLOCK FALSE
