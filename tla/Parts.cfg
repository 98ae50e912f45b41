SPECIFICATION PartsSpec
CONSTANTS
  Delay = 2
  MinBuffer = 2
  MaxBuffer = 3
  CorrectionDivisor = 2
  ExtrapolationLimit = 2
  Retention = 3
  MaxFrame = 2
  MaxStall = 3
  PerTime = 1
  MaxLatency = 2
  MaxTime = 7
  Players = {p, q, r}
  MaxPlayers = 2
  MatchSize = 2
  MaxLobbies = 2
  MaxPending = 2
  SeqSpace = 7
  Ttl = 1
  MaxTick = 1
  MaxEvents = 8
  Inputs = {0, 1}
  TickTime = 2
  MaxDelta = 3
  MaxElapsed = 5
  Capacity = 2
  MaxCommands = 2
  LastTick = 4
  MaxRollbacks = 2
  MaxPushes = 2
  PlayerIds = {1, 2}
  PropIds = {5}
  Fractions = {3}
  One = 40
  MoveSteps = 7
  Fine = 3
  HalfTurn = 23
  WireMax = 8
  Frames = 9
  MaxAngle = 150
  MaxSpeed = 60
  PropCount = 1
  LastPlace = 1
  MaxClients = 3
  MaxSent = 2
SYMMETRY PlayerSymmetry
INVARIANTS RenderBehindServer BufferIsShown LobbiesAgree EventsInOrder TimelinesAreExact  BodiesAgree
PROPERTIES NoRewind DropsOnlyOld OnlyCreateLeavesGhosts ReliableStays  GhostsStand
CHECK_DEADLOCK FALSE
