SPECIFICATION Spec
CONSTANTS
  Addrs = {a, b, c}
  MaxClients = 2
  MaxLatency = 1
  StepTime = 2
  MaxStall = 3
  MaxTime = 3
  MaxIds = 3
  MaxPackets = 4
  MaxKeys = 6
SYMMETRY Symmetry
INVARIANTS  EndsOnce KicksAreObeyed
PROPERTY SettingsLast
CHECK_DEADLOCK FALSE
