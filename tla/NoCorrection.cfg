CONSTANTS
  Speeds = {0, 1}
  Accel = 9
  Lo <- MCFar
  Hi = 9
  MaxPendingCommands = 9
  SnapThreshold = 1
  MaxDeltaAge = 3
  MaxCommands = 3
  MaxTick = 3
SPECIFICATION Spec
PROPERTY SnapshotCorrects
CHECK_DEADLOCK FALSE
