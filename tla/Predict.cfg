CONSTANTS
  Speeds = {0, 2}
  Accel = 1
  Lo <- MCLo
  Hi = 2
  MaxPendingCommands = 2
  SnapThreshold = 1
  MaxDeltaAge = 3
  MaxCommands = 4
  MaxTick = 3
SPECIFICATION Spec
INVARIANT PredictionIsExact
PROPERTY SmoothCorrection
CHECK_DEADLOCK FALSE
