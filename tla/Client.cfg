SPECIFICATION Spec
CONSTANTS
  JumpPower = 1
  MaxFall = 1
  CoyoteTime = 3
  CrouchFull = 2
  CrouchDown = 2
  CrouchUp = 1
  Keys = {"Space", "ControlLeft"}
  StepTime = 2
  MaxFrame = 3
  MaxStall = 5
  MaxPresses = 2
  MaxErrors = 1
INVARIANTS  InputMatchesKeyboard FrameIsBounded MovementIsSound
PROPERTY ScrollIsSent
CHECK_DEADLOCK FALSE
