SPECIFICATION MCFairSpec
CONSTANTS
  None = None
  Ids = {1, 2, 3}
  Modes = {"neck", "original"}
  Places = {0, 1, 2, 3}
  FreshTicks = 1
  JumpLimit = 1
  ReturnLimit = 1
  StillLimit = 0
  StableTicks = 1
  StatusTtl = 0
  SettleTicks = 1
  RequestTimeout = 2
  JointTtl = 0
  Measurements = {0}
  LimitLow = 0
  LimitHigh = 1
  Lead = 1
  Step = 1
  MotionKeys = {"base", "plus"}
  MaxDelay = 1
  Items = {"u", "a", "pedal", "shift", "space"}
  MaxWindows = 2
INVARIANTS
  OperatorTypeOK
  ConsoleStops
  PauseHolds
PROPERTIES
  PauseSpec
  ResumesGently
