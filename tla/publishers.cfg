SPECIFICATION MCSpec
CONSTANTS
  None = None
  Heights = {0, 4}
  Places = {0, 2}
  Params <- LaunchParams
  HoldTicks = 1
  LiftSteps = {1}
  BaseDeadzone = 1
  BaseMaxSpeed = 1
  Sides = {"left"}
  HandPoses <- TwoHandPoses
  HeadHeights = {0, 1}
  LimbHeights = {0, 3}
  Limbs = {"elbow"}
  VrScale = 3
  Unit = 2
  Offset <- ElbowOffset
  Reach = 2
  MaxTurn = 1
  Timeout = 1
  Lost <- OneLostElbow
  LiftHeights = {0, 1}
  LiftGoals = {0, 1}
  Buttons = {"X", "A"}
  Grace = 2
  IntentLife = 1
  PrepTime = 1
  PrepLimit = 3
  LongPress = 2
  SourceGap = 1
  ReceiptGap = 1
  StopWait = 1
  Settling = 1
  PoseLife = 1
  TrackLife = 0
  HandPlaces = {0, 2}
  HandJump = 2
  Reaction = 0
  GoalDelay = 0
  FeedbackLife = 0
  InputLife = 0
  CommandLife = 1
  SimJoints = {"hand"}
  Positions = {0, 2}
INVARIANTS
  PublishersTypeOK
  SwitchIsWhole
  LossStopsArms
PROPERTIES
  GoalsStayNear
  ButtonsMeanOneThing
  GripsStand
