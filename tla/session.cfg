SPECIFICATION MCSpec
CONSTANTS
  None = None
  OptionSets <- AllCommandLines
  Preempt = FALSE
  KeyItems = {"w", "v", "c", "shift"}
  MaxHeld = 2
  MaxWire = 1
  KeyTtl = 2
  RestTime = 1
  GateTtl = 1
  HoldTime = 3
  TrackTtl = 1
  GapTtl = 2
  Steady = 2
  MotorFresh = 1
  Unverified = 2
INVARIANTS
  StationTypeOK
  NothingLeftRunning
  CommandsStopFirst
  CleanEndReleasesFingers
  PoseIsWhole
PROPERTIES
  MotionIsAsked
  EveryStopArrives
\* the session ends
CHECK_DEADLOCK FALSE
