SPECIFICATION Spec
CONSTANTS
  Sides = {left, right}
  Sessions = {s1}
  NoSession = NoSession
  MotorIdSets = {m1}
  NoIds = NoIds
  SampleKinds = {"inside"}
  MotorHealth = {"bad", "read"}
  AuxPayloads <- NoAux
  ManualAuxiliary = FALSE
  StrictTorque = FALSE
  HandOutput = TRUE
  HandLease = 0
  ManualLease = 0
  Prompt = 0
  Skew = 0
  Fresh = 1
  LeaseSeconds = 1
  Startup = 1
  Wait = 2
INVARIANTS
  TypeOK
  CommandsSinceArming
  SetpointContinuity
  HandsFollowArms
PROPERTIES
  GapOnlyHolds
SYMMETRY SideSymmetry
\* the node stops for good in Shutdown
CHECK_DEADLOCK FALSE
