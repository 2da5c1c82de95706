SPECIFICATION MCSpec
CONSTANTS
  Sides = {left}
  Sessions = {s1}
  NoSession = NoSession
  MotorIdSets = {m1}
  NoIds = NoIds
  SampleKinds = {"inside"}
  MotorHealth = {"read"}
  AuxPayloads <- BaseAux
  ManualAuxiliary = TRUE
  StrictTorque = FALSE
  HandOutput = FALSE
  HandLease = 0
  ManualLease = 0
  Prompt = 0
  Skew = 0
  Fresh = 0
  LeaseSeconds = 0
  Startup = 0
  Wait = 1
PROPERTIES
  StopReachesGate
\* the node stops for good in Shutdown
CHECK_DEADLOCK FALSE
