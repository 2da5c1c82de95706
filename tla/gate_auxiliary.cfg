SPECIFICATION Spec
CONSTANTS
  Sides = {left}
  Sessions = {s1, s2}
  NoSession = NoSession
  MotorIdSets = {m1, m2}
  NoIds = NoIds
  SampleKinds = {"inside", "outside", "moved"}
  MotorHealth = {"bad", "torque"}
  AuxPayloads <- SomeAux
  ManualAuxiliary = TRUE
  StrictTorque = TRUE
  HandOutput = TRUE
  HandLease = 0
  ManualLease = 0
  Prompt = 0
  Skew = 0
  Fresh = 0
  LeaseSeconds = 0
  Startup = 0
  Wait = 0
INVARIANTS
  OutputHasAuthority
  BaseHasAuthority
PROPERTIES
  RelaySpec
  MotorIdentityFixed
  SessionChangeDisarms
\* the node stops for good in Shutdown
CHECK_DEADLOCK FALSE
