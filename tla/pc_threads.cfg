SPECIFICATION MCSpec
CONSTANTS
  Sides = {left}
  GateReports = {"good", "fault"}
  Preempt = TRUE
  Resets = TRUE
  Settle = 0
  Delay = 0
  Hold = 0
  Startup = 0
  ResetLimit = 0
  Fresh = 0
  Grace = 0
  None = None
  MaxGate = 2
  MaxStatus = 2
  MaxQueries = 2
  Profiles = {p1, p2}
  MarkFresh = 0
  WireDelay = 1
  StepLimit = 2
  Drift = 1
  Clocks = {0, 2}
  GateDoings <- ReportedDoings
  Restarting = {"intent"}
  MaxRun = 2
  MaxWire = 2
INVARIANTS
  FaultStopsSession
  SeedWhileInactive
  LinkIsCurrent
