SPECIFICATION Spec
CONSTANTS
  Sides = {left}
  GateReports = {"good", "fault"}
  Preempt = TRUE
  Resets = TRUE
  Settle = 0
  Delay = 0
  Hold = 0
  Startup = 0
  ResetLimit = 0
  Fresh = 0
  Grace = 0
INVARIANT StopStands
