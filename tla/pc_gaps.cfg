SPECIFICATION Spec
CONSTANTS
  Sides = {left, right}
  GateReports = {"good", "waiting", "late", "unready", "fault"}
  Preempt = FALSE
  Resets = FALSE
  Settle = 0
  Delay = 1
  Hold = 1
  Startup = 2
  ResetLimit = 0
  Fresh = 0
  Grace = 1
INVARIANTS
  HandsMoveAfterStartup
PROPERTIES
  FollowsFreshInput
  GapOnlyWaits
SYMMETRY SideSymmetry
