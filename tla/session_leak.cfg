SPECIFICATION Spec
CONSTANTS
  OptionSets <- LoopCommandLine
  Preempt = TRUE
INVARIANT CommandsStopFirst
\* the session ends
CHECK_DEADLOCK FALSE
