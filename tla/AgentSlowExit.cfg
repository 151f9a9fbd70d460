CONSTANTS
  MaxLaunches = 2
  MaxRuns = 1
  SlowExit = TRUE
SPECIFICATION Spec
INVARIANTS OneSessionAtATime
CHECK_DEADLOCK FALSE
