\* A single run of an agent whose processes end when they are terminated.
CONSTANTS
  MaxLaunches = 3
  MaxRuns = 1
  SlowExit = FALSE
SPECIFICATION FairSpec
INVARIANTS SessionReadsOwnStreams OneSessionAtATime IdleReportsLastExit
PROPERTIES ExitIsNoticed
CHECK_DEADLOCK FALSE
