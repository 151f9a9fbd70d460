\* A host that decides its role before its first frame call.
CONSTANTS
  MaxTicks = 3
  MaxSessions = 2
  RoleSwitching = FALSE
SPECIFICATION FairSpec
INVARIANTS TypeOK OneClientAtATime NoTornFrame AtMostOneFrameAfterQuit
PROPERTIES PublishedIsStable ShowsLatestFrame TickWakesWaiter CallsReturn
