CONSTANTS
  MaxStarts = 2
  MaxWrites = 2
  Bounds <- MCBounds
  BuildCallbacks = {"cameras", "skeleton"}
SPECIFICATION FairClusterSpec
INVARIANTS OneTickAfterStop OnlySharedTicksAreLost HostSeesTick
PROPERTIES StopEndsStart PeerGoneEndsStart TickArrives
