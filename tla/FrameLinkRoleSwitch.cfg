\* A host that becomes a follower after it has awaited a frame.
CONSTANTS
  MaxTicks = 3
  MaxSessions = 1
  RoleSwitching = TRUE
SPECIFICATION Spec
PROPERTIES FollowerNeverGoesBack
