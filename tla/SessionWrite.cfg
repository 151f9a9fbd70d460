CONSTANTS
  Writers = {game, render}
  MaxWrites = 5
SPECIFICATION FairSpec
INVARIANTS OneWriteInFlight NothingStranded
PROPERTIES IsOrderedChannel
CHECK_DEADLOCK FALSE
