CONSTANTS
  NStreams = 2
  kMaxLayers = 2
  Clippable = {}
  MaxWidth = 2
  MaxFrames = 4
  MaxInits = 1
SPECIFICATION Spec
INVARIANTS ConsumedIsFinished
CHECK_DEADLOCK FALSE
