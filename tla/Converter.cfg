CONSTANTS
  NStreams = 2
  kMaxLayers = 2
  Clippable = {1}
  MaxWidth = 2
  MaxFrames = 3
  MaxInits = 2
SPECIFICATION FairSpec
INVARIANTS AllocatorIsFree SentFrameNotOverwritten PackIsOneFrame
  BufferOutlivesUse RowsMatch
PROPERTIES CallsReturn
\* The process may end by an assert, after Shutdown, or wait for ever after a
\* second Initialize.
CHECK_DEADLOCK FALSE
