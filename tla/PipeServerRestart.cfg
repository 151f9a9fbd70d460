CONSTANTS
  Clients = {c1}
  Data = {none, streams}
  Empty = none
  Pipes = {h1, h2, h3}
  NoPipe = NoPipe
  NoClient = NoClient
  Gone = Gone
  MaxStarts = 2
SPECIFICATION Spec
INVARIANTS LoopsWhileRunning
