\* The agent and the host as in PipeServer.cfg, without another client.
CONSTANTS
  Clients = {c1}
  Host = c1
  none = none
  broken = broken
  two = two
  Data = {none, broken, two}
  Empty = none
  StreamsOf <- MCStreamsOf
  Pipes = {h1, h2}
  NoPipe = NoPipe
  NoClient = NoClient
  Gone = Gone
  MaxStarts = 1
SPECIFICATION StreamSpec
INVARIANTS FallbackIsSent
