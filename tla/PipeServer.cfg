\* One Start and one Stop, as RunServer calls them.
CONSTANTS
  Clients = {c1, c2}
  Host = c1
  none = none
  broken = broken
  two = two
  Data = {none, broken, two}
  Empty = none
  StreamsOf <- MCStreamsOf
  Pipes = {h1, h2}
  NoPipe = NoPipe
  NoClient = NoClient
  Gone = Gone
  MaxStarts = 1
SPECIFICATION FairStreamSpec
INVARIANTS OneAcceptLoop NothingLeftOpen ContextsOwned 
  StreamsFitBuffer
PROPERTIES IsPipeService GetStreamsReturns
