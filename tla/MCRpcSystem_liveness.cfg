SPECIFICATION FairSpec
CONSTANTS
  CallBody = 1
  AcceptHeader = 1
  AcceptMismatch = 2
  MaxRequestSize = 2
  MaxResponseSize = 2
  MaxPipelineRequests = 2
  SendBuffer = 4
  a = a
  b = b
  Clients = {a, b}
  Calls <- SmallCalls
  Quitters = {b}
  MaxCalls <- ThreeOne
  MayStop = TRUE
CHECK_DEADLOCK FALSE
INVARIANTS
  NoSpuriousFailure
PROPERTIES
  FlushReturns
  ConnectionsClosed
