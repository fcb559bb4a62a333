SPECIFICATION Spec
CONSTANTS
  CallBody = 1
  AcceptHeader = 1
  AcceptMismatch = 2
  MaxRequestSize = 2
  MaxResponseSize = 2
  MaxPipelineRequests = 3
  SendBuffer = 2
  a = a
  b = b
  Clients = {a, b}
  Calls <- AllCalls
  Quitters = {b}
  MaxCalls <- TwoOne
  MayStop = TRUE
CHECK_DEADLOCK FALSE
INVARIANTS
  BuffersInRange
  ResultsMatch
  SettledByFlush
PROPERTIES
  RepliesWritten
