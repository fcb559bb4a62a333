CONSTANTS
  ByteValues = 16
  Size <- Sizes
  LengthSize = 2
  Exports <- AllButOne
  CallsMade <- Programs
  Answer <- Returns
  RequestRoom = 17
  Rooms = {5, 7}
  MaxPipelineRequests = 2
  Cuts = {1, 4}
  MaxCalls = 3
SPECIFICATION Spec
CHECK_DEADLOCK FALSE
INVARIANTS
  CallsMatch
  FlushNeverStuck
  FailsOnlyWhenRefused
