CONSTANTS
  Schema <- SmallSchema
  Requests <- OtherRequests
  MaxId = 5
  MaxVersion = 3
  Stored <- PlainStored
  Calls <- SmallCalls
  PacketWords = 16
  RecvWords = 11
  Cuts = {1, 5}
  Junk = {0, 1}
  MaxCalls = 4
SPECIFICATION ClientSpec
CHECK_DEADLOCK FALSE
INVARIANTS
  ScansAnswered
