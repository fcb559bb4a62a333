CONSTANTS
  Schema <- TwoRefsSchema
  Requests <- TwoRefsRequests
  MaxId = 2
  MaxVersion = 2
SPECIFICATION Spec
INVARIANTS
  NotFoundMeansAbsent
