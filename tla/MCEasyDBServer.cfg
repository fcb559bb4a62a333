CONSTANTS
  a = a
  b = b
  c = c
  Schema <- TwoTables
  Requests <- ServerRequests
  MaxId = 3
  MaxVersion = 1
  Clients = {a, b, c}
  Quitters = {a}
  BusyThreshold = 3
  Endless = {}
  MaxSent <- OneOneNone
  MaxGhosts = 1
SPECIFICATION FairServerSpec
CHECK_DEADLOCK FALSE
INVARIANTS
  ServedBound
  MutexHeld
  AnswersMatch
PROPERTIES
  Serialised
  ClientsAnswered
  PlacesFreed
