CONSTANTS
  s1 = s1
  s2 = s2
  Schema <- PairSchema
  Requests = {}
  MaxId = 4
  MaxVersion = 5
  Sessions = {s1, s2}
  Stored <- PairStored
  Blank <- SecondBlank
  Data = {1}
  Filters <- PairFilters
  Script <- PairScript
SPECIFICATION ORMSpec
CHECK_DEADLOCK FALSE
INVARIANTS
  WritersUpToDate
  FilterMissesNothing
PROPERTIES
  NoLostUpdate
  SaveChangesOneRow
  GetFailsOnConflict
