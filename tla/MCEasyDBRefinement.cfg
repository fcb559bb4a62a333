CONSTANTS
  Schema <- DiamondSchema
  Requests <- DiamondRequests
  MaxId = 2
  MaxVersion = 2
SPECIFICATION FairSpecReturned
INVARIANTS
  RowsFitSchema
  QueriesPartition
  ReferentialIntegrity
  RecursionBounded
PROPERTIES
  ImplementsAtomicDB
  GoneForever
  VersionIdentifiesValues
  DropTerminates
