SPECIFICATION FairSpec
CONSTANTS
  Connections = {k1, k2, k3, k4}
  NULL = NULL
CHECK_DEADLOCK FALSE
INVARIANTS
  LinksMatch
PROPERTIES
  DestructorEnds
  ImplementsRecency
