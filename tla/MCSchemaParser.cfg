CONSTANTS
  Names = {"a", "b", "integer"}
  Modules <- Programs
  MaxTokens = 18
SPECIFICATION SchemaSpec
CHECK_DEADLOCK FALSE
INVARIANTS
  ReferencesGoBack
  NothingLost
  SidesAgree
