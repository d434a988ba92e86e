SPECIFICATION Spec
CONSTANTS
  NumNodes = 3
  MaxFailures = 1
  WithCancel = TRUE
INVARIANTS
  DagTypeOK
  ValidationIsRight
  DependenciesFirst
  NothingIsLost
  ExecuteNeverHangs
CHECK_DEADLOCK FALSE
