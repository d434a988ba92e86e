SPECIFICATION FairSpec
CONSTANTS
  NumNodes = 3
  MaxFailures = 1
  WithCancel = FALSE
PROPERTIES
  RaisesIfAnyTaskFails
CHECK_DEADLOCK FALSE
