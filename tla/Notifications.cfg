SPECIFICATION FairSpec
CONSTANTS
  Notes = {n1, n2}
  Limit = 1
  MaxCancels = 1
  MaxFailures = 1
  MaxCrashes = 1
INVARIANTS
  NotifyTypeOK
  AckedWasHeard
  ToldOnce
PROPERTIES
  EachIsDelivered
CHECK_DEADLOCK FALSE
