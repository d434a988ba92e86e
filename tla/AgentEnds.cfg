SPECIFICATION FairSpec
CONSTANTS
  WithDMail = FALSE
  MaxStepsPerTurn = 2
  MaxAttempts = 2
  CompactAt = 3
  PreserveDepth = 1
  WithHooks = TRUE
  MaxTurns = 1
  MaxCalls = 1
  MaxSteers = 2
  MaxNotes = 1
  MaxCancels = 1
  MaxCrashes = 0
INVARIANTS
  SteersOnceInOrder
PROPERTIES
  RunEnds
CHECK_DEADLOCK FALSE
