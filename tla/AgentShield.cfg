SPECIFICATION Spec
CONSTANTS
  WithDMail = FALSE
  MaxStepsPerTurn = 1
  MaxAttempts = 1
  CompactAt = 9
  PreserveDepth = 2
  WithHooks = FALSE
  MaxTurns = 2
  MaxCalls = 1
  MaxSteers = 0
  MaxNotes = 0
  MaxCancels = 1
  MaxCrashes = 0
INVARIANTS
  GrowthIsShielded
CHECK_DEADLOCK FALSE
