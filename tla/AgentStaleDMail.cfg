SPECIFICATION Spec
CONSTANTS
  WithDMail = TRUE
  MaxStepsPerTurn = 1
  MaxAttempts = 1
  CompactAt = 8
  PreserveDepth = 2
  WithHooks = FALSE
  MaxTurns = 3
  MaxCalls = 1
  MaxSteers = 0
  MaxNotes = 0
  MaxCancels = 0
  MaxCrashes = 0
INVARIANTS
  DenwaRenjiGuarantee
CHECK_DEADLOCK FALSE
