SPECIFICATION Spec
CONSTANTS
  WithDMail = TRUE
  MaxStepsPerTurn = 2
  MaxAttempts = 1
  CompactAt = 8
  PreserveDepth = 2
  WithHooks = TRUE
  MaxTurns = 2
  MaxCalls = 1
  MaxSteers = 1
  MaxNotes = 0
  MaxCancels = 0
  MaxCrashes = 1
INVARIANTS
  AgentTypeOK
  CheckpointIdsIncrease
  MemoryIsReplay
  SentIsWellFormed
  SizeCoversHistory
  RevertFindsCheckpoint
  SteersOnceInOrder
PROPERTIES
  ConversationIsLog
CHECK_DEADLOCK FALSE
