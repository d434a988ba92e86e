SPECIFICATION FairSpec
CONSTANTS
  MaxTurns = 1
  Subagents = {s1}
  Agents = {a1}
  Actions = {x}
  MaxStarted = 1
  MaxRequests = 2
INVARIANTS
  WireTypeOK
  EveryPendingIsShown
  PromptLeavesNothing
  GrantCoversAll
PROPERTIES
  ContractHolds
  PromptReturns
  ShutdownEnds
CHECK_DEADLOCK FALSE
