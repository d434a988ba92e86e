SPECIFICATION Spec
CONSTANTS
  MaxTurns = 1
  Subagents = {s1}
  Agents = {}
  Actions = {x}
  MaxStarted = 1
  MaxRequests = 1
INVARIANTS
  SubagentsAreDone
CHECK_DEADLOCK FALSE
