SPECIFICATION Spec
CONSTANTS
  BashTasks = {b1}
  AgentTasks = {a1}
  MaxRunning = 2
  MaxTasks = 2
  MaxLate = 0
  MaxWorkerCrashes = 0
  MaxCrashes = 0
PROPERTIES
  TerminalIsKept
CHECK_DEADLOCK FALSE
