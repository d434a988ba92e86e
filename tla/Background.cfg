SPECIFICATION FairSpec
CONSTANTS
  BashTasks = {b1}
  AgentTasks = {a1}
  MaxRunning = 1
  MaxTasks = 1
  MaxLate = 2
  MaxWorkerCrashes = 1
  MaxCrashes = 2
INVARIANTS
  TypeOK
  EndedCommandIsDead
  EndedRunnerIsDone
PROPERTIES
  TasksEnd
  EndsAnnounced
  KillReaches
CHECK_DEADLOCK FALSE
