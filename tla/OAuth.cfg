SPECIFICATION FairSpec
CONSTANTS
  Nobody = Nobody
  turn = turn
  models = models
  other = other
  m1 = m1
  m2 = m2
  p1 = p1
  p2 = p2
  Calls <- MCCalls
  Managers <- MCManagers
  Processes <- MCProcesses
  ManagerOf <- MCManagerOf
  ProcessOf <- MCProcessOf
  WithClient <- MCWithClient
  MaxTokens = 3
INVARIANTS
  OAuthTypeOK
  RejectedIsDead
PROPERTIES
  TokenSurvives
  KeyDroppedOnlyWhenDead
  RejectedIsNotRetried
  KeyRecovers
  CallsReturn
