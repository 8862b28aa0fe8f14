SPECIFICATION Spec
CONSTANTS
  s1 = s1
  s2 = s2
  None = None
  Id <- MCId
  SessionId <- MCSession
  First = s1
  Deferred = FALSE
  Calls <- MCCalls
  BranchPoints <- MCBranchPoints
  Batches <- MCBatches
  MaxIds = 2
  MaxLog = 6
  MaxLater = 1
  MaxPlain = 2
  MaxFaults = 1
INVARIANTS
  AuthorizationIsDurable
  CacheIsProjection
  DevelopmentStaysOutOfPlanMode
PROPERTIES
  LiveOpsNeverPoison
  HandoffIsComplete
CHECK_DEADLOCK FALSE
