SPECIFICATION ReplaySpec
CONSTANTS
  i1 = i1
  i2 = i2
  parent = parent
  child = child
  None = None
  Id <- MCId
  SessionId <- MCSession
  Entry <- MCEntry
  Live = i1
  Parent = parent
  MaxEntries = 6
INVARIANTS
  ConfirmableIsIntact
  ExecutionIsOwned
PROPERTIES
  NoRunStartsTwice
  BlockedUntilUserExit
CHECK_DEADLOCK FALSE
