SPECIFICATION LiveSpec
CONSTANTS
  c1 = c1
  c2 = c2
  None = None
  Call = {c1, c2}
  Batches <- MCBatches
  Modes = {"sequential", "parallel"}
  QueueMode = "one"
  MaxRetries = 1
  MaxPrompts = 2
  MaxInputs = 2
  MaxReplies = 1
INVARIANTS
  CallsAreAnswered
  InputReachesItsRun
PROPERTIES
  WorkStartsOnlyIfWanted
  StoppedRunsEnd
CHECK_DEADLOCK FALSE
