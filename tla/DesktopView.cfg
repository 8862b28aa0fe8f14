SPECIFICATION LiveSpec
CONSTANTS
  s1 = s1
  s2 = s2
  Session <- MCSession
  Resumed = s1
  MaxRuns = 2
  MaxMessages = 1
  MaxCompactions = 1
  MaxFrame = 2
  MaxActs = 2
INVARIANTS
  ViewShowsTheSession
PROPERTIES
  BusyEnds
CHECK_DEADLOCK FALSE
