SPECIFICATION Spec
CONSTANTS
  t1 = t1
  none = none
  None = none
  MaxEntry = 5
  EntryId <- MCEntryId
  Body <- Bodies
  NoBody <- Silent
  Task = {t1}
  SecondFile = 2
  Capacity <- MCCapacity
  Histories <- MCHistories
  Weight <- MCWeight
  KeepRecent = 2
  MaxActive = 1
  MaxTurns = 1
  MaxMoves = 2
  MaxFaults = 1
INVARIANTS
  SessionIsSound
  SummariesFitTheirBranch
  LiveContextIsBranch
  EndedTasksStayEnded
CHECK_DEADLOCK FALSE
