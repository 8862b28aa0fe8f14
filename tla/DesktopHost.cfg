SPECIFICATION LiveSpec
CONSTANTS
  s1 = s1
  s2 = s2
  c1 = c1
  None = None
  Session <- MCSession
  First = s1
  Saved = "ask"
  Chat <- MCChat
  MaxChats = 1
  MaxMoves = 2
  MaxFaults = 1
INVARIANTS
  ArchivedIsQuiet
  UnfinishedIsUncertain
PROPERTIES
  ChatsObeyTheParent
  RequestsEnd
CHECK_DEADLOCK FALSE
