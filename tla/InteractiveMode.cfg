SPECIFICATION Spec
CONSTANTS
  Sub <- MCSub
  MaxPosted = 2
INVARIANTS
  OnePlaceForInput
  TheChatSettles
PROPERTIES
  NothingRunsUnallowed
CHECK_DEADLOCK FALSE
