SPECIFICATION LiveSpec
CONSTANTS
  t = t
  idea = idea
  c1 = c1
  c2 = c2
  Texts = {t}
  Thoughts = {idea}
  Calls = {c1, c2}
  Apis = {"completions", "responses"}
  Pieces <- MCPieces
  MaxLag = 0
  None = None
INVARIANTS
  MessageIsWhatWasSent
PROPERTIES
  ImplementsProtocol
  EveryReadEnds
CHECK_DEADLOCK FALSE
