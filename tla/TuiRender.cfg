SPECIFICATION Spec
CONSTANTS
  Line <- MCLine
  MaxLines = 3
  Columns = {2, 3}
  Heights = {1, 2}
  MaxResizes = 1
  MaxHops = 1
PROPERTIES
  FramesShowTheDocument
CHECK_DEADLOCK FALSE
