SPECIFICATION Spec
CONSTANTS
  Proc = {p1, p2}
  Provider <- MCProvider
  Home = "deepseek"
  Model <- MCModel
  Name <- MCName
  Retired = {"chat"}
  Alias <- MCAlias
  MadeBy <- MCMadeBy
  EnvKey = {"zai"}
  Stored <- MCStored
  FirstOf <- MCFirstOf
  DefaultOf <- MCFirstOf
  Begins = {}
  Stranger = "stranger"
  Text <- MCText
  Blank = {""}
  MaxDelay = 1
  Given <- MCGiven
  MaxSaves = 2
  Null = "null"
  Listing <- MCListing
  Keeps <- MCKeeps
  MaxRows = 2
  MaxDialogs = 1
SYMMETRY MCSymmetry
INVARIANTS
  TerminalsAreSound
PROPERTIES
  SavesChangeOneEntry
