SPECIFICATION Spec
CONSTANTS
  k1 = k1
  g = g
  a = a
  b = b
  fact = fact
  wish = wish
  j1 = j1
  None = None
  Key = {k1, g}
  Generated = {g}
  Value = {a, b}
  Kind = {fact, wish}
  Splitting = {}
  Memories <- MCMemories
  Said <- MCSaid
  Job = {j1}
  MaxEvents = 4
  MaxTime = 2
  MaxFaults = 1
INVARIANTS
  SnapshotIsReplay
  JobsApplyOnce
  ForgottenStaysForgotten
  ExplicitStands
CHECK_DEADLOCK FALSE
