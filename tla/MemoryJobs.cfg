SPECIFICATION Spec
CONSTANTS
  p1 = p1
  p2 = p2
  a = a
  b = b
  NoProc = NoProc
  NoPayload = NoPayload
  NoTask = NoTask
  Task <- MCTask
  Proc <- MCProc
  Project <- OneProject
  ProjectOf <- AllInA
  HomeOf <- BothInA
  Payload = {x}
  Candidates = 1
  MaxAttempts = 2
  BatchSize = 1
  ReceiptLimit = 2
  MaxFaults = 1
SYMMETRY Symmetry
INVARIANTS
  OneLeasePerProject
  ReceiptMeansApplied
PROPERTIES
  CheckpointsSurvive
  ImplementsLifecycle
CHECK_DEADLOCK FALSE
