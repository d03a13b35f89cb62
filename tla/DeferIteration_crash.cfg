\* One worker dies between the commit and its answer.
SPECIFICATION Spec
CONSTANTS
  w1 = w1
  w2 = w2
  ShardCount = 2
  Lo <- TwoLo
  Hi <- TwoHi
  MakeAttempts = 2
  MarkAttempts = 2
  Workers <- TwoWorkers
  DeleteChoices <- Always
  FaultKinds <- Crashes
  MaxFaults = 1
INVARIANT FinalizeAfterAll
SYMMETRY WorkerSymmetry
CHECK_DEADLOCK FALSE
