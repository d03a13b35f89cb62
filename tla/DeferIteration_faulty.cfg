\* Two faults of any kind at any point, and all that happens without one.
SPECIFICATION Spec
CONSTANTS
  w1 = w1
  w2 = w2
  ShardCount = 2
  Lo <- TwoLo
  Hi <- TwoHi
  MakeAttempts = 2
  MarkAttempts = 2
  Workers <- TwoWorkers
  DeleteChoices <- Always
  FaultKinds <- AllFaults
  MaxFaults = 2
INVARIANTS
  FinalizeComesLast NoInstanceTwice CountersExact QuiescentMeansFinalized
  ResumePointSafe KeptOnlyWhileUnfinished
SYMMETRY WorkerSymmetry
CHECK_DEADLOCK FALSE
