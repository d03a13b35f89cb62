\* Timeouts and exceptions of the callback, under fairness.
SPECIFICATION FairSpec
CONSTANTS
  w1 = w1
  w2 = w2
  ShardCount = 2
  Lo <- GapLo
  Hi <- GapHi
  MakeAttempts = 2
  MarkAttempts = 2
  Workers <- TwoWorkers
  DeleteChoices <- Either
  FaultKinds <- NoFaults
  MaxFaults = 0
PROPERTIES FinishedForGood EventuallyFinalized
\* Once finalize has run there is nothing left to do.
CHECK_DEADLOCK FALSE
