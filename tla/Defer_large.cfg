\* A call whose pickled form is too large for Cloud Tasks.
SPECIFICATION Spec
CONSTANTS
  Calls <- EveryCall
  Permanent = FALSE
  FaultKinds <- NoFaults
  MaxFaults = 0
INVARIANT LargeTaskDeferred
CHECK_DEADLOCK FALSE
