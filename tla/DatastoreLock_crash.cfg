\* Threads may be killed at any point; orphaned locks are stolen.
SPECIFICATION Spec
CONSTANTS
  t1 = t1
  t2 = t2
  t3 = t3
  c1 = c1
  NoLimit = NoLimit
  Threads <- ThreeThreads
  Crashable <- ThreeThreads
  Cleaners <- NoCleaners
  Options <- AllOptions
  CleanupAge = 2
  MaxHold = 2
  MaxAge = 4
INVARIANT IInv
PROPERTY ImplementsMutex
SYMMETRY ThreadSymmetry
