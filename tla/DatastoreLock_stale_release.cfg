\* A section that outlasts steal_after_ms releases the lock of its thief.
SPECIFICATION Spec
CONSTANTS
  t1 = t1
  t2 = t2
  t3 = t3
  c1 = c1
  NoLimit = NoLimit
  Threads <- ThreeThreads
  Crashable <- NoThreads
  Cleaners <- NoCleaners
  Options <- StealOptions
  CleanupAge = 2
  MaxHold = 3
  MaxAge = 3
PROPERTY JoinsOnlyIgnoredHolders
