\* Kills, cleanup, time limits and sections that outlast steal_after_ms.
SPECIFICATION FairSpec
CONSTANTS
  t1 = t1
  t2 = t2
  t3 = t3
  c1 = c1
  NoLimit = NoLimit
  Threads <- TwoThreads
  Crashable <- TwoThreads
  Cleaners <- OneCleaner
  Options <- AllOptions
  CleanupAge = 2
  MaxHold = 3
  MaxAge = 3
PROPERTIES StealsOnlyOldLocks BoundedWaitersReturn OrphansReaped
