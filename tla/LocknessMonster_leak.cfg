\* "@lock('x')", which waits: one instance entered by every thread.
SPECIFICATION MonsterSpec
CONSTANTS
  i1 = i1
  Users = {t1, t2, t3}
  Instances <- OneInstance
  InstanceOf <- Shared
  WaitingInstances <- OneInstance
INVARIANT LockHasHolder
