--------------------------- MODULE LocknessMonster ---------------------------
(***************************************************************************)
(* The lock decorator and context manager of contrib/locking/lock.py.  An  *)
(* instance keeps the acquired Lock in its attribute self.lock between     *)
(* __enter__ and __exit__.  "with lock('x')" makes an instance for each    *)
(* use; "@lock('x')" makes one for the function, which every thread that   *)
(* calls the function enters and leaves.                                   *)
(*                                                                         *)
(* Every instance here uses the same identifier.  Acquiring and releasing  *)
(* the stored lock are atomic: that is what DatastoreLock is shown to      *)
(* implement.  Any Lock object releases the stored lock, by key.           *)
(***************************************************************************)
CONSTANTS
  Users,             \* the threads
  Instances,         \* LocknessMonster objects
  InstanceOf,        \* the object each thread enters
  WaitingInstances  \* the objects made with wait=True

VARIABLES
  taken,      \* the stored lock exists
  selfLock,   \* does self.lock of each instance hold a Lock?
  monsterAt   \* where each thread is in __enter__, the body and __exit__

monsterVars == <<taken, selfLock, monsterAt>>

MonsterPCs == {"idle", "acquiring", "gotLock", "gotNone", "running", "release", "clear"}
Goes(t, from, to) == monsterAt[t] = from /\ monsterAt' = [monsterAt EXCEPT ![t] = to]
SetSelfLock(t, b) == selfLock' = [selfLock EXCEPT ![InstanceOf[t]] = b]

MonsterInit ==
  /\ taken = FALSE
  /\ selfLock = [i \in Instances |-> FALSE]
  /\ monsterAt = [t \in Users |-> "idle"]

Enter(t) == Goes(t, "idle", "acquiring") /\ UNCHANGED <<taken, selfLock>>

\* Lock.acquire() returns a Lock ...
AcquireReturnsLock(t) ==
  /\ ~taken
  /\ taken' = TRUE
  /\ Goes(t, "acquiring", "gotLock")
  /\ UNCHANGED selfLock

\* ... or None, which only a caller that does not wait ever sees: the lock is
\* held, or the transaction failed.
AcquireReturnsNone(t) ==
  /\ InstanceOf[t] \notin WaitingInstances
  /\ Goes(t, "acquiring", "gotNone")
  /\ UNCHANGED <<taken, selfLock>>

\* self.lock = Lock.acquire(...): the assignment, and the locked code starts.
StoreLock(t) ==
  /\ Goes(t, "gotLock", "running")
  /\ SetSelfLock(t, TRUE)
  /\ UNCHANGED taken

\* Mutated form of StoreNone: the refused caller runs __exit__ as well.
StoreNoneAndExit(t) ==
  /\ Goes(t, "gotNone", "idle")
  /\ SetSelfLock(t, FALSE)
  /\ taken' = FALSE
\* The same assignment of None; __enter__ raises LockAcquisitionError.
StoreNone(t) ==
  /\ Goes(t, "gotNone", "idle")
  /\ SetSelfLock(t, FALSE)
  /\ UNCHANGED taken

\* __exit__: "if self.lock:" ...
TestSelfLock(t) ==
  /\ \/ selfLock[InstanceOf[t]] /\ Goes(t, "running", "release")
     \/ ~selfLock[InstanceOf[t]] /\ Goes(t, "running", "idle")
  /\ UNCHANGED <<taken, selfLock>>

\* ... "self.lock.release()", an AttributeError if it has become None ...
ReleaseSelfLock(t) ==
  /\ \/ selfLock[InstanceOf[t]] /\ taken' = FALSE /\ Goes(t, "release", "clear")
     \/ ~selfLock[InstanceOf[t]] /\ UNCHANGED taken /\ Goes(t, "release", "idle")
  /\ UNCHANGED selfLock

\* ... "self.lock = None  # Just for neatness".
ClearSelfLock(t) ==
  /\ Goes(t, "clear", "idle")
  /\ SetSelfLock(t, FALSE)
  /\ UNCHANGED taken

\* Threads whose acquire() has returned a lock they have not released.
LockHolders == {t \in Users : monsterAt[t] \in {"gotLock", "running", "release"}}

\* The cleanup task removes a lock nobody holds, after ten minutes.
Reap == /\ taken /\ LockHolders = {}
        /\ taken' = FALSE
        /\ UNCHANGED <<selfLock, monsterAt>>

MonsterStep(t) ==
  \/ AcquireReturnsLock(t) \/ AcquireReturnsNone(t)
  \/ StoreLock(t) \/ StoreNone(t)
  \/ TestSelfLock(t) \/ ReleaseSelfLock(t) \/ ClearSelfLock(t)

MonsterNext == Reap \/ \E t \in Users : Enter(t) \/ MonsterStep(t)

MonsterSpec == MonsterInit /\ [][MonsterNext]_monsterVars

-----------------------------------------------------------------------------
MonsterTypeOK ==
  /\ taken \in BOOLEAN
  /\ selfLock \in [Instances -> BOOLEAN]
  /\ monsterAt \in [Users -> MonsterPCs]

\* Even on a shared instance the lock excludes: whatever the threads do to
\* self.lock, nobody's lock is released while it runs (lock.py:83-91).
Service == INSTANCE MutexService
             WITH Threads <- Users, holders <- LockHolders, orphaned <- taken /\ LockHolders = {}
ImplementsMutex == Service!Spec

\* A lock exists only while some thread is between its acquire and its
\* release: "This will not be called if another thread is already holding the
\* lock" (docs/locking.md:85); and the variables keep their types.
LockHasHolder == MonsterTypeOK /\ (taken => LockHolders # {})

=============================================================================
