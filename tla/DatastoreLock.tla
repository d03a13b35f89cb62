---------------------------- MODULE DatastoreLock ----------------------------
(***************************************************************************)
(* The STRONG lock: LockQuerySet.acquire and DatastoreLock.release of      *)
(* contrib/locking/models.py, reached through Lock.acquire/release of      *)
(* lock.py, and the cleanup task of views.py, for one lock identifier.     *)
(*                                                                         *)
(* A lock is one Datastore entity, keyed by the hash of the identifier and *)
(* stamped with a time.  acquire() runs a transaction that creates it or,  *)
(* if it is old enough, restamps it; release() deletes it by key; the      *)
(* cleanup task deletes every lock older than ten minutes.                 *)
(*                                                                         *)
(* Time is kept as ages: instead of now and of each timestamp the module   *)
(* keeps "now - timestamp", and Tick lets every age grow.  Ages saturate   *)
(* at MaxAge, which is beyond every limit the code compares them with, and *)
(* go back to 0 when the call that kept the time has returned.             *)
(***************************************************************************)
EXTENDS Integers

CONSTANTS
  Threads,      \* threads, on any instance, that use this identifier
  Crashable,    \* those whose instance may be killed at any point
  Cleaners,     \* concurrent executions of the cleanup task
  Options,      \* argument records [wait, steal, maxWait] acquire is called with
  NoLimit,      \* max_wait_ms=None
  CleanupAge,   \* DELETE_LOCKS_OLDER_THAN_SECONDS
  MaxHold,      \* longest time from stamping a lock to the end of its release
  MaxAge        \* where ages saturate

\* steal_after_ms=None and steal_after_ms=0 are both false in the code's
\* "steal_after_ms and ...", so both are written steal = 0.
ASSUME OptionsAssumption ==
  /\ Options # {}
  /\ Options \subseteq [wait : BOOLEAN, steal : Nat, maxWait : Nat \cup {NoLimit}]
ASSUME NoLimitAssumption == NoLimit \notin Nat
ASSUME SetsAssumption == Crashable \subseteq Threads
ASSUME AgesAssumption ==
  /\ MaxAge \in Nat /\ MaxHold \in 1..MaxAge /\ CleanupAge \in 0..(MaxAge - 1)
  /\ \A o \in Options : /\ o.steal < MaxAge
                        /\ o.maxWait # NoLimit => o.maxWait < MaxAge

VARIABLES
  row,        \* the DatastoreLock entity: does it exist, now - timestamp
  pc,         \* where each thread is
  opt,        \* the arguments of each thread's acquire()
  waited,     \* now - start_time of each acquire() with a max_wait_ms
  stamp,      \* now - the timestamp each thread has written, or will commit
  conflicted, \* open transactions whose lock entity changed since it was read
  selected    \* cleanup tasks that have queried this lock and not yet deleted it

vars == <<row, pc, opt, waited, stamp, conflicted, selected>>

Absent == [exists |-> FALSE, age |-> 0]
Stamped(a) == [exists |-> TRUE, age |-> a]
Ages == 0..MaxAge
Older(a) == IF a < MaxAge THEN a + 1 ELSE a

\* "begin": about to open a transaction; "commit": in it, with a write pending;
\* "none": trans() returned None; "running": acquire() returned the lock;
\* "refused": acquire() returned None, LockAcquisitionError in the with form.
PCs == {"idle", "begin", "commit", "none", "running", "refused"}
Acquiring == {"begin", "commit", "none"}

Goto(t, to) == pc' = [pc EXCEPT ![t] = to]

\* A write to the entity makes every other open transaction on it conflict.
Touched(t) == {s \in Threads \ {t} : pc[s] = "commit"}

Init ==
  /\ row = Absent
  /\ pc = [t \in Threads |-> "idle"]
  /\ opt = [t \in Threads |-> CHOOSE o \in Options : TRUE]
  /\ waited = [t \in Threads |-> 0]
  /\ stamp = [t \in Threads |-> 0]
  /\ conflicted = {}
  /\ selected = {}

\* Lock.acquire(...), or entering "with lock(...)".
Acquire(t, o) ==
  /\ pc[t] \in {"idle", "refused"}
  /\ Goto(t, "begin")
  /\ opt' = [opt EXCEPT ![t] = o]
  /\ waited' = [waited EXCEPT ![t] = 0]
  /\ UNCHANGED <<row, stamp, conflicted, selected>>

\* Mutated form of StealAllowed: a lock exactly steal_after_ms old is taken.
StealAllowedEarly(o, age) == o.steal > 0 /\ age >= o.steal
StealAllowed(o, age) == o.steal > 0 /\ age > o.steal

\* _trans() decides to write: it found no lock and creates one, or found one
\* older than steal_after_ms and restamps it.  The timestamp is taken here,
\* before the commit.
StageWrite(t) ==
  /\ pc[t] = "begin"
  /\ ~row.exists \/ StealAllowed(opt[t], row.age)
  /\ Goto(t, "commit")
  /\ stamp' = [stamp EXCEPT ![t] = 0]
  /\ UNCHANGED <<row, opt, waited, conflicted, selected>>

\* _trans() found a lock it may not steal and falls off its end: None.
FindHeld(t) ==
  /\ pc[t] = "begin"
  /\ row.exists /\ ~StealAllowed(opt[t], row.age)
  /\ Goto(t, "none")
  /\ UNCHANGED <<row, opt, waited, stamp, conflicted, selected>>

\* Mutated form of Commit: the read and the write are in no transaction.
CommitWithoutTransaction(t) ==
  /\ pc[t] = "commit"
  /\ row' = Stamped(stamp[t])
  /\ conflicted' = Touched(t) \ {t}
  /\ Goto(t, "running")
  /\ waited' = [waited EXCEPT ![t] = 0]
  /\ UNCHANGED <<opt, stamp, selected>>
\* The transaction commits: Datastore checks that the entity is the one read.
Commit(t) ==
  /\ pc[t] = "commit"
  /\ t \notin conflicted
  /\ row' = Stamped(stamp[t])
  /\ conflicted' = Touched(t)
  /\ Goto(t, "running")
  /\ waited' = [waited EXCEPT ![t] = 0]
  /\ UNCHANGED <<opt, stamp, selected>>

\* TransactionFailedError, because of a conflict or of the service: None.
CommitFails(t) ==
  /\ pc[t] = "commit"
  /\ Goto(t, "none")
  /\ conflicted' = conflicted \ {t}
  /\ stamp' = [stamp EXCEPT ![t] = 0]
  /\ UNCHANGED <<row, opt, waited, selected>>

\* Mutated form of WaitedTooLong: the limit is taken in the wrong unit.
WaitedFarTooLong(t) == opt[t].maxWait # NoLimit /\ waited[t] > MaxAge
WaitedTooLong(t) == opt[t].maxWait # NoLimit /\ waited[t] > opt[t].maxWait

\* The body of the while loop: sleep, then another transaction.
Retry(t) ==
  /\ pc[t] = "none"
  /\ opt[t].wait /\ ~WaitedTooLong(t)
  /\ Goto(t, "begin")
  /\ UNCHANGED <<row, opt, waited, stamp, conflicted, selected>>

\* The loop is not entered, or is left by its break: acquire() returns None.
GiveUp(t) ==
  /\ pc[t] = "none"
  /\ ~opt[t].wait \/ WaitedTooLong(t)
  /\ Goto(t, "refused")
  /\ waited' = [waited EXCEPT ![t] = 0]
  /\ UNCHANGED <<row, opt, stamp, conflicted, selected>>

\* release() deletes the entity by key, whoever stamped it last.  A thread is
\* "running" until its delete has been applied.
Release(t) ==
  /\ pc[t] = "running"
  /\ row' = Absent
  /\ conflicted' = Touched(t)
  /\ Goto(t, "idle")
  /\ stamp' = [stamp EXCEPT ![t] = 0]
  /\ UNCHANGED <<opt, waited, selected>>

\* The instance is killed; an open transaction is lost, a stored lock stays.
Crash(t) ==
  /\ t \in Crashable
  /\ pc[t] \in Acquiring \cup {"running"}
  /\ Goto(t, "idle")
  /\ conflicted' = conflicted \ {t}
  /\ waited' = [waited EXCEPT ![t] = 0]
  /\ stamp' = [stamp EXCEPT ![t] = 0]
  /\ UNCHANGED <<row, opt, selected>>

\* Mutated form of Expired: timestamp__gt.
ExpiredNever(age) == age < CleanupAge
\* timestamp__lt=cut_off
Expired(age) == age > CleanupAge

\* cleanup_locks_task: the query finds the lock past the cut-off ...
CleanupSelect(c) ==
  /\ c \notin selected
  /\ row.exists /\ Expired(row.age)
  /\ selected' = selected \cup {c}
  /\ UNCHANGED <<row, pc, opt, waited, stamp, conflicted>>

\* ... and queryset.delete() deletes the key it found.
CleanupDelete(c) ==
  /\ c \in selected
  /\ selected' = selected \ {c}
  /\ row' = Absent
  /\ conflicted' = {s \in Threads : pc[s] = "commit"}
  /\ UNCHANGED <<pc, opt, waited, stamp>>

\* Time passes.  MaxHold is the user's side of the bargain ("if you know that
\* the section of code you're locking should never take more than ...").
Tick ==
  /\ \A t \in Threads : pc[t] \in {"commit", "running"} => stamp[t] < MaxHold
  /\ row' = IF row.exists THEN Stamped(Older(row.age)) ELSE row
  /\ waited' = [t \in Threads |->
                  IF pc[t] \in Acquiring /\ opt[t].maxWait # NoLimit
                  THEN Older(waited[t]) ELSE waited[t]]
  /\ stamp' = [t \in Threads |->
                  IF pc[t] \in {"commit", "running"} THEN Older(stamp[t]) ELSE stamp[t]]
  /\ UNCHANGED <<pc, opt, conflicted, selected>>

\* The steps a live thread takes by itself once it has called acquire().
Step(t) == \/ StageWrite(t) \/ FindHeld(t) \/ Commit(t) \/ CommitFails(t)
           \/ Retry(t) \/ GiveUp(t) \/ Release(t)

Next ==
  \/ \E t \in Threads : \/ \E o \in Options : Acquire(t, o)
                        \/ Step(t)
                        \/ Crash(t)
  \/ \E c \in Cleaners : CleanupSelect(c) \/ CleanupDelete(c)
  \/ Tick

Spec == Init /\ [][Next]_vars

\* Threads are scheduled, time passes, and the cron entry that the
\* documentation asks for runs the cleanup task again and again.
Fairness ==
  /\ \A t \in Threads : WF_vars(Step(t))
  /\ \A c \in Cleaners : WF_vars(CleanupSelect(c)) /\ WF_vars(CleanupDelete(c))
  /\ WF_vars(Tick)

FairSpec == Spec /\ Fairness

-----------------------------------------------------------------------------
TypeOK ==
  /\ row \in [exists : BOOLEAN, age : Ages]
  /\ pc \in [Threads -> PCs]
  /\ opt \in [Threads -> Options]
  /\ waited \in [Threads -> Ages]
  /\ stamp \in [Threads -> Ages]
  /\ conflicted \subseteq {t \in Threads : pc[t] = "commit"}
  /\ selected \subseteq Cleaners

Running == {t \in Threads : pc[t] = "running"}

\* The bargain under which the lock is one: whoever steals waits at least as
\* long as a section may take, and so does the cleanup task.
Timely == /\ MaxHold <= CleanupAge
          /\ \A o \in Options : o.steal = 0 \/ MaxHold <= o.steal
\* No lock is orphaned, or no cleanup task deletes orphans.
NoReapRace == Crashable = {} \/ Cleaners = {}

\* "only 1 thread can execute it at any given time" (lock.py:54).
MutualExclusion == \A s, t \in Running : s = t

\* A thread inside the locked code owns the stored lock: the entity is there
\* and carries the timestamp this thread gave it (models.py:46-54), so nobody
\* has stolen, deleted or re-created it underneath.
HolderOwnsRow ==
  \A t \in Running : row = Stamped(stamp[t]) /\ stamp[t] <= MaxHold

\* A pending write is either doomed to conflict or still as legal as when the
\* transaction read the entity (models.py:39-49).
PendingWriteLegal ==
  \A t \in Threads \ conflicted :
    pc[t] = "commit" => /\ ~row.exists \/ StealAllowed(opt[t], row.age)
                        /\ stamp[t] <= MaxHold

\* Without kills a stored lock has a thread inside, hence nothing to clean up.
NothingToReap ==
  Crashable = {} => (row.exists => Running # {}) /\ selected = {}

IInv == /\ TypeOK
        /\ MutualExclusion
        /\ HolderOwnsRow
        /\ PendingWriteLegal
        /\ NothingToReap

\* However long sections take: a lock that exists changes hands only when it
\* is older than the thief's steal_after_ms at the moment of the change
\* (models.py:42-49), although the age was read before the commit.
StealsOnlyOldLocks ==
  [][\A t \in Threads : (Commit(t) /\ row.exists) => StealAllowed(opt[t], row.age)]_vars

\* A thread joins another inside the locked code only if it was allowed to
\* ignore that other's lock: "existing locks on this function which are older
\* than this value will be ignored" (lock.py:61-62), younger ones are not.
JoinsOnlyIgnoredHolders ==
  [][\A t \in Threads :
       Commit(t) => \A s \in Running : StealAllowed(opt[t], stamp[s])]_vars

\* A caller that gave max_wait_ms, or wait=False, gets an answer or dies.
BoundedWaitersReturn ==
  \A t \in Threads :
    (pc[t] \in Acquiring /\ (~opt[t].wait \/ opt[t].maxWait # NoLimit))
      ~> pc[t] \notin Acquiring

\* The lock of a killed thread does not block others for ever: it is taken
\* over, or the cleanup task removes it (views.py:33-43).
OrphansReaped == (row.exists /\ Running = {}) ~> (~row.exists \/ Running # {})

\* The lock implements the service it is documented to be.
Service == INSTANCE MutexService
             WITH holders <- Running, orphaned <- row.exists /\ Running = {}
ImplementsMutex == Service!Spec
=============================================================================
