------------------------ MODULE DatastoreLock_proofs ------------------------
(***************************************************************************)
(* Proofs, for every set of threads, cleanup tasks and acquire() arguments *)
(* and every choice of the limits, that the STRONG lock excludes and that  *)
(* it implements MutexService under the two conditions Timely and          *)
(* NoReapRace.                                                             *)
(***************************************************************************)
EXTENDS DatastoreLock, TLAPS

\* Ages stay in their range when time passes.
LEMMA OlderType == \A a \in Ages : Older(a) \in Ages /\ Older(a) > 0
<1>1. MaxAge \in Nat /\ MaxAge > 0
  BY AgesAssumption
<1> QED
  BY <1>1 DEF Older, Ages

\* The variables have their types before the first call (models.py:71-80).
LEMMA InitTypeOK == Init => TypeOK
<1> SUFFICES ASSUME Init PROVE TypeOK
  OBVIOUS
<1>1. (CHOOSE o \in Options : TRUE) \in Options
  BY OptionsAssumption
<1>2. MaxAge \in Nat
  BY AgesAssumption
<1> QED
  BY <1>1, <1>2 DEF Init, TypeOK, Absent, Ages, PCs

\* No step of a caller, of the cleanup task or of the clock changes a type.
LEMMA NextTypeOK == TypeOK /\ [Next]_vars => TypeOK'
<1> SUFFICES ASSUME TypeOK, [Next]_vars PROVE TypeOK'
  OBVIOUS
<1> USE DEF TypeOK, PCs, Goto
<1>0. 0 \in Ages /\ Absent \in [exists : BOOLEAN, age : Ages]
  BY AgesAssumption DEF Ages, Absent
<1>1. ASSUME NEW t \in Threads, NEW o \in Options, Acquire(t, o) PROVE TypeOK'
  BY <1>0, <1>1 DEF Acquire
<1>2. ASSUME NEW t \in Threads, StageWrite(t) PROVE TypeOK'
  BY <1>0, <1>2 DEF StageWrite
<1>3. ASSUME NEW t \in Threads, FindHeld(t) PROVE TypeOK'
  BY <1>3 DEF FindHeld
<1>4. ASSUME NEW t \in Threads, Commit(t) PROVE TypeOK'
  <2>1. row' \in [exists : BOOLEAN, age : Ages]
    BY <1>4 DEF Commit, Stamped
  <2>2. conflicted' \subseteq {s \in Threads : pc'[s] = "commit"}
    BY <1>4 DEF Commit, Touched
  <2> QED
    BY <1>0, <1>4, <2>1, <2>2 DEF Commit
<1>5. ASSUME NEW t \in Threads, CommitFails(t) PROVE TypeOK'
  BY <1>0, <1>5 DEF CommitFails
<1>6. ASSUME NEW t \in Threads, Retry(t) PROVE TypeOK'
  BY <1>6 DEF Retry
<1>7. ASSUME NEW t \in Threads, GiveUp(t) PROVE TypeOK'
  BY <1>0, <1>7 DEF GiveUp
<1>8. ASSUME NEW t \in Threads, Release(t) PROVE TypeOK'
  BY <1>0, <1>8 DEF Release, Touched
<1>9. ASSUME NEW t \in Threads, Crash(t) PROVE TypeOK'
  BY <1>0, <1>9 DEF Crash
<1>10. ASSUME NEW c \in Cleaners, CleanupSelect(c) PROVE TypeOK'
  BY <1>10 DEF CleanupSelect
<1>11. ASSUME NEW c \in Cleaners, CleanupDelete(c) PROVE TypeOK'
  BY <1>0, <1>11 DEF CleanupDelete
<1>12. CASE Tick
  <2>1. row' \in [exists : BOOLEAN, age : Ages]
    BY <1>12, OlderType DEF Tick, Stamped
  <2>2. waited' \in [Threads -> Ages] /\ stamp' \in [Threads -> Ages]
    BY <1>12, OlderType DEF Tick
  <2> QED
    BY <1>12, <2>1, <2>2 DEF Tick
<1>13. CASE UNCHANGED vars
  BY <1>13 DEF vars
<1> QED
  BY <1>1, <1>2, <1>3, <1>4, <1>5, <1>6, <1>7, <1>8, <1>9, <1>10, <1>11,
     <1>12, <1>13 DEF Next, Step

\* Every variable keeps its type (models.py:16-86), with no condition on the
\* limits.
THEOREM TypeCorrect == Spec => []TypeOK
BY InitTypeOK, NextTypeOK, PTL DEF Spec

-----------------------------------------------------------------------------
\* Two ages that are equal stay equal, and a hold that may still grow stays
\* within MaxHold: the arithmetic behind Tick.
LEMMA OlderBounds ==
  /\ \A a \in Ages : a < MaxHold => Older(a) <= MaxHold
  /\ \A a \in Ages, o \in Options : StealAllowed(o, a) => StealAllowed(o, Older(a))
<1>1. MaxAge \in Nat /\ MaxHold \in Nat /\ \A o \in Options : o.steal \in Nat
  BY AgesAssumption, OptionsAssumption
<1> QED
  BY <1>1 DEF Older, Ages, StealAllowed

\* An open transaction that would pass the Datastore's check keeps its right to
\* write, however long sections take and whoever is killed or cleaned up after:
\* every change of the entity makes it conflict, and a lock only grows older
\* (models.py:37-56).
LEMMA NextPendingWriteLegal ==
  TypeOK /\ PendingWriteLegal /\ [Next]_vars => PendingWriteLegal'
<1> SUFFICES ASSUME TypeOK, PendingWriteLegal, [Next]_vars PROVE PendingWriteLegal'
  OBVIOUS
<1>T. MaxHold \in Nat /\ 0 \in Ages
  BY AgesAssumption DEF Ages
\* Steps of a thread that neither change the entity nor open a write.
<1>1. ASSUME NEW t \in Threads, row' = row, pc'[t] # "commit",
             pc' = [pc EXCEPT ![t] = pc'[t]],
             \A s \in Threads \ {t} : opt'[s] = opt[s] /\ stamp'[s] = stamp[s],
             conflicted \ {t} \subseteq conflicted'
      PROVE  PendingWriteLegal'
  BY <1>1 DEF PendingWriteLegal, TypeOK
<1>2. ASSUME NEW t \in Threads, NEW o \in Options, Acquire(t, o)
      PROVE  PendingWriteLegal'
  BY <1>1, <1>2 DEF Acquire, Goto, TypeOK
<1>3. ASSUME NEW t \in Threads, StageWrite(t) PROVE PendingWriteLegal'
  BY <1>3, <1>T DEF PendingWriteLegal, TypeOK, StageWrite, Goto
<1>4. ASSUME NEW t \in Threads,
             FindHeld(t) \/ Retry(t) \/ GiveUp(t) \/ CommitFails(t) \/ Crash(t)
      PROVE  PendingWriteLegal'
  BY <1>1, <1>4 DEF FindHeld, Retry, GiveUp, CommitFails, Crash, Goto, TypeOK
<1>5. ASSUME NEW t \in Threads, Commit(t) \/ Release(t) PROVE PendingWriteLegal'
  BY <1>5 DEF Commit, Release, Goto, Touched, PendingWriteLegal, TypeOK
<1>6. ASSUME NEW c \in Cleaners, CleanupSelect(c) PROVE PendingWriteLegal'
  BY <1>6 DEF CleanupSelect, PendingWriteLegal
<1>7. ASSUME NEW c \in Cleaners, CleanupDelete(c) PROVE PendingWriteLegal'
  BY <1>7 DEF CleanupDelete, PendingWriteLegal
<1>8. CASE Tick
  <2> SUFFICES ASSUME NEW t \in Threads \ conflicted', pc'[t] = "commit"
               PROVE  /\ ~row'.exists \/ StealAllowed(opt'[t], row'.age)
                      /\ stamp'[t] <= MaxHold
    BY DEF PendingWriteLegal
  <2>1. pc[t] = "commit" /\ t \notin conflicted /\ opt' = opt /\ opt[t] \in Options
    BY <1>8 DEF Tick, TypeOK
  <2>2. stamp'[t] <= MaxHold
    BY <1>8, <2>1, OlderBounds DEF Tick, TypeOK
  <2>3. CASE row.exists
    <3>1. StealAllowed(opt[t], row.age) /\ row.age \in Ages
      BY <2>1, <2>3 DEF PendingWriteLegal, TypeOK
    <3>2. row'.age = Older(row.age)
      BY <1>8, <2>3 DEF Tick, Stamped
    <3> QED
      BY <2>1, <2>2, <3>1, <3>2, OlderBounds
  <2>4. CASE ~row.exists
    BY <1>8, <2>2, <2>4 DEF Tick
  <2> QED
    BY <2>3, <2>4
<1>9. CASE UNCHANGED vars
  BY <1>9 DEF vars, PendingWriteLegal
<1> QED
  BY <1>2, <1>3, <1>4, <1>5, <1>6, <1>7, <1>8, <1>9 DEF Next, Step

\* However long sections take, and however many threads are killed or cleaned up
\* after: a lock that exists changes hands only when it is older than the thief's
\* steal_after_ms at the moment of the commit (models.py:42-49).
THEOREM StealsAreLegal == Spec => StealsOnlyOldLocks
<1>1. Init => PendingWriteLegal
  BY DEF Init, PendingWriteLegal
<1>2. TypeOK /\ PendingWriteLegal /\ [Next]_vars =>
        [\A t \in Threads : (Commit(t) /\ row.exists) => StealAllowed(opt[t], row.age)]_vars
  BY DEF PendingWriteLegal, Commit
<1> QED
  BY <1>1, <1>2, InitTypeOK, NextTypeOK, NextPendingWriteLegal, PTL
  DEF Spec, StealsOnlyOldLocks

-----------------------------------------------------------------------------
\* While a thread that keeps the bargain is inside, no transaction that passes
\* the Datastore's check can be writing: it would have had to find the lock
\* absent, or older than a section may take (models.py:39-49).
LEMMA NoCommitWhileRunning ==
  ASSUME Timely, IInv, NEW s \in Running, NEW t \in Threads, Commit(t)
  PROVE  FALSE
<1>1. row.exists /\ row.age = stamp[s] /\ stamp[s] <= MaxHold
  BY DEF IInv, HolderOwnsRow, Stamped
<1>2. StealAllowed(opt[t], row.age)
  BY <1>1 DEF IInv, PendingWriteLegal, Commit
<1>3. opt[t] \in Options /\ opt[t].steal \in Nat /\ MaxHold \in Nat /\ row.age \in Nat
  BY AgesAssumption, OptionsAssumption DEF IInv, TypeOK, Ages
<1>4. MaxHold <= opt[t].steal
  BY <1>2, <1>3 DEF Timely, StealAllowed
<1> QED
  BY <1>1, <1>2, <1>3, <1>4 DEF StealAllowed

\* Nor can the cleanup task touch the lock of a running thread: with kills
\* there is no such task, and without them it finds no lock old enough.
LEMMA NoReapWhileTimely ==
  ASSUME Timely, NoReapRace, IInv, NEW c \in Cleaners
  PROVE  /\ CleanupSelect(c) => Crashable # {}
         /\ ~CleanupDelete(c)
<1>1. ASSUME CleanupSelect(c), Crashable = {} PROVE FALSE
  <2>1. PICK s \in Running : TRUE
    BY <1>1 DEF CleanupSelect, IInv, NothingToReap
  <2>2. row.age <= MaxHold /\ row.age > CleanupAge
    BY <1>1, <2>1 DEF IInv, HolderOwnsRow, Stamped, CleanupSelect, Expired
  <2>3. row.age \in Int /\ MaxHold \in Int /\ CleanupAge \in Int
    BY AgesAssumption DEF IInv, TypeOK, Ages
  <2> QED
    BY <2>2, <2>3 DEF Timely
<1>2. ~CleanupDelete(c)
  BY DEF NoReapRace, IInv, NothingToReap, CleanupDelete
<1> QED
  BY <1>1, <1>2

\* Before the first call nobody holds, writes or cleans up.
LEMMA InitIInv == Init => IInv
<1> SUFFICES ASSUME Init PROVE IInv
  OBVIOUS
<1>1. TypeOK
  BY InitTypeOK
<1>2. Running = {} /\ ~row.exists
  BY DEF Init, Running, Absent
<1>3. PendingWriteLegal
  BY DEF Init, PendingWriteLegal
<1> QED
  BY <1>1, <1>2, <1>3 DEF IInv, MutualExclusion, HolderOwnsRow, NothingToReap, Init

\* Every step keeps the inductive invariant: the case analysis of the whole
\* proof, one step for each action.
LEMMA NextIInv == ASSUME Timely, NoReapRace, IInv, [Next]_vars PROVE IInv'
<1>0. TypeOK' /\ PendingWriteLegal'
  BY NextTypeOK, NextPendingWriteLegal DEF IInv
<1> USE DEF IInv
\* Steps of a thread outside that leave the entity alone.
<1>1. ASSUME NEW t \in Threads,
             row' = row, selected' = selected,
             pc[t] # "running", pc'[t] # "running", pc' = [pc EXCEPT ![t] = pc'[t]],
             \A s \in Threads \ {t} : stamp'[s] = stamp[s]
      PROVE  IInv'
  <2>1. Running' = Running /\ t \notin Running
    BY <1>1 DEF Running, TypeOK
  <2>2. MutualExclusion' /\ HolderOwnsRow' /\ NothingToReap'
    BY <1>1, <2>1 DEF MutualExclusion, HolderOwnsRow, NothingToReap, Running
  <2> QED
    BY <1>0, <2>2
<1>2. ASSUME NEW t \in Threads, NEW o \in Options, Acquire(t, o) PROVE IInv'
  BY <1>1, <1>2 DEF Acquire, Goto, TypeOK
<1>3. ASSUME NEW t \in Threads,
             StageWrite(t) \/ FindHeld(t) \/ Retry(t) \/ GiveUp(t) \/ CommitFails(t)
      PROVE  IInv'
  BY <1>1, <1>3 DEF StageWrite, FindHeld, Retry, GiveUp, CommitFails, Goto, TypeOK
<1>4. ASSUME NEW t \in Threads, Commit(t) PROVE IInv'
  <2>1. Running = {}
    BY <1>4, NoCommitWhileRunning
  <2>2. Running' = {t}
    BY <1>4, <2>1 DEF Commit, Goto, Running, TypeOK
  <2>3. row' = Stamped(stamp'[t]) /\ stamp'[t] <= MaxHold
    BY <1>4 DEF Commit, PendingWriteLegal
  <2>4. NothingToReap'
    BY <1>4, <2>2 DEF NothingToReap, Commit
  <2> QED
    BY <1>0, <2>2, <2>3, <2>4 DEF MutualExclusion, HolderOwnsRow
<1>5. ASSUME NEW t \in Threads, Release(t) PROVE IInv'
  <2>1. Running = {t}
    BY <1>5 DEF Release, Running, MutualExclusion
  <2>2. Running' = {}
    BY <1>5, <2>1 DEF Release, Goto, Running, TypeOK
  <2>3. NothingToReap'
    BY <1>5 DEF NothingToReap, Release, Absent
  <2> QED
    BY <1>0, <2>2, <2>3 DEF MutualExclusion, HolderOwnsRow
<1>6. ASSUME NEW t \in Threads, Crash(t) PROVE IInv'
  <2>1. Running' \subseteq Running /\ Crashable # {}
    BY <1>6 DEF Crash, Goto, Running, TypeOK
  <2>2. \A s \in Running' : row' = row /\ stamp'[s] = stamp[s]
    BY <1>6 DEF Crash, Goto, Running, TypeOK
  <2> QED
    BY <1>0, <2>1, <2>2 DEF MutualExclusion, HolderOwnsRow, NothingToReap
<1>7. ASSUME NEW c \in Cleaners, CleanupSelect(c) PROVE IInv'
  <2>1. Crashable # {}
    BY <1>7, NoReapWhileTimely
  <2> QED
    BY <1>0, <1>7, <2>1
    DEF CleanupSelect, MutualExclusion, HolderOwnsRow, PendingWriteLegal,
        NothingToReap, Running
<1>8. ASSUME NEW c \in Cleaners, CleanupDelete(c) PROVE IInv'
  BY <1>8, NoReapWhileTimely
<1>9. CASE Tick
  <2>1. Running' = Running
    BY <1>9 DEF Tick, Running
  <2>2. ASSUME NEW s \in Running
        PROVE  row' = Stamped(stamp'[s]) /\ stamp'[s] <= MaxHold
    <3>1. s \in Threads /\ pc[s] = "running" /\ row = Stamped(stamp[s])
      BY <2>2 DEF Running, HolderOwnsRow
    <3>2. stamp'[s] = Older(stamp[s]) /\ stamp[s] < MaxHold /\ stamp[s] \in Ages
      BY <1>9, <3>1 DEF Tick, TypeOK
    <3>3. row' = Stamped(Older(stamp[s]))
      BY <1>9, <3>1 DEF Tick, Stamped
    <3> QED
      BY <3>2, <3>3, OlderBounds
  <2>3. NothingToReap'
    BY <1>9, <2>1 DEF Tick, NothingToReap, Stamped
  <2> QED
    BY <1>0, <2>1, <2>2, <2>3 DEF MutualExclusion, HolderOwnsRow
<1>10. CASE UNCHANGED vars
  BY <1>0, <1>10
  DEF vars, MutualExclusion, HolderOwnsRow, PendingWriteLegal, NothingToReap, Running
<1> QED
  BY <1>2, <1>3, <1>4, <1>5, <1>6, <1>7, <1>8, <1>9, <1>10 DEF Next, Step

\* At most one thread is inside the locked code, whatever the number of
\* threads and the limits, when every section ends before anybody may steal or
\* clean up its lock and killed threads are not cleaned up after.
THEOREM InductiveInvariant ==
  ASSUME Timely, NoReapRace PROVE Spec => []IInv
<1>1. IInv /\ [Next]_vars => IInv'
  BY NextIInv
<1> QED
  BY <1>1, InitIInv, PTL DEF Spec

\* What STRONG promises (docs/locking.md:49): at most one thread is inside the
\* locked code, if no section outlasts the age at which others may steal or
\* clean up its lock and killed threads are not cleaned up after.
THEOREM Exclusion ==
  ASSUME Timely, NoReapRace PROVE Spec => []MutualExclusion
<1>1. IInv => MutualExclusion
  BY DEF IInv
<1> QED
  BY <1>1, InductiveInvariant, PTL

-----------------------------------------------------------------------------
\* Each step of the lock is a step of the service, or none of its business.
LEMMA StepIsService ==
  ASSUME Timely, NoReapRace, IInv, IInv', [Next]_vars
  PROVE  [Service!Next]_(Service!vars)
<1> USE DEF IInv
<1> DEFINE Orphaned == row.exists /\ Running = {}
           Stutter == Running' = Running /\ Orphaned' = Orphaned
<1>1. Stutter => UNCHANGED Service!vars
  BY DEF Service!vars
<1>2. ASSUME NEW t \in Threads, pc[t] # "running", pc'[t] # "running", row' = row,
             pc' = [pc EXCEPT ![t] = pc'[t]]
      PROVE  Stutter
  BY <1>2 DEF Running, TypeOK
<1>3. ASSUME NEW t \in Threads, Commit(t) PROVE Service!Take(t)
  <2>1. Running = {}
    BY <1>3, NoCommitWhileRunning
  <2>2. Running' = {t}
    BY <1>3, <2>1 DEF Commit, Goto, Running, TypeOK
  <2> QED
    BY <2>1, <2>2 DEF Service!Take
<1>4. ASSUME NEW t \in Threads, Release(t) PROVE Service!GiveBack(t)
  <2>1. Running = {t}
    BY <1>4 DEF Release, Running, MutualExclusion
  <2>2. Running' = {} /\ ~row'.exists
    BY <1>4, <2>1 DEF Release, Goto, Running, TypeOK, Absent
  <2> QED
    BY <2>1, <2>2 DEF Service!GiveBack
<1>5. ASSUME NEW t \in Threads, Crash(t), pc[t] = "running" PROVE Service!Die(t)
  <2>1. Running = {t} /\ row.exists
    BY <1>5 DEF Running, MutualExclusion, HolderOwnsRow, Stamped
  <2>2. Running' = {} /\ row'.exists
    BY <1>5, <2>1 DEF Crash, Goto, Running, TypeOK
  <2> QED
    BY <2>1, <2>2 DEF Service!Die
<1>6. ASSUME NEW t \in Threads, Crash(t), pc[t] # "running" PROVE Stutter
  BY <1>2, <1>6 DEF Crash, Goto, TypeOK
<1>7. ASSUME NEW t \in Threads, NEW o \in Options, Acquire(t, o) PROVE Stutter
  BY <1>2, <1>7 DEF Acquire, Goto, TypeOK
<1>8. ASSUME NEW t \in Threads,
             StageWrite(t) \/ FindHeld(t) \/ CommitFails(t) \/ Retry(t) \/ GiveUp(t)
      PROVE  Stutter
  BY <1>2, <1>8 DEF StageWrite, FindHeld, CommitFails, Retry, GiveUp, Goto, TypeOK
<1>9. ASSUME NEW c \in Cleaners, CleanupSelect(c) PROVE Stutter
  BY <1>9 DEF CleanupSelect, Running
<1>10. ASSUME NEW c \in Cleaners, CleanupDelete(c) PROVE FALSE
  BY <1>10, NoReapWhileTimely
<1>11. CASE Tick
  BY <1>1, <1>11 DEF Tick, Running, Stamped
<1>12. CASE UNCHANGED vars
  BY <1>1, <1>12 DEF vars, Running
<1> QED
  BY <1>1, <1>3, <1>4, <1>5, <1>6, <1>7, <1>8, <1>9, <1>10, <1>11, <1>12
  DEF Next, Step, Service!Next

\* The STRONG lock is the service that MutexService describes: no step of any
\* thread or cleanup task ever takes a lock away from a thread that runs.
THEOREM Implementation ==
  ASSUME Timely, NoReapRace PROVE Spec => ImplementsMutex
<1>1. Init => Service!Init
  BY DEF Init, Absent, Running, Service!Init
<1>2. IInv /\ IInv' /\ [Next]_vars => [Service!Next]_(Service!vars)
  BY StepIsService
<1> QED
  BY <1>1, <1>2, InductiveInvariant, PTL DEF Spec, ImplementsMutex, Service!Spec
=============================================================================
