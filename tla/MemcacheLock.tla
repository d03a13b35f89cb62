---------------------------- MODULE MemcacheLock ----------------------------
(***************************************************************************)
(* The WEAK lock of contrib/locking/memcache.py for one identifier: a      *)
(* cache entry that holds a number drawn by its owner.  acquire() adds the *)
(* entry, or overwrites it once the caller has itself waited longer than   *)
(* steal_after_ms; release() reads the entry and, if it still holds the    *)
(* owner's number, deletes it: two calls to the cache.                     *)
(*                                                                         *)
(* A waiting time is an age that saturates at MaxWait, as in DatastoreLock *)
(* and goes back to 0 when the call that kept it has the lock.             *)
(***************************************************************************)
EXTENDS Integers

CONSTANTS
  Threads,
  Values,    \* what random.randint(1, 100000) draws from
  Empty,     \* no entry, which is no value
  Options,   \* argument records [wait : BOOLEAN, steal : 0..(MaxWait - 1)]; steal = 0
             \* is None or 0
  MaxWait    \* where waiting times saturate

ASSUME WeakAssumption ==
  Values # {} /\ Options # {} /\ Empty \notin Values /\ MaxWait \in Nat

VARIABLES
  cache,    \* the entry
  weakAt,   \* where each thread is
  opt,      \* the arguments of its acquire()
  waited,   \* utcnow() - start_time of its acquire()
  value,    \* its unique_value
  disturbed \* observer: somebody has stolen from threads that were inside, and
            \* there has been no moment since when nobody was

weakVars == <<cache, weakAt, opt, waited, value, disturbed>>

\* "add": at the top of the loop; "wait": add() returned false;
\* "running": holds the lock; "delete": between the get and the delete.
PCs == {"idle", "add", "wait", "running", "delete"}
MovesTo(t, from, to) == weakAt[t] = from /\ weakAt' = [weakAt EXCEPT ![t] = to]

Holders == {t \in Threads : weakAt[t] \in {"running", "delete"}}
Leave(t, from) == MovesTo(t, from, "idle") /\ disturbed' = (disturbed /\ Holders # {t})

WeakInit ==
  /\ cache = Empty
  /\ weakAt = [t \in Threads |-> "idle"]
  /\ opt = [t \in Threads |-> CHOOSE o \in Options : TRUE]
  /\ waited = [t \in Threads |-> 0]
  /\ value = [t \in Threads |-> CHOOSE v \in Values : TRUE]
  /\ disturbed = FALSE

Acquire(t, o, v) ==
  /\ MovesTo(t, "idle", "add")
  /\ opt' = [opt EXCEPT ![t] = o]
  /\ value' = [value EXCEPT ![t] = v]
  /\ waited' = [waited EXCEPT ![t] = 0]
  /\ UNCHANGED <<cache, disturbed>>

\* cache.add() succeeds: the entry did not exist.
Add(t) ==
  /\ cache = Empty
  /\ MovesTo(t, "add", "running")
  /\ cache' = value[t]
  /\ waited' = [waited EXCEPT ![t] = 0]
  /\ UNCHANGED <<opt, value, disturbed>>

\* Mutated form of Refuse: the refused caller releases "its" lock.
RefuseAndDelete(t) ==
  /\ cache # Empty /\ ~opt[t].wait
  /\ MovesTo(t, "add", "delete")
  /\ UNCHANGED <<cache, opt, waited, value, disturbed>>
\* cache.add() fails and the caller does not wait: None.
Refuse(t) ==
  /\ cache # Empty /\ ~opt[t].wait
  /\ MovesTo(t, "add", "idle")
  /\ UNCHANGED <<cache, opt, waited, value, disturbed>>

\* cache.add() fails and the caller waits.
AddFails(t) ==
  /\ cache # Empty /\ opt[t].wait
  /\ MovesTo(t, "add", "wait")
  /\ UNCHANGED <<cache, opt, waited, value, disturbed>>

StealDue(t) == opt[t].steal > 0 /\ waited[t] > opt[t].steal

\* Mutated form of Steal: the number stored is not the one release() compares.
StealFreshNumber(t) ==
  /\ StealDue(t)
  /\ MovesTo(t, "wait", "running")
  /\ cache' \in Values
  /\ waited' = [waited EXCEPT ![t] = 0]
  /\ disturbed' = (disturbed \/ Holders # {})
  /\ UNCHANGED <<opt, value>>
\* "Steal anyway": cache.set(), whatever the entry has become since add().
Steal(t) ==
  /\ StealDue(t)
  /\ MovesTo(t, "wait", "running")
  /\ cache' = value[t]
  /\ waited' = [waited EXCEPT ![t] = 0]
  /\ disturbed' = (disturbed \/ Holders # {})
  /\ UNCHANGED <<opt, value>>

\* Mutated form of Again: the waiting time starts anew with each attempt.
AgainFromZero(t) ==
  /\ ~StealDue(t)
  /\ MovesTo(t, "wait", "add")
  /\ waited' = [waited EXCEPT ![t] = 0]
  /\ UNCHANGED <<cache, opt, value, disturbed>>
\* time.sleep(0), and the loop again.
Again(t) ==
  /\ ~StealDue(t)
  /\ MovesTo(t, "wait", "add")
  /\ UNCHANGED <<cache, opt, waited, value, disturbed>>

\* release(), its get: the entry is deleted only if it holds our number.
Compare(t) ==
  /\ \/ cache = value[t] /\ MovesTo(t, "running", "delete") /\ UNCHANGED disturbed
     \/ cache # value[t] /\ Leave(t, "running")
  /\ UNCHANGED <<cache, opt, waited, value>>

\* release(), its delete, whatever the entry has become since the get.
Delete(t) ==
  /\ Leave(t, "delete")
  /\ cache' = Empty
  /\ UNCHANGED <<opt, waited, value>>

Tick ==
  /\ waited' = [t \in Threads |->
                  IF weakAt[t] \in {"add", "wait"} /\ opt[t].steal > 0 /\ waited[t] < MaxWait
                  THEN waited[t] + 1 ELSE waited[t]]
  /\ UNCHANGED <<cache, weakAt, opt, value, disturbed>>

Step(t) == \/ Add(t) \/ Refuse(t) \/ AddFails(t) \/ Steal(t) \/ Again(t)
           \/ Compare(t) \/ Delete(t)

WeakNext == \/ \E t \in Threads : \/ \E o \in Options, v \in Values : Acquire(t, o, v)
                                  \/ Step(t)
            \/ Tick

WeakSpec == WeakInit /\ [][WeakNext]_weakVars
WeakFairSpec ==
  WeakSpec /\ WF_weakVars(Tick) /\ \A t \in Threads : WF_weakVars(Step(t))

-----------------------------------------------------------------------------
WeakTypeOK ==
  /\ cache \in Values \cup {Empty}
  /\ weakAt \in [Threads -> PCs]
  /\ opt \in [Threads -> Options]
  /\ waited \in [Threads -> 0..MaxWait]
  /\ value \in [Threads -> Values]
  /\ disturbed \in BOOLEAN

\* Before anybody steals, and again as soon as everybody who was inside then
\* has left, the weak lock excludes and its holder finds its own number in the
\* cache (memcache.py:33-52), even if two threads draw the same number: the
\* harm a steal does ends by itself.
ExcludesUnlessStolen ==
  WeakTypeOK /\ (~disturbed => \A s, t \in Holders : s = t /\ cache = value[t])

\* Whatever is stolen, raced for or drawn twice, a lock is not left behind:
\* when nobody is inside there is no entry, so the next caller gets in
\* (memcache.py:47-52).
NothingLeftBehind == Holders = {} => cache = Empty

\* A waiting caller with steal_after_ms gets in, however the others keep
\* taking the lock before it (memcache.py:40-43).
ThievesGetIn ==
  \A t \in Threads :
    (weakAt[t] \in {"add", "wait"} /\ opt[t].wait /\ opt[t].steal > 0) ~> weakAt[t] = "running"
=============================================================================
