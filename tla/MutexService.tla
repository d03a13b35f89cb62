---------------------------- MODULE MutexService ----------------------------
(***************************************************************************)
(* What djangae.contrib.locking promises its users: "only 1 thread can     *)
(* execute it at any given time" (lock.py, LocknessMonster).  A lock is    *)
(* held by at most one thread; a holder gives it back or dies, leaving an  *)
(* orphaned lock that a later caller takes over or the cleanup task        *)
(* removes.  Nothing else changes it: no call ever takes, or removes, the  *)
(* lock of a thread that is still running the locked code.                 *)
(***************************************************************************)
CONSTANT Threads

VARIABLES
  holders,   \* the threads inside the locked code
  orphaned   \* a lock exists although no thread is inside

vars == <<holders, orphaned>>

Init == holders = {} /\ orphaned = FALSE

Take(t) == /\ holders = {}
           /\ holders' = {t}
           /\ orphaned' = FALSE

GiveBack(t) == /\ holders = {t}
               /\ holders' = {}
               /\ orphaned' = FALSE

Die(t) == /\ holders = {t}
          /\ holders' = {}
          /\ orphaned' = TRUE

Reap == /\ orphaned
        /\ orphaned' = FALSE
        /\ UNCHANGED holders

Next == Reap \/ \E t \in Threads : Take(t) \/ GiveBack(t) \/ Die(t)

Spec == Init /\ [][Next]_vars
=============================================================================
