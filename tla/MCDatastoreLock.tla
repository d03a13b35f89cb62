--------------------------- MODULE MCDatastoreLock ---------------------------
(***************************************************************************)
(* Instances of DatastoreLock for TLC.                                     *)
(***************************************************************************)
EXTENDS DatastoreLock, TLC

CONSTANTS t1, t2, t3, c1

TwoThreads == {t1, t2}
ThreeThreads == {t1, t2, t3}
NoThreads == {}
OneCleaner == {c1}
NoCleaners == {}

\* A patient caller, one that steals after two ticks, one that does not wait,
\* and one that waits for a tick at most.
Patient == [wait |-> TRUE, steal |-> 0, maxWait |-> NoLimit]
Thief == [wait |-> TRUE, steal |-> 2, maxWait |-> NoLimit]
Hasty == [wait |-> FALSE, steal |-> 0, maxWait |-> NoLimit]
Limited == [wait |-> TRUE, steal |-> 2, maxWait |-> 1]
AllOptions == {Patient, Thief, Hasty, Limited}
StealOptions == {Patient, Thief}

ThreadSymmetry == Permutations(Threads)
=============================================================================
