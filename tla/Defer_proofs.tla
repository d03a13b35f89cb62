---------------------------- MODULE Defer_proofs ----------------------------
(***************************************************************************)
(* Proofs about Defer: for every set of calls and any number of faults,    *)
(* nothing is queued or run for a transaction that has not been committed, *)
(* and a call that nothing has disturbed leaves no DeferredTask entity.    *)
(***************************************************************************)
EXTENDS Defer, TLAPS

USE DEF NoFault, Fault, Goto

\* The control points at which defer() is past its on_commit hook.
Scheduling == {"create", "submit", "resubmit", "drop", "cleanup", "done", "raised"}

\* Unless the caller has asked for _transactional=False, defer() is past its hook,
\* and a task exists or runs, only for a committed transaction; and there is
\* none open when defer() is called outside an atomic block.
HookInv ==
  call.arg # "false" =>
    /\ pc = "call" => call.atomic \/ txn = "committed"
    /\ pc \in Scheduling => txn = "committed"
    /\ queued \/ ran \/ worker # "idle" => txn = "committed"

\* Without a fault the entity of a call that fits is stored only while its
\* creation or its submission is the last thing that was done.
EntityInv == Undisturbed /\ ~call.large /\ entity => pc \in {"submit", "drop"}

IInv == TypeOK /\ HookInv /\ EntityInv
-----------------------------------------------------------------------------
\* Calls may be made (deferred.py:252-296).
LEMMA InitIInv == Init => IInv
<1> SUFFICES ASSUME Init PROVE IInv
    OBVIOUS
<1> USE CallsAssumption, FaultsAssumption
<1>1. call \in CallRecords /\ call.atomic \in BOOLEAN
      BY DEF Init, CallRecords
<1>2. TypeOK
  <2>1. txn \in {"open", "committed", "aborted"}
        BY <1>1 DEF Init
  <2>2. faults \in 0..MaxFaults
        BY DEF Init
  <2> QED
      BY <2>1, <2>2 DEF Init, TypeOK
<1>3. HookInv
      BY <1>1 DEF Init, HookInv, Scheduling
<1>4. EntityInv
      BY DEF Init, EntityInv
<1> QED
    BY <1>2, <1>3, <1>4 DEF IInv

\* A fault uses up one of those that may happen.
LEMMA FaultDisturbs ==
  ASSUME TypeOK, faults > 0, faults' = faults - 1
  PROVE  faults' \in 0..MaxFaults /\ faults' # MaxFaults
BY FaultsAssumption DEF TypeOK

\* Every step of the caller, the handler and what goes wrong keeps the types.
LEMMA NextTypeOK == ASSUME TypeOK, [Next]_vars PROVE TypeOK'
<1> USE CallsAssumption, FaultsAssumption
<1> USE DEF TypeOK
<1>0. faults > 0 /\ faults' = faults - 1 => faults' \in 0..MaxFaults
      BY FaultDisturbs
<1>1. CASE CallDefer \/ Commit \/ Rollback \/ CallerCrash
      BY <1>0, <1>1 DEF CallDefer, Commit, Rollback, CallerCrash
<1>2. CASE Schedule
  <2>1. CASE CreateEntity
    <3>1. call.small \in BOOLEAN
          BY DEF CallRecords
    <3> QED
        BY <1>0, <2>1, <3>1 DEF CreateEntity
  <2>2. CASE Submit
    <3>1. call.large \in BOOLEAN
          BY DEF CallRecords
    <3> QED
        BY <1>0, <2>2, <3>1 DEF Submit
  <2>3. CASE Resubmit \/ DropEntity \/ Cleanup
        BY <1>0, <2>3 DEF Resubmit, DropEntity, Cleanup
  <2> QED
      BY <1>2, <2>1, <2>2, <2>3 DEF Schedule
<1>3. CASE Handle \/ RaisesPermanent \/ RaisesOther \/ WorkerCrash
      BY <1>0, <1>3 DEF Handle, Deliver, Returns, AnswerOK, RaisesPermanent,
                           RaisesOther, WorkerCrash
<1>4. CASE UNCHANGED vars
      BY <1>4 DEF vars
<1> QED
    BY <1>1, <1>2, <1>3, <1>4 DEF Next

\* The hook runs at the commit or, outside an atomic block, at once; a rollback
\* and the death of the caller forget it (deferred.py:292-338).
LEMMA NextHookInv == ASSUME TypeOK, HookInv, [Next]_vars PROVE HookInv'
<1> USE DEF TypeOK, HookInv, Scheduling
<1>1. CASE CallDefer
  <2>1. call \in CallRecords
        BY CallsAssumption
  <2>2. call.arg # "false" /\ call.atomic => Transactional(call)
        BY <2>1 DEF Transactional, CallRecords
  <2> QED
      BY <1>1, <2>2 DEF CallDefer
<1>2. CASE Commit
      BY <1>2 DEF Commit
<1>3. CASE Rollback
      BY <1>3 DEF Rollback
<1>4. CASE CallerCrash
      BY <1>4 DEF CallerCrash
<1>5. CASE Schedule
      BY <1>5 DEF Schedule, CreateEntity, Submit, Resubmit, DropEntity, Cleanup
<1>6. CASE Handle \/ RaisesPermanent \/ RaisesOther \/ WorkerCrash
      BY <1>6 DEF Handle, Deliver, Returns, AnswerOK, RaisesPermanent,
                           RaisesOther, WorkerCrash
<1>7. CASE UNCHANGED vars
      BY <1>7 DEF vars
<1> QED
    BY <1>1, <1>2, <1>3, <1>4, <1>5, <1>6, <1>7 DEF Next

\* Creation, inline submission, deletion: each way on without a fault keeps track
\* of the entity (deferred.py:192-249).
LEMMA NextEntityInv == ASSUME TypeOK, EntityInv, [Next]_vars PROVE EntityInv'
<1> USE DEF EntityInv, Undisturbed
<1>0. faults > 0 /\ faults' = faults - 1 => faults' # MaxFaults
      BY FaultDisturbs
<1>1. CASE CallDefer \/ Commit \/ Rollback \/ CallerCrash
      BY <1>0, <1>1 DEF CallDefer, Commit, Rollback, CallerCrash
<1>2. CASE Schedule
      BY <1>0, <1>2 DEF Schedule, CreateEntity, Submit, Resubmit, DropEntity, Cleanup
<1>3. CASE Handle \/ RaisesPermanent \/ RaisesOther \/ WorkerCrash
      BY <1>0, <1>3 DEF Handle, Deliver, Returns, AnswerOK, RaisesPermanent,
                           RaisesOther, WorkerCrash
<1>4. CASE UNCHANGED vars
      BY <1>4 DEF vars
<1> QED
    BY <1>1, <1>2, <1>3, <1>4 DEF Next

\* Defer keeps its invariant.
THEOREM IInvHolds == Spec => []IInv
<1>1. IInv /\ [Next]_vars => IInv'
      BY NextTypeOK, NextHookInv, NextEntityInv DEF IInv
<1> QED
    BY InitIInv, <1>1, PTL DEF Spec

\* Nothing is queued or run for a transaction that has not been committed, unless
\* the caller has asked for it (deferred.py:292-338).
THEOREM QueuedAfterCommit == Spec => []QueuedOnlyAfterCommit
<1>1. IInv => QueuedOnlyAfterCommit
      BY DEF IInv, HookInv, QueuedOnlyAfterCommit
<1> QED
    BY IInvHolds, <1>1, PTL

\* A call that fits and that nothing has disturbed leaves no entity behind
\* (deferred.py:230-232).
THEOREM EntityDeleted == Spec => []NoEntityLeft
<1>1. IInv => NoEntityLeft
      BY DEF IInv, EntityInv, NoEntityLeft, Finished
<1> QED
    BY IInvHolds, <1>1, PTL
=============================================================================
