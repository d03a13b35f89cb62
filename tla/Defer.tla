-------------------------------- MODULE Defer --------------------------------
(***************************************************************************)
(* One call of defer() of tasks/deferred.py, made inside or outside a      *)
(* transaction of the caller: the on_commit hook, _schedule_task with its  *)
(* DeferredTask entity, and the deferred_handler of tasks/handlers.py that *)
(* runs the function when Cloud Tasks delivers the task.                   *)
(*                                                                         *)
(* FaultKinds, at most MaxFaults of them in a behaviour:                   *)
(*   "crash"    the process that calls, or the worker, dies;               *)
(*   "rejected" create_task raises InvalidArgument, not about the size;    *)
(*   "error"    create_task raises another error, the task queued or not;  *)
(*   "entity"   creating or deleting the DeferredTask entity raises.       *)
(***************************************************************************)
EXTENDS Integers

CONSTANTS
  Calls,      \* records [large, small, arg, atomic]: is the pickled call too
              \* large for Cloud Tasks, _small_task, _transactional ("none",
              \* "true" or "false"), is the caller in an atomic block
  Permanent,  \* may the function raise PermanentTaskFailure?
  FaultKinds, MaxFaults

CallRecords == [large : BOOLEAN, small : BOOLEAN,
                arg : {"none", "true", "false"}, atomic : BOOLEAN]
ASSUME CallsAssumption == Calls \subseteq CallRecords /\ Calls # {}
ASSUME FaultsAssumption == MaxFaults \in Nat /\ Permanent \in BOOLEAN

VARIABLES
  call,     \* the call
  pc,       \* where defer() and _schedule_task are
  txn,      \* the caller's transaction
  entity,   \* the DeferredTask entity is stored
  queued,   \* Cloud Tasks has the task, and no answer of success for it
  worker,   \* the handler that runs it
  ran,      \* the function has returned at least once
  faults    \* faults that may still happen

vars == <<call, pc, txn, entity, queued, worker, ran, faults>>

\* Mutated form of Transactional: the atomic block is not looked at.
TransactionalIfAsked(c) == c.arg = "true"
Transactional(c) == IF c.arg = "none" THEN c.atomic ELSE c.arg = "true"

Init ==
  /\ call \in Calls
  /\ pc = "call"
  /\ txn = IF call.atomic THEN "open" ELSE "committed"
  /\ entity = FALSE /\ queued = FALSE /\ worker = "idle" /\ ran = FALSE
  /\ faults = MaxFaults

Fault(kind) == kind \in FaultKinds /\ faults > 0 /\ faults' = faults - 1
NoFault == UNCHANGED faults
Goto(from, to) == pc = from /\ pc' = to

\* connection.on_commit(...) runs its hook at once outside an atomic block.
CallDefer ==
  /\ Goto("call", IF Transactional(call) /\ call.atomic THEN "hooked" ELSE "create")
  /\ NoFault /\ UNCHANGED <<call, txn, entity, queued, worker, ran>>

\* The caller's block ends, after defer() has returned or raised.
Commit ==
  /\ txn = "open" /\ pc \in {"hooked", "done", "raised"}
  /\ txn' = "committed"
  /\ pc' = IF pc = "hooked" THEN "create" ELSE pc
  /\ NoFault /\ UNCHANGED <<call, entity, queued, worker, ran>>

\* A rollback forgets the hook, and an entity written inside the block.
Rollback ==
  /\ txn = "open" /\ pc \in {"hooked", "done", "raised"}
  /\ txn' = "aborted"
  /\ pc' = IF pc = "hooked" THEN "forgotten" ELSE pc
  /\ entity' = FALSE
  /\ NoFault /\ UNCHANGED <<call, queued, worker, ran>>

-----------------------------------------------------------------------------
\* _schedule_task

CreateEntity ==
  /\ \/ entity' = ~call.small /\ Goto("create", "submit") /\ NoFault
     \/ ~call.small /\ Goto("create", "raised") /\ Fault("entity") /\ UNCHANGED entity
  /\ UNCHANGED <<call, txn, queued, worker, ran>>

\* create_task(): accepted; "Task size too large"; InvalidArgument of another
\* kind, which is raised as it is; any other error.
Submit ==
  /\ \/ /\ ~call.large
        /\ Goto("submit", "drop") /\ queued' = TRUE /\ NoFault
     \/ /\ call.large
        /\ Goto("submit", IF call.small THEN "raised" ELSE "resubmit")
        /\ NoFault /\ UNCHANGED queued
     \/ Goto("submit", "raised") /\ Fault("rejected") /\ UNCHANGED queued
     \/ /\ Goto("submit", "cleanup") /\ Fault("error")
        /\ queued' \in {FALSE, ~call.large}
  /\ UNCHANGED <<call, txn, entity, worker, ran>>

\* The small body that names the entity is stored under task["body"], which is
\* no field of a task; the request that is sent again carries the body that was
\* too large, and its error leaves the except clause.
Resubmit ==
  /\ Goto("resubmit", "raised")
  /\ NoFault /\ UNCHANGED <<call, txn, entity, queued, worker, ran>>

\* Mutated form of DropEntity: the entity is kept.
KeepEntity ==
  /\ Goto("drop", "done")
  /\ NoFault /\ UNCHANGED <<call, txn, entity, queued, worker, ran>>
\* "Delete the key as it wasn't needed"; an error ends in the bare except.
DropEntity ==
  /\ \/ Goto("drop", "done") /\ entity' = FALSE /\ NoFault
     \/ entity /\ Goto("drop", "cleanup") /\ Fault("entity") /\ UNCHANGED entity
  /\ UNCHANGED <<call, txn, queued, worker, ran>>

\* "Any other exception? Delete the key", and raise.
Cleanup ==
  /\ Goto("cleanup", "raised")
  /\ \/ entity' = FALSE /\ NoFault
     \/ entity /\ Fault("entity") /\ UNCHANGED entity
  /\ UNCHANGED <<call, txn, queued, worker, ran>>

CallerCrash ==
  /\ pc \notin {"done", "raised", "forgotten", "dead"}
  /\ pc' = "dead"
  /\ txn' = IF txn = "open" THEN "aborted" ELSE txn
  /\ entity' = (entity /\ txn # "open")
  /\ Fault("crash") /\ UNCHANGED <<call, queued, worker, ran>>

-----------------------------------------------------------------------------
\* deferred_handler

Deliver ==
  /\ queued /\ worker = "idle"
  /\ worker' = "running"
  /\ NoFault /\ UNCHANGED <<call, pc, txn, entity, queued, ran>>

Returns ==
  /\ worker = "running"
  /\ worker' = "reply" /\ ran' = TRUE
  /\ NoFault /\ UNCHANGED <<call, pc, txn, entity, queued>>

\* PermanentTaskFailure is logged, and the answer is 200 "OK".
RaisesPermanent ==
  /\ Permanent /\ worker = "running"
  /\ worker' = "replyPermanent"
  /\ NoFault /\ UNCHANGED <<call, pc, txn, entity, queued, ran>>

\* Mutated form of RaisesOther: the error is answered like a success.
RaisesOtherAnsweredOK ==
  /\ worker = "running"
  /\ worker' = "reply"
  /\ NoFault /\ UNCHANGED <<call, pc, txn, entity, queued, ran>>
\* SingularTaskFailure is answered 408, any other exception 500.
RaisesOther ==
  /\ worker = "running"
  /\ worker' = "idle"
  /\ NoFault /\ UNCHANGED <<call, pc, txn, entity, queued, ran>>

AnswerOK ==
  /\ worker \in {"reply", "replyPermanent"}
  /\ worker' = "idle" /\ queued' = FALSE
  /\ NoFault /\ UNCHANGED <<call, pc, txn, entity, ran>>

WorkerCrash ==
  /\ worker # "idle"
  /\ worker' = "idle"
  /\ Fault("crash") /\ UNCHANGED <<call, pc, txn, entity, queued, ran>>

Schedule == CreateEntity \/ Submit \/ Resubmit \/ DropEntity \/ Cleanup
Handle == Deliver \/ Returns \/ AnswerOK

Next == \/ CallDefer \/ Commit \/ Rollback \/ Schedule \/ CallerCrash
        \/ Handle \/ RaisesPermanent \/ RaisesOther \/ WorkerCrash

Spec == Init /\ [][Next]_vars

\* The caller goes on, Cloud Tasks retries, and the function does not fail for
\* ever.
FairSpec == /\ Spec /\ WF_vars(CallDefer \/ Schedule) /\ WF_vars(Handle)
            /\ SF_vars(Returns)

-----------------------------------------------------------------------------
TypeOK ==
  /\ call \in Calls
  /\ pc \in {"call", "hooked", "create", "submit", "resubmit", "drop", "cleanup",
             "done", "raised", "forgotten", "dead"}
  /\ txn \in {"open", "committed", "aborted"}
  /\ entity \in BOOLEAN /\ queued \in BOOLEAN /\ ran \in BOOLEAN
  /\ worker \in {"idle", "running", "reply", "replyPermanent"}
  /\ faults \in 0..MaxFaults

\* "It is not possible for the transaction to fail and the task to queue"
\* (docs/deferred.md:71), nor for the function to run before the commit.  In an
\* atomic block this is the default (docs/deferred.md:60).
QueuedOnlyAfterCommit ==
  TypeOK /\ (call.arg # "false" /\ (queued \/ ran) => txn = "committed")

Undisturbed == faults = MaxFaults
Finished == pc \in {"done", "raised", "forgotten"}

\* Unless something has failed, no DeferredTask entity outlives a call whose body
\* was sent inline: "Delete the key as it wasn't needed" (deferred.py:230).
NoEntityLeft == Undisturbed /\ Finished /\ ~call.large => ~entity

\* "A large task couldn't be deferred" is the failure test_large_task looks for
\* (tests/test_deferred.py:63): without a fault the call does not raise.
LargeTaskDeferred == call.large /\ ~call.small /\ Undisturbed => pc # "raised"

\* A call whose transaction commits is carried out, unless something fails or the
\* function asks not to be tried again.
CommittedCallRuns ==
  (txn = "committed" /\ ~call.large /\ pc \in {"call", "create"})
    ~> (ran \/ ~Undisturbed \/ worker = "replyPermanent")
=============================================================================
