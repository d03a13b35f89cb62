--------------------------- MODULE DeferIteration ---------------------------
(***************************************************************************)
(* defer_iteration_with_finalize of tasks/deferred.py: one call of it,     *)
(* from the queued _generate_shards task to the finalize task.             *)
(*                                                                         *)
(* Cloud Tasks delivers a task to a worker and, unless the worker answers  *)
(* with success, delivers it again.  _generate_shards creates a marker     *)
(* entity and, shard by shard, counts the shard on the marker and queues a *)
(* _process_shard task for it.  _process_shard calls the callback on each  *)
(* instance of its key range and then counts itself complete on the        *)
(* marker; the one that makes the counts equal queues finalize.            *)
(*                                                                         *)
(* Timeouts and exceptions of the callback happen freely.  What else goes  *)
(* wrong is drawn from FaultKinds, at most MaxFaults times:                *)
(*   "crash"     the worker dies, at any point up to its answer;           *)
(*   "redeliver" a task is delivered although it will also succeed;        *)
(*   "submit"    create_task raises, having queued the task or not;        *)
(*   "database"  a marker transaction fails;                               *)
(*   "giveUp"    the callback raises PermanentTaskFailure.                 *)
(***************************************************************************)
EXTENDS Integers, FiniteSets

CONSTANTS
  Workers,        \* concurrent requests to the deferred handler
  ShardCount,     \* number of key ranges
  Lo, Hi,         \* shard i holds the instances with keys Lo[i]..Hi[i]
  DeleteChoices,  \* what callers give for _delete_marker
  MakeAttempts,   \* _attempts of retry(make_shard): 5 in the code
  MarkAttempts,   \* _attempts of retry(mark_shard_complete): 6 in the code
  FaultKinds, MaxFaults

Shards == 1..ShardCount
KeysOf(i) == Lo[i]..Hi[i]
Keys == UNION {KeysOf(i) : i \in Shards}
\* Every run of the generator makes a marker; only a fault makes it run again.
Markers == 1..(MaxFaults + 1)

ASSUME CountsAssumption ==
  /\ ShardCount \in Nat \ {0} /\ MaxFaults \in Nat
  /\ MakeAttempts \in Nat \ {0} /\ MarkAttempts \in Nat \ {0}
  /\ DeleteChoices \subseteq BOOLEAN
ASSUME RangesAssumption ==
  /\ Lo \in [Shards -> Nat \ {0}] /\ Hi \in [Shards -> Nat]
  /\ \A i \in Shards : Lo[i] <= Hi[i] + 1
  /\ \A i, j \in Shards : i # j => KeysOf(i) \cap KeysOf(j) = {}

VARIABLES
  delete,     \* delete_on_completion of this call's markers
  marker,     \* the DeferIterationMarker entities
  queue,      \* how many deliveries of each task Cloud Tasks still owes
  work,       \* what each worker is doing
  called,     \* how often the callback has run on each instance, up to 2
  finalized,  \* how often finalize has run for each marker
  faults      \* faults that may still happen

vars == <<delete, marker, queue, work, called, finalized, faults>>

GenerateTask == [kind |-> "generate"]
ShardTask(m, i, from) == [kind |-> "shard", marker |-> m, shard |-> i, from |-> from]
FinalizeTask(m) == [kind |-> "finalize", marker |-> m]
ShardTasks == {ShardTask(m, i, from) : m \in Markers, i \in Shards, from \in Keys \cup
                 {Lo[j] : j \in Shards}}
Tasks == {GenerateTask} \cup ShardTasks \cup {FinalizeTask(m) : m \in Markers}

\* pc: "idle"; "reply": the handler is about to answer 200; _generate_shards:
\* "create", "make", "submitShard"; _process_shard: "fetch", "iterate", "mark",
\* "submitFinalize", "redefer"; the finalize callback: "finalize".
\* mk: the marker in hand; shard: the shard in hand; pos: the key of the next
\* instance, or where to resume from; first: first_iteration; tries: attempts
\* of the current retry() that have failed.
Idle == [pc |-> "idle", task |-> GenerateTask, mk |-> 1, shard |-> 1, pos |-> 0,
         first |-> TRUE, tries |-> 0]

Init ==
  /\ delete \in DeleteChoices
  /\ marker = [m \in Markers |->
                 [state |-> "unused", ready |-> FALSE, count |-> 0, complete |-> 0]]
  /\ queue = [x \in Tasks |-> IF x = GenerateTask THEN 1 ELSE 0]
  /\ work = [w \in Workers |-> Idle]
  /\ called = [k \in Keys |-> 0]
  /\ finalized = [m \in Markers |-> 0]
  /\ faults = MaxFaults

\* Every action is one or the other; none changes the argument of the call.
Fault(kind) ==
  /\ kind \in FaultKinds /\ faults > 0
  /\ faults' = faults - 1
  /\ UNCHANGED delete
NoFault == UNCHANGED <<faults, delete>>

At(w, pc) == work[w].pc = pc
Become(w, r) == work' = [work EXCEPT ![w] = r]
Goto(w, pc) == Become(w, [work[w] EXCEPT !.pc = pc])
Queued(x) == queue' = [queue EXCEPT ![x] = @ + 1]
\* The handler answers 500, or nothing: the task will be delivered again.
Fail(w) == Become(w, Idle) /\ Queued(work[w].task)

\* create_task(x) raises, and the queue has, or has not (lost), taken x; if the
\* exception reaches the handler the task at hand will be delivered again.
SubmissionRaises(x, lost, fails, w) ==
  queue' = [y \in Tasks |-> queue[y] + (IF ~lost /\ y = x THEN 1 ELSE 0)
                                     + (IF fails /\ y = work[w].task THEN 1 ELSE 0)]

-----------------------------------------------------------------------------
\* Cloud Tasks and deferred_handler.

Started(x) ==
  CASE x.kind = "generate" -> [Idle EXCEPT !.pc = "create"]
    [] x.kind = "shard"    -> [Idle EXCEPT !.pc = "fetch", !.task = x, !.mk = x.marker,
                                           !.shard = x.shard, !.pos = x.from]
    [] x.kind = "finalize" -> [Idle EXCEPT !.pc = "finalize", !.task = x, !.mk = x.marker]

Deliver(w, x) ==
  /\ At(w, "idle") /\ queue[x] > 0
  /\ Become(w, Started(x))
  /\ \/ queue' = [queue EXCEPT ![x] = @ - 1] /\ NoFault
     \/ UNCHANGED queue /\ Fault("redeliver")
  /\ UNCHANGED <<marker, called, finalized>>

Reply(w) ==
  /\ At(w, "reply")
  /\ Become(w, Idle)
  /\ NoFault /\ UNCHANGED <<marker, queue, called, finalized>>

Crash(w) ==
  /\ ~At(w, "idle")
  /\ Fail(w)
  /\ Fault("crash") /\ UNCHANGED <<marker, called, finalized>>

RunFinalize(w) ==
  /\ At(w, "finalize")
  /\ finalized' = [finalized EXCEPT ![work[w].mk] = @ + 1]
  /\ Goto(w, "reply")
  /\ NoFault /\ UNCHANGED <<marker, queue, called>>

\* finalize raises: the handler answers 500.
FinalizeRaises(w) ==
  /\ At(w, "finalize")
  /\ Fail(w)
  /\ NoFault /\ UNCHANGED <<marker, called, finalized>>

-----------------------------------------------------------------------------
\* _generate_shards

CreateMarker(w) ==
  /\ At(w, "create")
  /\ \E m \in Markers :
       /\ marker[m].state = "unused" /\ \A n \in 1..(m - 1) : marker[n].state # "unused"
       /\ marker' = [marker EXCEPT ![m].state = "live"]
       /\ Become(w, [work[w] EXCEPT !.pc = "make", !.mk = m, !.shard = 1])
  /\ NoFault /\ UNCHANGED <<queue, called, finalized>>

\* Mutated form of Counted: is_ready is set together with the first shard.
CountedReadyEarly(m, isLast) ==
  [m EXCEPT !.count = @ + 1, !.ready = TRUE]
\* Mutated form of Counted: the test for the last shard is never true.
CountedNeverReady(m, isLast) ==
  [m EXCEPT !.count = @ + 1]
Counted(m, isLast) ==
  [m EXCEPT !.count = @ + 1, !.ready = @ \/ isLast]

IsFinished(m) == m.ready /\ m.count = m.complete

\* make_shard()'s transaction commits; or refresh_from_db() raises DoesNotExist,
\* which retry() does not catch.
MakeShard(w) ==
  LET m == work[w].mk IN
  /\ At(w, "make")
  /\ \/ /\ marker[m].state = "live"
        /\ marker' = [marker EXCEPT ![m] = Counted(@, work[w].shard = ShardCount)]
        /\ Goto(w, "submitShard") /\ UNCHANGED queue
     \/ /\ marker[m].state = "gone"
        /\ Fail(w) /\ UNCHANGED marker
  /\ NoFault /\ UNCHANGED <<called, finalized>>

\* defer(_process_shard, ..., _transactional=True): on_commit, create_task.
SubmitShard(w) ==
  LET i == work[w].shard IN
  /\ At(w, "submitShard")
  /\ Queued(ShardTask(work[w].mk, i, Lo[i]))
  /\ Become(w, IF i < ShardCount
               THEN [work[w] EXCEPT !.pc = "make", !.shard = i + 1, !.tries = 0]
               ELSE [work[w] EXCEPT !.pc = "reply"])
  /\ NoFault /\ UNCHANGED <<marker, called, finalized>>

\* retry() has made its attempts: the error is raised again.
OutOfAttempts(w, attempts) == work[w].tries + 1 >= attempts

\* An attempt of make_shard fails, in its transaction or after it: retry()
\* makes another one, from the start; the last failure deletes the marker and
\* the task fails.
MakeAttemptFails(w) ==
  LET last == OutOfAttempts(w, MakeAttempts) IN
  /\ \/ /\ At(w, "make") /\ marker[work[w].mk].state = "live"
        /\ Fault("database") /\ SubmissionRaises(GenerateTask, TRUE, last, w)
     \/ /\ At(w, "submitShard") /\ Fault("submit")
        /\ \E lost \in BOOLEAN :
             SubmissionRaises(ShardTask(work[w].mk, work[w].shard, Lo[work[w].shard]),
                              lost, last, w)
  /\ Become(w, IF last THEN Idle ELSE [work[w] EXCEPT !.pc = "make", !.tries = @ + 1])
  /\ marker' = [marker EXCEPT ![work[w].mk].state = IF last THEN "gone" ELSE @]
  /\ UNCHANGED <<called, finalized>>

-----------------------------------------------------------------------------
\* _process_shard

\* Mutated form of Fetch: a task that comes too early is dropped.
FetchDropsEarly(w) ==
  LET m == marker[work[w].mk] IN
  /\ At(w, "fetch")
  /\ Goto(w, IF m.state = "live" /\ m.ready THEN "iterate" ELSE "reply")
  /\ NoFault /\ UNCHANGED <<marker, queue, called, finalized>>
\* A task whose marker has vanished is cancelled; one whose marker is not
\* ready is put off.
Fetch(w) ==
  LET m == marker[work[w].mk] IN
  /\ At(w, "fetch")
  /\ \/ m.state = "gone" /\ Goto(w, "reply")
     \/ m.state = "live" /\ ~m.ready /\ Goto(w, "redefer")
     \/ m.state = "live" /\ m.ready /\ Goto(w, "iterate")
  /\ NoFault /\ UNCHANGED <<marker, queue, called, finalized>>

HasNext(w) == work[w].pos <= Hi[work[w].shard]
AtMostTwo(n) == IF n < 2 THEN n + 1 ELSE n

CallbackReturns(w) ==
  /\ At(w, "iterate") /\ HasNext(w)
  /\ called' = [called EXCEPT ![work[w].pos] = AtMostTwo(@)]
  /\ Become(w, [work[w] EXCEPT !.pos = @ + 1, !.first = FALSE])
  /\ NoFault /\ UNCHANGED <<marker, queue, finalized>>

\* Mutated form of CallbackRaises: the task is always left to Cloud Tasks.
CallbackRaisesAlwaysFails(w) ==
  /\ At(w, "iterate") /\ HasNext(w)
  /\ Fail(w)
  /\ NoFault /\ UNCHANGED <<marker, called, finalized>>
\* On the first instance the exception is raised again; later ones redefer.
CallbackRaises(w) ==
  /\ At(w, "iterate") /\ HasNext(w)
  /\ IF work[w].first THEN Fail(w) ELSE Goto(w, "redefer") /\ UNCHANGED queue
  /\ NoFault /\ UNCHANGED <<marker, called, finalized>>

\* PermanentTaskFailure, which the handler answers with success; on a later
\* instance it is redeferred like any other exception.
GivesUp(w) ==
  /\ At(w, "iterate") /\ HasNext(w) /\ work[w].first
  /\ Fault("giveUp")
  /\ Goto(w, "reply")
  /\ UNCHANGED <<marker, queue, called, finalized>>

\* Mutated form of TimesOut: the next task starts after the instance that was
\* fetched but not yet handed to the callback.
TimesOutSkipping(w) ==
  /\ At(w, "iterate") /\ HasNext(w) /\ work[w].pos < Hi[work[w].shard]
  /\ Become(w, [work[w] EXCEPT !.pc = "redefer", !.pos = @ + 1])
  /\ NoFault /\ UNCHANGED <<marker, queue, called, finalized>>
\* TimeoutException: last_pk is the instance fetched, not yet called.
TimesOut(w) ==
  /\ At(w, "iterate") /\ HasNext(w)
  /\ Goto(w, "redefer")
  /\ NoFault /\ UNCHANGED <<marker, queue, called, finalized>>

\* Mutated form of Redefer: the exception is raised as well.
RedeferAndRaise(w) ==
  /\ At(w, "redefer")
  /\ SubmissionRaises(ShardTask(work[w].mk, work[w].shard, work[w].pos), FALSE, TRUE, w)
  /\ Become(w, Idle)
  /\ NoFault /\ UNCHANGED <<marker, called, finalized>>
\* The same shard again, from the instance reached.
Redefer(w) ==
  /\ At(w, "redefer")
  /\ Queued(ShardTask(work[w].mk, work[w].shard, work[w].pos))
  /\ Goto(w, "reply")
  /\ NoFault /\ UNCHANGED <<marker, called, finalized>>

RedeferFails(w) ==
  /\ At(w, "redefer") /\ Fault("submit")
  /\ Become(w, Idle)
  /\ \E lost \in BOOLEAN :
       SubmissionRaises(ShardTask(work[w].mk, work[w].shard, work[w].pos), lost, TRUE, w)
  /\ UNCHANGED <<marker, called, finalized>>

\* The for loop ends: mark_shard_complete().
EndIteration(w) ==
  /\ At(w, "iterate") /\ ~HasNext(w)
  /\ Goto(w, "mark")
  /\ NoFault /\ UNCHANGED <<marker, queue, called, finalized>>

\* Mutated form of AllComplete: the last shard is not waited for.
AllButOneComplete(m) == m.complete + 1 >= m.count - 1
\* Mutated form of AllComplete: the count from before the increment.
AllCompleteLate(m) == m.complete = m.count
\* shards_complete == shard_count, after the increment.
AllComplete(m) == m.complete + 1 = m.count

\* mark_shard_complete()'s transaction commits; it does nothing when the marker
\* has vanished.
MarkComplete(w) ==
  LET m == work[w].mk
      all == AllComplete(marker[m]) IN
  /\ At(w, "mark")
  /\ \/ /\ marker[m].state = "live"
        /\ marker' = [marker EXCEPT
             ![m].complete = @ + 1,
             ![m].state = IF all /\ delete THEN "gone" ELSE @]
        /\ Goto(w, IF all THEN "submitFinalize" ELSE "reply")
     \/ marker[m].state = "gone" /\ Goto(w, "reply") /\ UNCHANGED marker
  /\ NoFault /\ UNCHANGED <<queue, called, finalized>>

\* defer(finalize, ..., _transactional=True): on_commit, create_task.
SubmitFinalize(w) ==
  /\ At(w, "submitFinalize")
  /\ Queued(FinalizeTask(work[w].mk))
  /\ Goto(w, "reply")
  /\ NoFault /\ UNCHANGED <<marker, called, finalized>>

\* An attempt of mark_shard_complete fails, in its transaction or after it:
\* retry() makes another one, from the start; the last failure is handled like
\* an exception of the callback on the last instance.  A transaction that fails
\* after marker.delete() leaves a marker object without a key (keyLost): the
\* next attempt does not find it and returns.
MarkAttemptFails(w) ==
  LET m == work[w].mk
      last == OutOfAttempts(w, MarkAttempts)
      raised == last /\ work[w].first IN
  /\ \E keyLost \in {FALSE, AllComplete(marker[m]) /\ delete} :
       /\ \/ /\ At(w, "mark") /\ marker[m].state = "live"
             /\ Fault("database") /\ SubmissionRaises(GenerateTask, TRUE, raised, w)
          \/ /\ At(w, "submitFinalize") /\ Fault("submit") /\ ~keyLost
             /\ \E lost \in BOOLEAN : SubmissionRaises(FinalizeTask(m), lost, raised, w)
       /\ Become(w, IF ~last /\ keyLost THEN [work[w] EXCEPT !.pc = "reply"]
                    ELSE IF ~last THEN [work[w] EXCEPT !.pc = "mark", !.tries = @ + 1]
                    ELSE IF raised THEN Idle
                    ELSE [work[w] EXCEPT !.pc = "redefer", !.pos = @ - 1, !.tries = 0])
  /\ UNCHANGED <<marker, called, finalized>>

-----------------------------------------------------------------------------
\* What a worker does by itself once it has a task.
Progress(w) ==
  \/ Reply(w) \/ RunFinalize(w) \/ CreateMarker(w) \/ MakeShard(w) \/ SubmitShard(w)
  \/ Fetch(w) \/ CallbackReturns(w) \/ Redefer(w)
  \/ EndIteration(w) \/ MarkComplete(w) \/ SubmitFinalize(w)

Setback(w) ==
  \/ Crash(w) \/ CallbackRaises(w) \/ GivesUp(w) \/ TimesOut(w) \/ FinalizeRaises(w)
  \/ MakeAttemptFails(w) \/ RedeferFails(w) \/ MarkAttemptFails(w)

Next == \E w \in Workers : (\E x \in Tasks : Deliver(w, x)) \/ Progress(w) \/ Setback(w)

Spec == Init /\ [][Next]_vars

\* Workers go on, Cloud Tasks delivers what it owes, and a callback that is tried
\* again and again, on an instance or as finalize, returns at last ("we'll keep doing that
\* until the developer deploys a fix", deferred.py:434).
Fairness ==
  /\ \A w \in Workers : WF_vars(Progress(w))
  /\ \A x \in Tasks : SF_vars(\E w \in Workers : Deliver(w, x))
  /\ SF_vars(\E w \in Workers : RunFinalize(w))
  /\ \A k \in Keys : SF_vars(\E w \in Workers : work[w].pos = k /\ CallbackReturns(w))

FairSpec == Spec /\ Fairness

-----------------------------------------------------------------------------
PCs == {"idle", "reply", "create", "make", "submitShard", "fetch", "iterate",
        "mark", "submitFinalize", "redefer", "finalize"}

TypeOK ==
  /\ delete \in DeleteChoices
  /\ marker \in [Markers -> [state : {"unused", "live", "gone"}, ready : BOOLEAN,
                             count : Nat, complete : Nat]]
  /\ queue \in [Tasks -> Nat]
  /\ work \in [Workers -> [pc : PCs, task : Tasks, mk : Markers, shard : Shards,
                           pos : Nat, first : BOOLEAN, tries : Nat]]
  /\ called \in [Keys -> 0..2]
  /\ finalized \in [Markers -> Nat]
  /\ faults \in 0..MaxFaults

Processed(k) == called[k] > 0
FinalizeDue(m) ==
  \/ queue[FinalizeTask(m)] > 0 \/ finalized[m] > 0
  \/ \E w \in Workers : work[w].mk = m /\ work[w].pc = "submitFinalize"

\* None of the FaultKinds has happened.
Undisturbed == faults = MaxFaults

\* "Once all shards complete then the finalize callback is called"
\* (docs/deferred.md:80): finalize is not even on its way while an instance has
\* not been through the callback.
FinalizeAfterAll ==
  (\E m \in Markers : FinalizeDue(m)) => \A k \in Keys : Processed(k)

\* So it is without faults, however the callback times out and fails.
FinalizeComesLast == Undisturbed => FinalizeAfterAll

\* Timeouts and exceptions alone make no instance go through the callback
\* twice: re-raising on the first instance and resuming from last_pk on later
\* ones is there to avoid it (deferred.py:444-447).  An instance belongs to one
\* shard here (RangesAssumption).
NoInstanceTwice == Undisturbed => \A k \in Keys : called[k] < 2

\* The places where the rest of shard i of marker m is waiting to be done.
Chains(m, i) ==
  {<<"queue", x>> : x \in {y \in ShardTasks : y.marker = m /\ y.shard = i /\ queue[y] > 0}}
  \cup {<<"work", w>> : w \in {v \in Workers :
          /\ work[v].task.kind = "shard" /\ work[v].mk = m /\ work[v].shard = i
          /\ work[v].pc \in {"fetch", "iterate", "redefer", "mark"}}}

\* The type invariant, and: without faults the marker's counters
\* tell the truth.  Each counted shard is either complete or carried on by
\* exactly one task, so the counts become equal once, at the end.
CountersExact ==
  TypeOK /\ (Undisturbed => \A m \in Markers :
    /\ \A i \in Shards : Cardinality(Chains(m, i)) <= 1
    /\ marker[m].state = "live" /\ marker[m].ready =>
         marker[m].count - marker[m].complete
           = Cardinality({i \in Shards : Chains(m, i) # {}})
             + Cardinality({w \in Workers : work[w].mk = m /\ work[w].pc = "submitShard"}))

\* A task resumes from a key only when every earlier instance of its shard has
\* been through the callback, whatever has crashed, failed or been repeated.
ResumePointSafe ==
  \A i \in Shards :
    LET Done(from) == \A k \in Keys : Lo[i] <= k /\ k < from => Processed(k) IN
    /\ \A x \in ShardTasks : x.shard = i /\ queue[x] > 0 => Done(x.from)
    /\ \A w \in Workers :
         work[w].task.kind = "shard" /\ work[w].shard = i => Done(work[w].pos)

\* A kept marker that reports is_finished (models.py:27-29) goes on doing so, as
\* long as there is no fault.
FinishedForGood ==
  [][Undisturbed' => \A m \in Markers : IsFinished(marker[m]) => IsFinished(marker'[m])]_vars

\* With delete_on_completion a marker that is still stored is never finished,
\* whatever fails: equality of the counters cannot be jumped over.
KeptOnlyWhileUnfinished ==
  delete => \A m \in Markers : marker[m].state = "live" => ~IsFinished(marker[m])

\* Without faults: when nothing is left to do, finalize has run
\* (docs/deferred.md:80).
QuiescentMeansFinalized ==
  Undisturbed /\ (\A x \in Tasks : queue[x] = 0) /\ (\A w \in Workers : At(w, "idle"))
    => \E m \in Markers : finalized[m] > 0

\* Shards and finalize are all done in the end (docs/deferred.md:80).
EventuallyFinalized == <>(\E m \in Markers : finalized[m] > 0)
=============================================================================
