------------------------ MODULE DeferIteration_proofs ------------------------
(***************************************************************************)
(* Proofs about DeferIteration, for any number of workers, shards and      *)
(* instances, any numbers of attempts.  Under faults of every kind (IInv): *)
(* a task resumes only behind instances that have been through the         *)
(* callback, and a marker to be deleted on completion is deleted as soon   *)
(* as its counts are equal.  As long as callbacks only time out or raise   *)
(* (Faultless): one generator, one task for each shard, counters that      *)
(* agree with them, each instance called once, finalize last.              *)
(***************************************************************************)
EXTENDS DeferIteration, FiniteSetTheorems, TLAPS

WorkType ==
  [pc : PCs, task : Tasks, mk : Markers, shard : Shards,
   pos : Nat, first : BOOLEAN, tries : Nat]
MarkerType ==
  [state : {"unused", "live", "gone"}, ready : BOOLEAN, count : Nat, complete : Nat]

\* What a worker has in hand fits what it is doing.
WorkOK(r) ==
  /\ r.pc \in {"fetch", "iterate", "mark", "submitFinalize", "redefer"} => r.task.kind = "shard"
  /\ r.pc \in {"create", "make", "submitShard"} => r.task.kind = "generate"
  /\ r.pc \in {"mark", "submitFinalize"} => r.pos > 0

\* By the count c of callbacks, shard i has been processed up to key from.
ReachedIn(c, i, from) == \A k \in Keys : Lo[i] <= k /\ k < from => c[k] > 0

\* Both the task in hand and the work in hand resume behind processed instances.
ResumeOK(c, r) ==
  r.task.kind = "shard" => ReachedIn(c, r.task.shard, r.task.from) /\ ReachedIn(c, r.shard, r.pos)

\* A marker that is not ready has no complete shards; one that is ready and to
\* be deleted has some that are not.
MarkerOK(m, deleted) ==
  /\ ~m.ready => m.complete = 0
  /\ m.state = "unused" => ~m.ready
  /\ deleted /\ m.state = "live" /\ m.ready => m.complete < m.count

ControlInv == \A w \in Workers : WorkOK(work[w])
ResumeInv ==
  /\ \A w \in Workers : ResumeOK(called, work[w])
  /\ \A x \in ShardTasks : queue[x] > 0 => ReachedIn(called, x.shard, x.from)
MarkerInv ==
  /\ \A m \in Markers : MarkerOK(marker[m], delete)
  /\ \A w \in Workers :
       work[w].pc \in {"iterate", "mark", "submitFinalize"} => marker[work[w].mk].ready

IInv == TypeOK /\ ControlInv /\ ResumeInv /\ MarkerInv

-----------------------------------------------------------------------------
\* Keys are numbers.
LEMMA KeyTypes ==
  /\ Keys \subseteq Nat /\ Shards \subseteq Nat /\ 1 \in Shards /\ 1 \in Markers
  /\ \A i \in Shards : Lo[i] \in Nat \ {0} /\ Hi[i] \in Nat
<1>1. \A i \in Shards : Lo[i] \in Nat \ {0} /\ Hi[i] \in Nat
      BY RangesAssumption
<1>2. Shards \subseteq Nat /\ 1 \in Shards /\ 1 \in Markers
      BY CountsAssumption DEF Shards, Markers
<1>3. Keys \subseteq Nat
      BY <1>1 DEF Keys, KeysOf
<1> QED
    BY <1>1, <1>2, <1>3

\* The three kinds of task.
LEMMA TaskTypes ==
  /\ GenerateTask \in Tasks /\ GenerateTask.kind = "generate"
  /\ \A m \in Markers : FinalizeTask(m) \in Tasks /\ FinalizeTask(m).kind = "finalize"
  /\ ShardTasks \subseteq Tasks
  /\ \A x \in ShardTasks : /\ x.kind = "shard" /\ x.marker \in Markers /\ x.shard \in Shards
                           /\ x.from \in Nat
  /\ \A x \in Tasks : /\ x.kind = "shard" => x \in ShardTasks
                      /\ x.kind = "finalize" => x.marker \in Markers
                      /\ x.kind \in {"generate", "shard", "finalize"}
<1>1. GenerateTask \in Tasks /\ GenerateTask.kind = "generate" /\ ShardTasks \subseteq Tasks
      BY DEF GenerateTask, Tasks
<1>2. \A m \in Markers : /\ FinalizeTask(m) \in Tasks /\ FinalizeTask(m).kind = "finalize"
                         /\ FinalizeTask(m).marker = m
      BY DEF FinalizeTask, Tasks
<1>3. ASSUME NEW x \in ShardTasks
      PROVE  x.kind = "shard" /\ x.marker \in Markers /\ x.shard \in Shards /\ x.from \in Nat
  <2>1. PICK m \in Markers, i \in Shards, from \in Keys \cup {Lo[j] : j \in Shards} :
          x = ShardTask(m, i, from)
        BY DEF ShardTasks
  <2>2. from \in Nat
        BY KeyTypes
  <2> QED
      BY <2>1, <2>2 DEF ShardTask
<1> QED
    BY <1>1, <1>2, <1>3 DEF Tasks

\* A worker without a task.
LEMMA IdleType == Idle \in WorkType /\ Idle.pc = "idle" /\ Idle.task.kind = "generate"
BY TaskTypes, KeyTypes DEF Idle, WorkType, PCs

\* What has been reached stays reached.
LEMMA ReachedMore ==
  ASSUME NEW c, NEW d, \A k \in Keys : c[k] > 0 => d[k] > 0
  PROVE  /\ \A i, from : ReachedIn(c, i, from) => ReachedIn(d, i, from)
         /\ \A r : ResumeOK(c, r) => ResumeOK(d, r)
BY DEF ReachedIn, ResumeOK

\* A call has been made: the generator's task is queued (deferred.py:524-541).
LEMMA InitIInv == Init => IInv
<1> SUFFICES ASSUME Init PROVE IInv
    OBVIOUS
<1>1. TypeOK
  <2>1. work \in [Workers -> WorkType]
        BY IdleType DEF Init
  <2>2. marker \in [Markers -> MarkerType]
        BY DEF Init, MarkerType
  <2>3. queue \in [Tasks -> Nat] /\ called \in [Keys -> 0..2] /\ finalized \in [Markers -> Nat]
        BY DEF Init
  <2>4. delete \in DeleteChoices /\ faults \in 0..MaxFaults
        BY CountsAssumption DEF Init
  <2> QED
      BY <2>1, <2>2, <2>3, <2>4 DEF TypeOK, WorkType, MarkerType
<1>2. \A w \in Workers : work[w] = Idle
      BY DEF Init
<1>3. ControlInv
      BY <1>2, IdleType DEF ControlInv, WorkOK
<1>4. ResumeInv
  <2>1. \A x \in ShardTasks : queue[x] = 0
        BY TaskTypes DEF Init
  <2> QED
      BY <1>2, <2>1, IdleType DEF ResumeInv, ResumeOK
<1>5. MarkerInv
      BY <1>2, IdleType DEF Init, MarkerInv, MarkerOK
<1> QED
    BY <1>1, <1>3, <1>4, <1>5 DEF IInv

\* One worker's step to r keeps the invariant if it resumes, queues and counts
\* as it may.
LEMMA WorkerStep ==
  ASSUME IInv, NEW w \in Workers, NEW r \in WorkType, work' = [work EXCEPT ![w] = r],
         faults' \in 0..MaxFaults, delete' = delete, finalized' \in [Markers -> Nat],
         queue' \in [Tasks -> Nat], marker' \in [Markers -> MarkerType],
         called' \in [Keys -> 0..2], \A k \in Keys : called[k] > 0 => called'[k] > 0,
         \A x \in ShardTasks :
           queue'[x] > 0 => queue[x] > 0 \/ ReachedIn(called', x.shard, x.from),
         WorkOK(r), ResumeOK(called', r),
         \A m \in Markers : /\ MarkerOK(marker'[m], delete)
                            /\ marker[m].ready => marker'[m].ready,
         r.pc \in {"iterate", "mark", "submitFinalize"} => marker'[r.mk].ready
  PROVE  IInv'
<1>1. \A u \in Workers : work'[u] = IF u = w THEN r ELSE work[u]
      BY DEF IInv, TypeOK
<1>2. TypeOK'
  <2>1. work \in [Workers -> WorkType]
        BY DEF IInv, TypeOK, WorkType
  <2>2. work' \in [Workers -> WorkType]
        BY <2>1
  <2> QED
      BY <2>2 DEF IInv, TypeOK, WorkType, MarkerType
<1>3. ControlInv'
      BY <1>1 DEF IInv, ControlInv
<1>4. ResumeInv'
  <2>1. \A u \in Workers : ResumeOK(called', work'[u])
        BY <1>1, ReachedMore DEF IInv, ResumeInv
  <2>2. \A x \in ShardTasks : queue'[x] > 0 => ReachedIn(called', x.shard, x.from)
        BY ReachedMore DEF IInv, ResumeInv
  <2> QED
      BY <2>1, <2>2 DEF ResumeInv
<1>5. MarkerInv'
  <2>1. ASSUME NEW u \in Workers, work'[u].pc \in {"iterate", "mark", "submitFinalize"}
        PROVE  marker'[work'[u].mk].ready
    <3>1. CASE u = w
          BY <1>1, <2>1, <3>1
    <3>2. CASE u # w
      <4>1. work'[u] = work[u] /\ work[u].mk \in Markers
            BY <1>1, <3>2 DEF IInv, TypeOK
      <4> QED
          BY <2>1, <4>1 DEF IInv, MarkerInv
    <3> QED
        BY <3>1, <3>2
  <2> QED
      BY <2>1 DEF MarkerInv
<1> QED
    BY <1>2, <1>3, <1>4, <1>5 DEF IInv

\* The same, of a step that neither runs the callback nor writes a marker.
LEMMA QuietStep ==
  ASSUME IInv, NEW w \in Workers, NEW r \in WorkType, work' = [work EXCEPT ![w] = r],
         faults' \in 0..MaxFaults, delete' = delete, finalized' \in [Markers -> Nat],
         queue' \in [Tasks -> Nat], UNCHANGED <<marker, called>>,
         \A x \in ShardTasks :
           queue'[x] > 0 => queue[x] > 0 \/ ReachedIn(called, x.shard, x.from),
         WorkOK(r), ResumeOK(called, r),
         r.pc \in {"iterate", "mark", "submitFinalize"} => marker[r.mk].ready
  PROVE  IInv'
<1>1. marker \in [Markers -> MarkerType] /\ called \in [Keys -> 0..2]
      BY DEF IInv, TypeOK, MarkerType
<1>2. \A m \in Markers : MarkerOK(marker[m], delete)
      BY DEF IInv, MarkerInv
<1> QED
    BY <1>1, <1>2, WorkerStep

\* What happens without a fault or with one.
LEMMA FaultTypes ==
  ASSUME TypeOK, NoFault \/ \E kind \in FaultKinds : Fault(kind)
  PROVE  faults' \in 0..MaxFaults /\ delete' = delete
BY CountsAssumption DEF TypeOK, NoFault, Fault

\* Facts about what a worker has in hand.
LEMMA WorkFacts ==
  ASSUME IInv, NEW w \in Workers
  PROVE  /\ work[w] \in WorkType /\ WorkOK(work[w]) /\ ResumeOK(called, work[w])
         /\ work[w].task.kind = "shard" =>
              /\ work[w].task \in ShardTasks
              /\ ReachedIn(called, work[w].task.shard, work[w].task.from)
              /\ ReachedIn(called, work[w].shard, work[w].pos)
         /\ work[w].pc \in {"iterate", "mark", "submitFinalize"} => marker[work[w].mk].ready
<1>1. work[w] \in WorkType
      BY DEF IInv, TypeOK, WorkType
<1>2. WorkOK(work[w]) /\ ResumeOK(called, work[w])
      BY DEF IInv, ControlInv, ResumeInv
<1>3. work[w].task \in Tasks
      BY <1>1 DEF WorkType
<1> QED
    BY <1>1, <1>2, <1>3, TaskTypes DEF ResumeOK, IInv, MarkerInv
-----------------------------------------------------------------------------
\* What create_task adds to the queue when it returns, and when it raises.
LEMMA QueuedEffect ==
  ASSUME TypeOK, NEW x, Queued(x)
  PROVE  /\ queue' \in [Tasks -> Nat]
         /\ \A y \in Tasks : queue'[y] > 0 => queue[y] > 0 \/ y = x
<1>1. queue \in [Tasks -> Nat] /\ queue' = [queue EXCEPT ![x] = @ + 1]
      BY DEF TypeOK, Queued
<1>2. CASE x \in Tasks
      BY <1>1, <1>2
<1>3. CASE x \notin Tasks
  <2>1. queue' = queue
        BY <1>1, <1>3
  <2> QED
      BY <1>1, <2>1
<1> QED
    BY <1>2, <1>3

LEMMA RaisedEffect ==
  ASSUME TypeOK, NEW w \in Workers, NEW x, NEW lost, NEW fails,
         SubmissionRaises(x, lost, fails, w)
  PROVE  /\ queue' \in [Tasks -> Nat]
         /\ \A y \in Tasks : queue'[y] > 0 =>
              queue[y] > 0 \/ y = work[w].task \/ (~lost /\ y = x)
<1>1. queue \in [Tasks -> Nat]
      BY DEF TypeOK
<1>2. \A y \in Tasks : queue'[y] = queue[y] + (IF ~lost /\ y = x THEN 1 ELSE 0)
                                     + (IF fails /\ y = work[w].task THEN 1 ELSE 0)
      BY DEF SubmissionRaises
<1>3. queue' \in [Tasks -> Nat]
      BY <1>1 DEF SubmissionRaises
<1> QED
    BY <1>1, <1>2, <1>3

\* A task for a shard resumes where it says.
LEMMA ShardTaskFields ==
  ASSUME NEW m, NEW i, NEW from, NEW y, y = ShardTask(m, i, from)
  PROVE  y.shard = i /\ y.from = from
BY DEF ShardTask

\* The handler fails, and leaves the task to Cloud Tasks.
LEMMA FailStep ==
  ASSUME IInv, NEW w \in Workers, Fail(w), NoFault \/ \E kind \in FaultKinds : Fault(kind),
         UNCHANGED <<marker, called, finalized>>
  PROVE  IInv'
<1>1. work' = [work EXCEPT ![w] = Idle] /\ Queued(work[w].task)
      BY DEF Fail, Become
<1>2. /\ queue' \in [Tasks -> Nat]
      /\ \A y \in Tasks : queue'[y] > 0 => queue[y] > 0 \/ y = work[w].task
      BY <1>1, QueuedEffect DEF IInv
<1>3. \A x \in ShardTasks :
        queue'[x] > 0 => queue[x] > 0 \/ ReachedIn(called, x.shard, x.from)
      BY <1>2, WorkFacts, TaskTypes
<1>4. faults' \in 0..MaxFaults /\ delete' = delete /\ finalized' \in [Markers -> Nat]
      BY FaultTypes DEF IInv, TypeOK
<1>5. WorkOK(Idle) /\ ResumeOK(called, Idle)
      BY IdleType DEF WorkOK, ResumeOK
<1> QED
    BY <1>1, <1>2, <1>3, <1>4, <1>5, IdleType, QuietStep

\* The handler goes on with what it has in hand, or answers.
LEMMA GotoStep ==
  ASSUME IInv, NEW w \in Workers, NEW pc \in PCs, Goto(w, pc),
         NoFault \/ \E kind \in FaultKinds : Fault(kind),
         UNCHANGED <<marker, called>>, finalized' \in [Markers -> Nat],
         queue' \in [Tasks -> Nat],
         \A x \in ShardTasks :
           queue'[x] > 0 => queue[x] > 0 \/ ReachedIn(called, x.shard, x.from),
         WorkOK([work[w] EXCEPT !.pc = pc]),
         pc \in {"iterate", "mark", "submitFinalize"} => marker[work[w].mk].ready
  PROVE  IInv'
<1> DEFINE r == [work[w] EXCEPT !.pc = pc]
<1>1. work' = [work EXCEPT ![w] = r]
      BY DEF Goto, Become
<1>2. /\ r \in WorkType /\ r.task = work[w].task /\ r.shard = work[w].shard
      /\ r.pos = work[w].pos /\ r.mk = work[w].mk /\ r.pc = pc
      BY WorkFacts DEF WorkType
<1>3. faults' \in 0..MaxFaults /\ delete' = delete
      BY FaultTypes DEF IInv
<1>4. WorkOK(r)
      OBVIOUS
<1> HIDE DEF r
<1>5. ResumeOK(called, r)
      BY <1>2, WorkFacts DEF ResumeOK
<1> QED
    BY <1>1, <1>2, <1>3, <1>4, <1>5, QuietStep
-----------------------------------------------------------------------------
\* Cloud Tasks and the handler (deferred_handler).
LEMMA DeliverKeeps == ASSUME IInv, NEW w \in Workers, NEW x \in Tasks, Deliver(w, x) PROVE IInv'
<1> DEFINE r == Started(x)
<1>1. work' = [work EXCEPT ![w] = r] /\ UNCHANGED <<marker, called, finalized>>
      BY DEF Deliver, Become
<1>2. NoFault \/ \E kind \in FaultKinds : Fault(kind)
      BY DEF Deliver, Fault
<1>3. faults' \in 0..MaxFaults /\ delete' = delete /\ finalized' \in [Markers -> Nat]
      BY <1>1, <1>2, FaultTypes DEF IInv, TypeOK
<1>4. queue' \in [Tasks -> Nat] /\ \A y \in Tasks : queue'[y] > 0 => queue[y] > 0
  <2>1. queue \in [Tasks -> Nat] /\ queue[x] > 0
        BY DEF Deliver, IInv, TypeOK
  <2>2. queue' = queue \/ queue' = [queue EXCEPT ![x] = @ - 1]
        BY DEF Deliver
  <2> QED
      BY <2>1, <2>2
<1>5. queue[x] > 0
      BY DEF Deliver
<1>6. r \in WorkType /\ WorkOK(r) /\ ResumeOK(called, r) /\ r.pc \in {"create", "fetch", "finalize"}
  <2>1. CASE x.kind = "generate"
    <3>1. r = [Idle EXCEPT !.pc = "create"]
          BY <2>1 DEF Started
    <3> HIDE DEF r
    <3>2. r \in WorkType /\ r.pc = "create" /\ r.task.kind = "generate"
          BY <3>1, IdleType DEF WorkType, PCs
    <3> QED
        BY <3>2 DEF WorkOK, ResumeOK
  <2>2. CASE x.kind = "shard"
    <3>1. r = [Idle EXCEPT !.pc = "fetch", !.task = x, !.mk = x.marker, !.shard = x.shard,
                           !.pos = x.from]
          BY <2>2 DEF Started
    <3>2. x \in ShardTasks /\ x.marker \in Markers /\ x.shard \in Shards /\ x.from \in Nat
          BY <2>2, TaskTypes
    <3> HIDE DEF r
    <3>3. /\ r \in WorkType /\ r.pc = "fetch" /\ r.task = x /\ r.shard = x.shard
          /\ r.pos = x.from
          BY <3>1, <3>2, IdleType DEF WorkType, PCs
    <3>4. ReachedIn(called, x.shard, x.from)
          BY <1>5, <3>2 DEF IInv, ResumeInv
    <3> QED
        BY <2>2, <3>3, <3>4 DEF WorkOK, ResumeOK
  <2>3. CASE x.kind = "finalize"
    <3>1. r = [Idle EXCEPT !.pc = "finalize", !.task = x, !.mk = x.marker]
          BY <2>3 DEF Started
    <3>2. x.marker \in Markers
          BY <2>3, TaskTypes
    <3> HIDE DEF r
    <3>3. r \in WorkType /\ r.pc = "finalize" /\ r.task = x
          BY <3>1, <3>2, IdleType DEF WorkType, PCs
    <3> QED
        BY <2>3, <3>3 DEF WorkOK, ResumeOK
  <2> QED
      BY <2>1, <2>2, <2>3, TaskTypes
<1> HIDE DEF r
<1> QED
    BY <1>1, <1>3, <1>4, <1>6, QuietStep, TaskTypes

LEMMA ReplyKeeps == ASSUME IInv, NEW w \in Workers, Reply(w) PROVE IInv'
<1>1. /\ work' = [work EXCEPT ![w] = Idle] /\ UNCHANGED <<marker, queue, called, finalized>>
      /\ NoFault
      BY DEF Reply, Become
<1>2. faults' \in 0..MaxFaults /\ delete' = delete /\ finalized' \in [Markers -> Nat]
      /\ queue' \in [Tasks -> Nat]
      BY <1>1, FaultTypes DEF IInv, TypeOK
<1>3. WorkOK(Idle) /\ ResumeOK(called, Idle)
      BY IdleType DEF WorkOK, ResumeOK
<1> QED
    BY <1>1, <1>2, <1>3, IdleType, QuietStep

LEMMA FinalizeKeeps ==
  ASSUME IInv, NEW w \in Workers, RunFinalize(w) \/ FinalizeRaises(w) \/ Crash(w) PROVE IInv'
<1>1. CASE RunFinalize(w)
  <2>1. finalized' \in [Markers -> Nat] /\ queue' \in [Tasks -> Nat]
        BY <1>1 DEF RunFinalize, IInv, TypeOK
  <2>2. WorkOK([work[w] EXCEPT !.pc = "reply"])
        BY WorkFacts DEF WorkOK, WorkType
  <2> QED
      BY <1>1, <2>1, <2>2, GotoStep DEF RunFinalize, PCs
<1>2. CASE FinalizeRaises(w)
      BY <1>2, FailStep DEF FinalizeRaises
<1>3. CASE Crash(w)
      BY <1>3, FailStep DEF Crash, Fault
<1> QED
    BY <1>1, <1>2, <1>3
-----------------------------------------------------------------------------
\* _generate_shards (deferred.py:463-521).

\* Nothing before the first key of a shard is left out.
LEMMA ReachedAtLo == \A i \in Shards : ReachedIn(called, i, Lo[i])
<1> SUFFICES ASSUME NEW i \in Shards, NEW k \in Keys, Lo[i] <= k, k < Lo[i] PROVE FALSE
    BY DEF ReachedIn
<1> QED
    BY KeyTypes

LEMMA CreateMarkerKeeps == ASSUME IInv, NEW w \in Workers, CreateMarker(w) PROVE IInv'
<1>1. PICK m \in Markers :
        /\ marker[m].state = "unused" /\ marker' = [marker EXCEPT ![m].state = "live"]
        /\ work' = [work EXCEPT ![w] = [work[w] EXCEPT !.pc = "make", !.mk = m, !.shard = 1]]
      BY DEF CreateMarker, Become
<1>2. /\ work[w].pc = "create" /\ work[w].task.kind = "generate"
      /\ NoFault /\ UNCHANGED <<queue, called, finalized>>
      BY WorkFacts DEF CreateMarker, At, WorkOK
<1> DEFINE r == [work[w] EXCEPT !.pc = "make", !.mk = m, !.shard = 1]
<1>3. r \in WorkType /\ r.pc = "make" /\ r.task.kind = "generate"
      BY <1>2, WorkFacts, KeyTypes DEF WorkType, PCs
<1> HIDE DEF r
<1>4. WorkOK(r) /\ ResumeOK(called, r)
      BY <1>3 DEF WorkOK, ResumeOK
<1>5. marker \in [Markers -> MarkerType]
      BY DEF IInv, TypeOK, MarkerType
<1>6. marker' \in [Markers -> MarkerType]
      BY <1>1, <1>5 DEF MarkerType
<1>7. \A k \in Markers : MarkerOK(marker'[k], delete) /\ (marker[k].ready => marker'[k].ready)
  <2> TAKE k \in Markers
  <2>1. MarkerOK(marker[k], delete)
        BY DEF IInv, MarkerInv
  <2>2. marker'[k] = IF k = m THEN [marker[k] EXCEPT !.state = "live"] ELSE marker[k]
        BY <1>1, <1>5
  <2> QED
      BY <1>1, <1>5, <2>1, <2>2 DEF MarkerOK, MarkerType
<1>8. /\ faults' \in 0..MaxFaults /\ delete' = delete /\ finalized' \in [Markers -> Nat]
      /\ queue' \in [Tasks -> Nat] /\ called' \in [Keys -> 0..2]
      BY <1>2, FaultTypes DEF IInv, TypeOK
<1> QED
    BY <1>1, <1>2, <1>3, <1>4, <1>6, <1>7, <1>8, WorkerStep DEF r

LEMMA MakeShardKeeps == ASSUME IInv, NEW w \in Workers, MakeShard(w) PROVE IInv'
<1> DEFINE m == work[w].mk
<1>1. CASE marker[m].state = "gone" /\ Fail(w) /\ UNCHANGED marker
      BY <1>1, FailStep DEF MakeShard
<1>2. CASE /\ marker[m].state = "live"
           /\ marker' = [marker EXCEPT ![m] = Counted(@, work[w].shard = ShardCount)]
           /\ Goto(w, "submitShard") /\ UNCHANGED queue
  <2> DEFINE r == [work[w] EXCEPT !.pc = "submitShard"]
  <2>1. work' = [work EXCEPT ![w] = r] /\ NoFault /\ UNCHANGED <<queue, called, finalized>>
        BY <1>2 DEF Goto, Become, MakeShard
  <2>2. work[w].pc = "make" /\ work[w].task.kind = "generate" /\ m \in Markers
        BY WorkFacts DEF MakeShard, At, WorkOK, WorkType
  <2>3. r \in WorkType /\ r.pc = "submitShard" /\ r.task.kind = "generate"
        BY <2>2, WorkFacts DEF WorkType, PCs
  <2> HIDE DEF r
  <2>4. WorkOK(r) /\ ResumeOK(called, r)
        BY <2>3 DEF WorkOK, ResumeOK
  <2>5. marker \in [Markers -> MarkerType]
        BY DEF IInv, TypeOK, MarkerType
  <2> DEFINE new == Counted(marker[m], work[w].shard = ShardCount)
  <2>6. /\ new \in MarkerType /\ new.count = marker[m].count + 1
        /\ new.complete = marker[m].complete /\ new.state = "live"
        /\ (marker[m].ready => new.ready)
    <3>1. PICK isLast \in BOOLEAN : new = Counted(marker[m], isLast)
          OBVIOUS
    <3>2. marker[m] \in MarkerType
          BY <2>2, <2>5
    <3> HIDE DEF new, m
    <3>3. marker[m].ready \in BOOLEAN /\ marker[m].count + 1 \in Nat
          BY <3>2 DEF MarkerType
    <3>4. new = [marker[m] EXCEPT !.count = marker[m].count + 1,
                                  !.ready = marker[m].ready \/ isLast]
          BY <3>1 DEF Counted
    <3>5. PICK b \in BOOLEAN : b = (marker[m].ready \/ isLast) /\ (marker[m].ready => b)
          BY <3>1, <3>3
    <3>6. new = [marker[m] EXCEPT !.count = marker[m].count + 1, !.ready = b]
          BY <3>4, <3>5
    <3> QED
        BY <1>2, <3>2, <3>3, <3>5, <3>6 DEF MarkerType
  <2>7. MarkerOK(marker[m], delete)
        BY <2>2 DEF IInv, MarkerInv
  <2> HIDE DEF new
  <2>8. MarkerOK(new, delete)
    <3>1. marker[m].complete \in Nat /\ marker[m].count \in Nat /\ marker[m].ready \in BOOLEAN
          BY <2>2, <2>5 DEF MarkerType
    <3> QED
        BY <1>2, <2>6, <2>7, <3>1 DEF MarkerOK
  <2>9. marker' = [marker EXCEPT ![m] = new]
        BY <1>2 DEF new
  <2>10. marker' \in [Markers -> MarkerType]
        BY <2>5, <2>6, <2>9
  <2>11. \A k \in Markers : MarkerOK(marker'[k], delete) /\ (marker[k].ready => marker'[k].ready)
    <3> TAKE k \in Markers
    <3>1. MarkerOK(marker[k], delete)
          BY DEF IInv, MarkerInv
    <3> HIDE DEF m
    <3> QED
        BY <2>5, <2>6, <2>8, <2>9, <3>1
  <2>12. /\ faults' \in 0..MaxFaults /\ delete' = delete /\ finalized' \in [Markers -> Nat]
         /\ queue' \in [Tasks -> Nat] /\ called' \in [Keys -> 0..2]
         BY <2>1, FaultTypes DEF IInv, TypeOK
  <2> QED
      BY <2>1, <2>3, <2>4, <2>10, <2>11, <2>12, WorkerStep
<1> QED
    BY <1>1, <1>2 DEF MakeShard

LEMMA SubmitShardKeeps == ASSUME IInv, NEW w \in Workers, SubmitShard(w) PROVE IInv'
<1> DEFINE i == work[w].shard
           r == IF i < ShardCount THEN [work[w] EXCEPT !.pc = "make", !.shard = i + 1, !.tries = 0]
                                  ELSE [work[w] EXCEPT !.pc = "reply"]
<1>1. /\ work[w].pc = "submitShard" /\ Queued(ShardTask(work[w].mk, i, Lo[i]))
      /\ work' = [work EXCEPT ![w] = r]
      /\ NoFault /\ UNCHANGED <<marker, called, finalized>>
      BY DEF SubmitShard, Become, At
<1>2. work[w] \in WorkType /\ work[w].task.kind = "generate"
      BY <1>1, WorkFacts DEF WorkOK
<1>3. r \in WorkType /\ r.pc \in {"make", "reply"} /\ r.task.kind = "generate"
  <2>1. i < ShardCount => i + 1 \in Shards
    <3>1. i \in Shards
          BY <1>2 DEF WorkType
    <3> HIDE DEF i
    <3> QED
        BY <3>1, CountsAssumption DEF Shards
  <2> QED
      BY <1>2, <2>1 DEF WorkType, PCs
<1> HIDE DEF r
<1>4. WorkOK(r) /\ ResumeOK(called, r)
      BY <1>3 DEF WorkOK, ResumeOK
<1>5. /\ queue' \in [Tasks -> Nat]
      /\ \A x \in ShardTasks :
           queue'[x] > 0 => queue[x] > 0 \/ ReachedIn(called, x.shard, x.from)
  <2>1. i \in Shards
        BY <1>2 DEF WorkType
  <2> QED
      BY <1>1, <2>1, QueuedEffect, ShardTaskFields, ReachedAtLo, TaskTypes DEF IInv
<1>6. faults' \in 0..MaxFaults /\ delete' = delete /\ finalized' \in [Markers -> Nat]
      BY <1>1, FaultTypes DEF IInv, TypeOK
<1> QED
    BY <1>1, <1>3, <1>4, <1>5, <1>6, QuietStep

LEMMA MakeAttemptFailsKeeps == ASSUME IInv, NEW w \in Workers, MakeAttemptFails(w) PROVE IInv'
<1> DEFINE last == OutOfAttempts(w, MakeAttempts)
           r == IF last THEN Idle ELSE [work[w] EXCEPT !.pc = "make", !.tries = @ + 1]
<1>1. /\ work' = [work EXCEPT ![w] = r] /\ UNCHANGED <<called, finalized>>
      /\ marker' = [marker EXCEPT ![work[w].mk].state = IF last THEN "gone" ELSE @]
      /\ \E kind \in FaultKinds : Fault(kind)
      BY DEF MakeAttemptFails, Become, Fault
<1>2. work[w] \in WorkType /\ work[w].task.kind = "generate"
      BY WorkFacts DEF MakeAttemptFails, At, WorkOK
<1>3. r \in WorkType /\ r.pc \in {"idle", "make"} /\ r.task.kind = "generate"
  <2> HIDE DEF last
  <2>1. CASE last
        BY <2>1, IdleType
  <2>2. CASE ~last
    <3>1. work[w].tries + 1 \in Nat
          BY <1>2 DEF WorkType
    <3>2. r = [work[w] EXCEPT !.pc = "make", !.tries = work[w].tries + 1]
          BY <2>2
    <3> HIDE DEF r
    <3> QED
        BY <1>2, <3>1, <3>2 DEF WorkType, PCs
  <2> QED
      BY <2>1, <2>2
<1> HIDE DEF r
<1>4. WorkOK(r) /\ ResumeOK(called, r)
      BY <1>3 DEF WorkOK, ResumeOK
<1>5. /\ queue' \in [Tasks -> Nat]
      /\ \A y \in Tasks : queue'[y] > 0 =>
           \/ queue[y] > 0 \/ y = work[w].task
           \/ y = ShardTask(work[w].mk, work[w].shard, Lo[work[w].shard])
  <2>1. CASE SubmissionRaises(GenerateTask, TRUE, last, w)
        BY <2>1, RaisedEffect DEF IInv
  <2>2. CASE \E lost \in BOOLEAN :
               SubmissionRaises(ShardTask(work[w].mk, work[w].shard, Lo[work[w].shard]),
                                lost, last, w)
        BY <2>2, RaisedEffect DEF IInv
  <2> QED
      BY <2>1, <2>2 DEF MakeAttemptFails
<1>6. \A x \in ShardTasks :
        queue'[x] > 0 => queue[x] > 0 \/ ReachedIn(called, x.shard, x.from)
  <2>1. work[w].shard \in Shards
        BY <1>2 DEF WorkType
  <2> QED
      BY <1>2, <1>5, <2>1, ShardTaskFields, ReachedAtLo, TaskTypes
<1>7. marker \in [Markers -> MarkerType] /\ work[w].mk \in Markers
      BY <1>2 DEF IInv, TypeOK, MarkerType, WorkType
<1>8. \A k \in Markers : /\ marker'[k] \in MarkerType
                         /\ MarkerOK(marker'[k], delete) /\ (marker[k].ready => marker'[k].ready)
  <2> TAKE k \in Markers
  <2>1. MarkerOK(marker[k], delete)
        BY DEF IInv, MarkerInv
  <2>2. marker'[k] = marker[k] \/ marker'[k] = [marker[k] EXCEPT !.state = "gone"]
    <3> HIDE DEF last
    <3> QED
        BY <1>1, <1>7 DEF MarkerType
  <2> QED
      BY <1>7, <2>1, <2>2 DEF MarkerOK, MarkerType
<1>9. marker' \in [Markers -> MarkerType]
      BY <1>1, <1>7, <1>8
<1>10. /\ faults' \in 0..MaxFaults /\ delete' = delete /\ finalized' \in [Markers -> Nat]
       /\ called' \in [Keys -> 0..2]
       BY <1>1, FaultTypes DEF IInv, TypeOK
<1> QED
    BY <1>1, <1>3, <1>4, <1>5, <1>6, <1>8, <1>9, <1>10, WorkerStep
-----------------------------------------------------------------------------
\* _process_shard (deferred.py:346-460).

\* Going on within a task for a shard, or answering.
LEMMA ShardGoto ==
  ASSUME IInv, NEW w \in Workers, work[w].task.kind = "shard",
         NEW pc \in {"iterate", "redefer", "reply"},
         Goto(w, pc), NoFault \/ \E kind \in FaultKinds : Fault(kind),
         UNCHANGED <<marker, called, finalized, queue>>,
         pc = "iterate" => marker[work[w].mk].ready
  PROVE  IInv'
<1>1. WorkOK([work[w] EXCEPT !.pc = pc])
      BY WorkFacts DEF WorkOK, WorkType
<1>2. finalized' \in [Markers -> Nat] /\ queue' \in [Tasks -> Nat]
      BY DEF IInv, TypeOK
<1>3. pc \in PCs /\ queue' = queue
      BY DEF PCs
<1> QED
    BY <1>1, <1>2, <1>3, GotoStep

LEMMA FetchKeeps == ASSUME IInv, NEW w \in Workers, Fetch(w) PROVE IInv'
<1>1. work[w].task.kind = "shard"
      BY WorkFacts DEF Fetch, At, WorkOK
<1>2. /\ NoFault /\ UNCHANGED <<marker, queue, called, finalized>>
      /\ \E pc \in {"iterate", "redefer", "reply"} :
           Goto(w, pc) /\ (pc = "iterate" => marker[work[w].mk].ready)
      BY DEF Fetch
<1> QED
    BY <1>1, <1>2, ShardGoto

LEMMA LeavesKeep ==
  ASSUME IInv, NEW w \in Workers, CallbackRaises(w) \/ GivesUp(w) \/ TimesOut(w) PROVE IInv'
<1>1. work[w].task.kind = "shard"
      BY WorkFacts DEF CallbackRaises, GivesUp, TimesOut, At, WorkOK
<1>2. CASE CallbackRaises(w)
  <2>1. CASE Fail(w)
        BY <1>2, <2>1, FailStep DEF CallbackRaises
  <2>2. CASE Goto(w, "redefer") /\ UNCHANGED queue
        BY <1>1, <1>2, <2>2, ShardGoto DEF CallbackRaises
  <2> QED
      BY <1>2, <2>1, <2>2 DEF CallbackRaises
<1>3. CASE GivesUp(w)
      BY <1>1, <1>3, ShardGoto DEF GivesUp, Fault
<1>4. CASE TimesOut(w)
      BY <1>1, <1>4, ShardGoto DEF TimesOut
<1> QED
    BY <1>2, <1>3, <1>4

\* The callback returns: what was the next instance is behind.
LEMMA CallbackReturnsKeeps == ASSUME IInv, NEW w \in Workers, CallbackReturns(w) PROVE IInv'
<1> DEFINE r == [work[w] EXCEPT !.pos = @ + 1, !.first = FALSE]
<1>1. /\ work' = [work EXCEPT ![w] = r] /\ work[w].pc = "iterate"
      /\ called' = [called EXCEPT ![work[w].pos] = AtMostTwo(@)]
      /\ NoFault /\ UNCHANGED <<marker, queue, finalized>>
      BY DEF CallbackReturns, Become, At
<1>2. /\ work[w] \in WorkType /\ work[w].task.kind = "shard"
      /\ marker[work[w].mk].ready
      BY <1>1, WorkFacts DEF WorkOK
<1>3. work[w].pos \in Nat /\ work[w].pos + 1 \in Nat
      BY <1>2 DEF WorkType
<1>4. /\ r \in WorkType /\ r.pc = "iterate" /\ r.task = work[w].task /\ r.shard = work[w].shard
      /\ r.mk = work[w].mk /\ r.pos = work[w].pos + 1
      BY <1>1, <1>2, <1>3 DEF WorkType
<1> HIDE DEF r
<1>5. called \in [Keys -> 0..2]
      BY DEF IInv, TypeOK
<1>6. \A k \in Keys : called'[k] \in 0..2 /\ (called[k] > 0 \/ k = work[w].pos => called'[k] > 0)
      BY <1>1, <1>5 DEF AtMostTwo
<1>7. called' \in [Keys -> 0..2]
      BY <1>1, <1>5, <1>6
<1>8. WorkOK(r)
      BY <1>2, <1>4 DEF WorkOK
<1>9. ResumeOK(called', r)
  <2>1. ReachedIn(called', r.task.shard, r.task.from)
        BY <1>2, <1>4, <1>6, WorkFacts, ReachedMore
  <2>2. ReachedIn(called', r.shard, r.pos)
    <3> SUFFICES ASSUME NEW k \in Keys, Lo[work[w].shard] <= k, k < work[w].pos + 1
                 PROVE  called'[k] > 0
        BY <1>4 DEF ReachedIn
    <3>1. k < work[w].pos \/ k = work[w].pos
          BY <1>3, KeyTypes
    <3>2. ReachedIn(called, work[w].shard, work[w].pos)
          BY <1>2, WorkFacts
    <3> QED
        BY <1>6, <3>1, <3>2 DEF ReachedIn
  <2> QED
      BY <2>1, <2>2 DEF ResumeOK
<1>10. /\ faults' \in 0..MaxFaults /\ delete' = delete /\ finalized' \in [Markers -> Nat]
       /\ queue' \in [Tasks -> Nat] /\ marker' \in [Markers -> MarkerType]
       BY <1>1, FaultTypes DEF IInv, TypeOK, MarkerType
<1>11. \A m \in Markers : MarkerOK(marker'[m], delete) /\ (marker[m].ready => marker'[m].ready)
       BY <1>1 DEF IInv, MarkerInv
<1> QED
    BY <1>1, <1>2, <1>4, <1>6, <1>7, <1>8, <1>9, <1>10, <1>11, WorkerStep

\* The next task starts where this one stopped.
LEMMA RedeferKeeps == ASSUME IInv, NEW w \in Workers, Redefer(w) \/ RedeferFails(w) PROVE IInv'
<1> DEFINE x == ShardTask(work[w].mk, work[w].shard, work[w].pos)
<1>1. /\ work[w].task.kind = "shard" /\ work[w].task \in ShardTasks
      /\ ReachedIn(called, work[w].task.shard, work[w].task.from)
      /\ ReachedIn(called, work[w].shard, work[w].pos)
      BY WorkFacts DEF Redefer, RedeferFails, At, WorkOK
<1>2. \A y : y = x => ReachedIn(called, y.shard, y.from)
      BY <1>1, ShardTaskFields
<1> HIDE DEF x
<1>3. CASE Redefer(w)
  <2>1. /\ queue' \in [Tasks -> Nat]
        /\ \A y \in ShardTasks :
             queue'[y] > 0 => queue[y] > 0 \/ ReachedIn(called, y.shard, y.from)
        BY <1>2, <1>3, QueuedEffect, TaskTypes DEF Redefer, IInv, x
  <2>2. WorkOK([work[w] EXCEPT !.pc = "reply"])
        BY WorkFacts DEF WorkOK, WorkType
  <2>3. finalized' \in [Markers -> Nat]
        BY <1>3 DEF Redefer, IInv, TypeOK
  <2> QED
      BY <1>3, <2>1, <2>2, <2>3, GotoStep DEF Redefer, PCs
<1>4. CASE RedeferFails(w)
  <2>1. /\ work' = [work EXCEPT ![w] = Idle] /\ UNCHANGED <<marker, called, finalized>>
        /\ \E kind \in FaultKinds : Fault(kind)
        BY <1>4 DEF RedeferFails, Become, Fault
  <2>2. /\ queue' \in [Tasks -> Nat]
        /\ \A y \in Tasks : queue'[y] > 0 => queue[y] > 0 \/ y = work[w].task \/ y = x
    <3>1. PICK lost \in BOOLEAN : SubmissionRaises(x, lost, TRUE, w)
          BY <1>4 DEF RedeferFails, x
    <3> QED
        BY <3>1, RaisedEffect DEF IInv
  <2>3. \A y \in ShardTasks :
          queue'[y] > 0 => queue[y] > 0 \/ ReachedIn(called, y.shard, y.from)
        BY <1>1, <1>2, <2>2, TaskTypes
  <2>4. faults' \in 0..MaxFaults /\ delete' = delete /\ finalized' \in [Markers -> Nat]
        BY <2>1, FaultTypes DEF IInv, TypeOK
  <2>5. WorkOK(Idle) /\ ResumeOK(called, Idle)
        BY IdleType DEF WorkOK, ResumeOK
  <2> QED
      BY <2>1, <2>2, <2>3, <2>4, <2>5, IdleType, QuietStep
<1> QED
    BY <1>3, <1>4

LEMMA EndIterationKeeps == ASSUME IInv, NEW w \in Workers, EndIteration(w) PROVE IInv'
<1>1. /\ work[w] \in WorkType /\ work[w].task.kind = "shard" /\ marker[work[w].mk].ready
      /\ ~(work[w].pos <= Hi[work[w].shard])
      BY WorkFacts DEF EndIteration, At, WorkOK, HasNext
<1>2. work[w].pos > 0
  <2>1. work[w].pos \in Nat /\ work[w].shard \in Shards
        BY <1>1 DEF WorkType
  <2>2. Hi[work[w].shard] \in Nat
        BY <2>1, KeyTypes
  <2> QED
      BY <1>1, <2>1, <2>2
<1>3. WorkOK([work[w] EXCEPT !.pc = "mark"])
      BY <1>1, <1>2 DEF WorkOK, WorkType
<1>4. finalized' \in [Markers -> Nat] /\ queue' \in [Tasks -> Nat] /\ queue' = queue
      BY DEF EndIteration, IInv, TypeOK
<1> QED
    BY <1>1, <1>3, <1>4, GotoStep DEF EndIteration, PCs

LEMMA SubmitFinalizeKeeps == ASSUME IInv, NEW w \in Workers, SubmitFinalize(w) PROVE IInv'
<1>1. work[w].mk \in Markers
      BY WorkFacts DEF WorkType
<1>2. /\ queue' \in [Tasks -> Nat]
      /\ \A y \in ShardTasks : queue'[y] > 0 => queue[y] > 0
      BY <1>1, QueuedEffect, TaskTypes DEF SubmitFinalize, IInv
<1>3. WorkOK([work[w] EXCEPT !.pc = "reply"])
      BY WorkFacts DEF WorkOK, WorkType
<1>4. finalized' \in [Markers -> Nat]
      BY DEF SubmitFinalize, IInv, TypeOK
<1> QED
    BY <1>2, <1>3, <1>4, GotoStep DEF SubmitFinalize, PCs

LEMMA MarkCompleteKeeps == ASSUME IInv, NEW w \in Workers, MarkComplete(w) PROVE IInv'
<1> DEFINE m == work[w].mk
           pc == IF marker[m].state = "live" /\ AllComplete(marker[m])
                 THEN "submitFinalize" ELSE "reply"
           r == [work[w] EXCEPT !.pc = pc]
<1>1. /\ work[w] \in WorkType /\ work[w].task.kind = "shard" /\ marker[m].ready
      /\ work[w].pos > 0 /\ m \in Markers
      /\ NoFault /\ UNCHANGED <<queue, called, finalized>>
      BY WorkFacts DEF MarkComplete, At, WorkOK, WorkType
<1>2. work' = [work EXCEPT ![w] = r]
      BY DEF MarkComplete, Goto, Become
<1>3. pc \in {"submitFinalize", "reply"}
      OBVIOUS
<1> HIDE DEF pc
<1>4. /\ r \in WorkType /\ r.pc = pc /\ r.task = work[w].task /\ r.shard = work[w].shard
      /\ r.pos = work[w].pos /\ r.mk = m
      BY <1>1, <1>3 DEF WorkType, PCs
<1> HIDE DEF r
<1>5. WorkOK(r) /\ ResumeOK(called, r)
      BY <1>1, <1>3, <1>4, WorkFacts DEF WorkOK, ResumeOK
<1>6. marker \in [Markers -> MarkerType] /\ MarkerOK(marker[m], delete)
      BY <1>1 DEF IInv, TypeOK, MarkerType, MarkerInv
<1>7. \A k \in Markers : MarkerOK(marker[k], delete)
      BY DEF IInv, MarkerInv
<1>8. /\ marker' \in [Markers -> MarkerType]
      /\ \A k \in Markers : MarkerOK(marker'[k], delete) /\ (marker[k].ready => marker'[k].ready)
  <2>1. CASE UNCHANGED marker
        BY <1>6, <1>7, <2>1
  <2>2. CASE /\ marker[m].state = "live"
             /\ marker' = [marker EXCEPT
                  ![m].complete = @ + 1,
                  ![m].state = IF AllComplete(marker[m]) /\ delete THEN "gone" ELSE @]
    <3> DEFINE new == [marker[m] EXCEPT !.complete = @ + 1,
                         !.state = IF AllComplete(marker[m]) /\ delete THEN "gone" ELSE @]
    <3>1. marker' = [marker EXCEPT ![m] = new]
          BY <1>1, <1>6, <2>2
    <3>2. /\ marker[m].complete \in Nat /\ marker[m].count \in Nat
          /\ marker[m].complete + 1 \in Nat
          BY <1>1, <1>6 DEF MarkerType
    <3>3. /\ new \in MarkerType /\ new.ready = marker[m].ready /\ new.count = marker[m].count
          /\ new.complete = marker[m].complete + 1
          /\ new.state = IF AllComplete(marker[m]) /\ delete THEN "gone" ELSE marker[m].state
      <4>1. PICK s \in {"gone", marker[m].state} :
              s = IF AllComplete(marker[m]) /\ delete THEN "gone" ELSE marker[m].state
            OBVIOUS
      <4>2. new = [marker[m] EXCEPT !.complete = marker[m].complete + 1, !.state = s]
            BY <4>1
      <4>3. marker[m] \in MarkerType
            BY <1>1, <1>6
      <4> HIDE DEF new, m
      <4> QED
          BY <3>2, <4>1, <4>2, <4>3 DEF MarkerType
    <3> HIDE DEF new
    <3>4. MarkerOK(new, delete)
          BY <1>1, <1>6, <2>2, <3>2, <3>3 DEF MarkerOK, AllComplete
    <3> HIDE DEF m
    <3> QED
        BY <1>1, <1>6, <1>7, <3>1, <3>3, <3>4
  <2> QED
      BY <2>1, <2>2 DEF MarkComplete
<1>9. r.pc \in {"iterate", "mark", "submitFinalize"} => marker'[r.mk].ready
      BY <1>1, <1>4, <1>8
<1>10. /\ faults' \in 0..MaxFaults /\ delete' = delete /\ finalized' \in [Markers -> Nat]
       /\ queue' \in [Tasks -> Nat] /\ called' \in [Keys -> 0..2]
       BY <1>1, FaultTypes DEF IInv, TypeOK
<1> QED
    BY <1>1, <1>2, <1>4, <1>5, <1>8, <1>9, <1>10, WorkerStep

\* A failed attempt goes back to an instance that is behind, or tries again.
LEMMA MarkAttemptFailsKeeps == ASSUME IInv, NEW w \in Workers, MarkAttemptFails(w) PROVE IInv'
<1> DEFINE m == work[w].mk
           last == OutOfAttempts(w, MarkAttempts)
           raised == last /\ work[w].first
<1>1. PICK keyLost \in {FALSE, AllComplete(marker[m]) /\ delete} :
        /\ \/ SubmissionRaises(GenerateTask, TRUE, raised, w)
           \/ \E lost \in BOOLEAN : SubmissionRaises(FinalizeTask(m), lost, raised, w)
        /\ Become(w, IF ~last /\ keyLost THEN [work[w] EXCEPT !.pc = "reply"]
                     ELSE IF ~last THEN [work[w] EXCEPT !.pc = "mark", !.tries = @ + 1]
                     ELSE IF raised THEN Idle
                     ELSE [work[w] EXCEPT !.pc = "redefer", !.pos = @ - 1, !.tries = 0])
        /\ \E kind \in FaultKinds : Fault(kind)
      BY DEF MarkAttemptFails, Fault
<1>2. /\ work[w] \in WorkType /\ work[w].task.kind = "shard" /\ marker[m].ready
      /\ work[w].pos > 0 /\ m \in Markers /\ work[w].task \in ShardTasks
      /\ ReachedIn(called, work[w].task.shard, work[w].task.from)
      /\ ReachedIn(called, work[w].shard, work[w].pos)
      BY WorkFacts DEF MarkAttemptFails, At, WorkOK, WorkType
<1>3. UNCHANGED <<marker, called, finalized>>
      BY DEF MarkAttemptFails
<1>4. /\ queue' \in [Tasks -> Nat]
      /\ \A y \in Tasks : queue'[y] > 0 =>
           queue[y] > 0 \/ y = work[w].task \/ y = FinalizeTask(m)
  <2> HIDE DEF raised
  <2>1. CASE SubmissionRaises(GenerateTask, TRUE, raised, w)
        BY <2>1, RaisedEffect DEF IInv
  <2>2. CASE \E lost \in BOOLEAN : SubmissionRaises(FinalizeTask(m), lost, raised, w)
        BY <2>2, RaisedEffect DEF IInv
  <2> QED
      BY <1>1, <2>1, <2>2
<1>5. \A x \in ShardTasks :
        queue'[x] > 0 => queue[x] > 0 \/ ReachedIn(called, x.shard, x.from)
      BY <1>2, <1>4, TaskTypes
<1>6. PICK r \in { [work[w] EXCEPT !.pc = "reply"],
                   [work[w] EXCEPT !.pc = "mark", !.tries = @ + 1],
                   Idle,
                   [work[w] EXCEPT !.pc = "redefer", !.pos = @ - 1, !.tries = 0] } :
        work' = [work EXCEPT ![w] = r]
      BY <1>1 DEF Become
<1>7. /\ work[w].pos \in Nat /\ work[w].pos - 1 \in Nat /\ work[w].tries + 1 \in Nat
      BY <1>2 DEF WorkType
<1>8. ReachedIn(called, work[w].shard, work[w].pos - 1)
      BY <1>2, <1>7, KeyTypes DEF ReachedIn
<1>9. r \in WorkType /\ WorkOK(r) /\ ResumeOK(called, r) /\ (r.pc = "mark" => r.mk = m)
      /\ r.pc \notin {"iterate", "submitFinalize"}
  <2>1. CASE r = [work[w] EXCEPT !.pc = "reply"]
    <3>1. /\ r \in WorkType /\ r.pc = "reply" /\ r.task = work[w].task
          /\ r.shard = work[w].shard /\ r.pos = work[w].pos
          BY <1>2, <2>1 DEF WorkType, PCs
    <3> QED
        BY <1>2, <3>1 DEF WorkOK, ResumeOK
  <2>2. CASE r = [work[w] EXCEPT !.pc = "mark", !.tries = @ + 1]
    <3>1. /\ r \in WorkType /\ r.pc = "mark" /\ r.task = work[w].task
          /\ r.shard = work[w].shard /\ r.pos = work[w].pos /\ r.mk = m
          BY <1>2, <1>7, <2>2 DEF WorkType, PCs
    <3> QED
        BY <1>2, <3>1 DEF WorkOK, ResumeOK
  <2>3. CASE r = Idle
        BY <2>3, IdleType DEF WorkOK, ResumeOK
  <2>4. CASE r = [work[w] EXCEPT !.pc = "redefer", !.pos = @ - 1, !.tries = 0]
    <3>1. /\ r \in WorkType /\ r.pc = "redefer" /\ r.task = work[w].task
          /\ r.shard = work[w].shard /\ r.pos = work[w].pos - 1
          BY <1>2, <1>7, <2>4 DEF WorkType, PCs
    <3> QED
        BY <1>2, <1>8, <3>1 DEF WorkOK, ResumeOK
  <2> QED
      BY <1>6, <2>1, <2>2, <2>3, <2>4
<1>10. faults' \in 0..MaxFaults /\ delete' = delete /\ finalized' \in [Markers -> Nat]
       BY <1>1, <1>3, FaultTypes DEF IInv, TypeOK
<1> HIDE DEF m
<1> QED
    BY <1>2, <1>3, <1>4, <1>5, <1>6, <1>9, <1>10, QuietStep DEF m
-----------------------------------------------------------------------------
\* Workers interleave as they like, and what can fail fails, without harm to the
\* invariant (deferred.py:346-521).
THEOREM IInvHolds == Spec => []IInv
<1>1. ASSUME IInv, [Next]_vars PROVE IInv'
  <2>1. ASSUME NEW w \in Workers, NEW x \in Tasks, Deliver(w, x) PROVE IInv'
        BY <1>1, <2>1, DeliverKeeps
  <2>2. ASSUME NEW w \in Workers, Progress(w) PROVE IInv'
        BY <1>1, <2>2, ReplyKeeps, FinalizeKeeps, CreateMarkerKeeps, MakeShardKeeps,
           SubmitShardKeeps, FetchKeeps, CallbackReturnsKeeps, RedeferKeeps, EndIterationKeeps,
           MarkCompleteKeeps, SubmitFinalizeKeeps DEF Progress
  <2>3. ASSUME NEW w \in Workers, Setback(w) PROVE IInv'
        BY <1>1, <2>3, FinalizeKeeps, LeavesKeep, MakeAttemptFailsKeeps, RedeferKeeps,
           MarkAttemptFailsKeeps DEF Setback
  <2>4. CASE UNCHANGED vars
        BY <1>1, <2>4 DEF vars, IInv, TypeOK, ControlInv, ResumeInv, MarkerInv
  <2> QED
      BY <1>1, <2>1, <2>2, <2>3, <2>4 DEF Next
<1> QED
    BY InitIInv, <1>1, PTL DEF Spec

\* Whatever crashes, fails or is repeated, a task resumes from a key only when
\* every earlier instance of its shard has been through the callback
\* (deferred.py:384-389, 432-458).
THEOREM ResumesBehindProcessed == Spec => []ResumePointSafe
<1>1. ASSUME IInv PROVE ResumePointSafe
  <2>1. ASSUME NEW w \in Workers, work[w].task.kind = "shard"
        PROVE  ReachedIn(called, work[w].shard, work[w].pos)
        BY <1>1, <2>1, WorkFacts
  <2> QED
      BY <1>1, <2>1 DEF IInv, ResumeInv, ReachedIn, ResumePointSafe, Processed
<1> QED
    BY IInvHolds, <1>1, PTL

\* A marker to be deleted on completion is gone as soon as its counts are equal:
\* however counts are repeated by retries, equality is not jumped over
\* (deferred.py:409-430, 498-503).
THEOREM DeletedWhenFinished == Spec => []KeptOnlyWhileUnfinished
<1>1. ASSUME IInv PROVE KeptOnlyWhileUnfinished
  <2> SUFFICES ASSUME delete, NEW m \in Markers, marker[m].state = "live", marker[m].ready
               PROVE  marker[m].count # marker[m].complete
      BY DEF KeptOnlyWhileUnfinished, IsFinished
  <2>1. MarkerOK(marker[m], delete) /\ marker[m].count \in Nat /\ marker[m].complete \in Nat
        BY <1>1 DEF IInv, MarkerInv, TypeOK
  <2> QED
      BY <2>1 DEF MarkerOK
<1> QED
    BY IInvHolds, <1>1, PTL
-----------------------------------------------------------------------------
\* As long as there is no fault: one generator, and one task for each shard.

Generating(w) == work[w].pc \in {"create", "make", "submitShard"}
CarryingPCs == {"fetch", "iterate", "redefer", "mark"}

\* Where the rest of shard i is waiting to be done: the parts of its Chains.
Waiting(i) == {x \in ShardTasks : x.shard = i /\ queue[x] > 0}
Carrying(i) == {w \in Workers : work[w].pc \in CarryingPCs /\ work[w].shard = i}
Busy == {i \in Shards : Waiting(i) # {} \/ Carrying(i) # {}}

\* No task has been queued for shard i yet.
Pending(i) ==
  queue[GenerateTask] > 0 \/ \E w \in Workers : Generating(w) /\ work[w].shard <= i
Submitting == \E w \in Workers : work[w].pc = "submitShard"

\* The callback has run once on each instance of shard i before key p, and not
\* on the others.
CalledUpTo(i, p) == \A k \in KeysOf(i) : called[k] = IF k < p THEN 1 ELSE 0

\* finalize is queued, about to be, running or done.
Underway ==
  \/ queue[FinalizeTask(1)] > 0 \/ finalized[1] > 0
  \/ \E w \in Workers : work[w].pc \in {"submitFinalize", "finalize"}

\* There is one generator at a time, and one marker.
GeneratorInv ==
  /\ \A m \in Markers : m # 1 => marker[m].state = "unused"
  /\ queue[GenerateTask] <= 1
  /\ \A w, v \in Workers : Generating(w) /\ Generating(v) => w = v
  /\ queue[GenerateTask] > 0 => \A w \in Workers : ~Generating(w)
  /\ marker[1].state = "unused" <=>
       queue[GenerateTask] > 0 \/ \E w \in Workers : work[w].pc = "create"
  /\ \A w \in Workers :
       /\ Generating(w) => work[w].mk = 1
       /\ work[w].pc = "create" => work[w].shard = 1
       /\ work[w].pc = "make" => marker[1].state = "live" /\ ~marker[1].ready
       /\ work[w].pc = "submitShard" =>
            marker[1].state = "live" /\ (marker[1].ready => work[w].shard = ShardCount)

\* A task for shard i may start at key p.
CanStart(i, p) == p = Lo[i] \/ (Lo[i] <= p /\ p <= Hi[i])

\* What a worker has in hand is what its task asks for.
TaskOK(r) ==
  /\ r.pc \in CarryingPCs => /\ r.mk = 1 /\ r.task.marker = 1 /\ r.task.shard = r.shard
                             /\ r.first => r.pos = r.task.from
                             /\ Lo[r.shard] <= r.pos
  /\ r.pc \in {"fetch", "redefer"} => CanStart(r.shard, r.pos)
  /\ r.pc = "mark" => Hi[r.shard] < r.pos
  /\ r.pc \in {"submitFinalize", "finalize"} => r.mk = 1
  /\ r.pc = "finalize" => r.task = FinalizeTask(1)
TasksInv ==
  /\ \A w \in Workers : TaskOK(work[w])
  /\ \A x \in ShardTasks : /\ queue[x] <= 1
                           /\ queue[x] > 0 => x.marker = 1 /\ CanStart(x.shard, x.from)
  /\ \A m \in Markers : queue[FinalizeTask(m)] > 0 \/ finalized[m] > 0 => m = 1

\* A shard waits at one place, where its instances have been processed up to.
ShardInv(i) ==
  /\ \A x, y \in Waiting(i) : x = y
  /\ \A w, v \in Carrying(i) : w = v
  /\ Waiting(i) = {} \/ Carrying(i) = {}
  /\ Pending(i) => i \notin Busy /\ CalledUpTo(i, 0)
  /\ \A x \in Waiting(i) : CalledUpTo(i, x.from)
  /\ \A w \in Carrying(i) : CalledUpTo(i, work[w].pos)
  /\ ~Pending(i) /\ i \notin Busy => CalledUpTo(i, Hi[i] + 1)
ShardsInv == \A i \in Shards : ShardInv(i)

\* The marker counts the shards that are not complete.
CountInv ==
  /\ marker[1].state = "unused" => marker[1].count = 0 /\ marker[1].complete = 0
  /\ marker[1].state = "live" =>
       marker[1].count - marker[1].complete
         = Cardinality(Busy) + (IF Submitting THEN 1 ELSE 0)

\* finalize comes when nothing else is left, and then it comes.
FinalizeInv ==
  /\ Underway => Busy = {} /\ \A i \in Shards : ~Pending(i)
  /\ marker[1].state = "gone" => Underway
  /\ marker[1].state # "unused" =>
       Busy # {} \/ Underway \/ \E w \in Workers : Generating(w)

Faultless == GeneratorInv /\ TasksInv /\ ShardsInv /\ CountInv /\ FinalizeInv
FaultlessInv == Undisturbed => Faultless
-----------------------------------------------------------------------------
\* Tasks of different kinds, markers and shards are different tasks.
LEMMA TaskKinds ==
  /\ GenerateTask \notin ShardTasks
  /\ \A m \in Markers : FinalizeTask(m) \notin ShardTasks /\ FinalizeTask(m) # GenerateTask
  /\ \A m, n \in Markers : FinalizeTask(m) = FinalizeTask(n) => m = n
  /\ \A x \in Tasks : x.kind = "generate" => x = GenerateTask
  /\ \A x \in Tasks : x.kind = "finalize" => x = FinalizeTask(x.marker)
<1>1. \A m \in Markers : FinalizeTask(m).kind = "finalize" /\ FinalizeTask(m).marker = m
      BY DEF FinalizeTask
<1>2. \A x \in ShardTasks : x.kind = "shard"
      BY TaskTypes
<1>3. GenerateTask.kind = "generate"
      BY DEF GenerateTask
<1> QED
    BY <1>1, <1>2, <1>3 DEF Tasks

\* A shard's task from its first key, or from the key of an instance.
LEMMA ShardTaskType ==
  ASSUME NEW i \in Shards, NEW p \in Nat, CanStart(i, p)
  PROVE  /\ ShardTask(1, i, p) \in ShardTasks
         /\ ShardTask(1, i, p).marker = 1 /\ ShardTask(1, i, p).shard = i
         /\ ShardTask(1, i, p).from = p
<1>1. p \in Keys \cup {Lo[j] : j \in Shards}
      BY KeyTypes DEF CanStart, Keys, KeysOf
<1> QED
    BY <1>1, KeyTypes DEF ShardTasks, ShardTask

\* Shards are disjoint.
LEMMA KeysApart ==
  ASSUME NEW i \in Shards, NEW j \in Shards, i # j, NEW k \in KeysOf(j)
  PROVE  k \in Keys /\ k \notin KeysOf(i)
BY RangesAssumption DEF Keys

LEMMA WorkAfter ==
  ASSUME IInv, NEW w \in Workers, NEW r, work' = [work EXCEPT ![w] = r]
  PROVE  \A u \in Workers : work'[u] = IF u = w THEN r ELSE work[u]
BY DEF IInv, TypeOK

\* What is busy can be counted.
LEMMA BusyFinite == IsFiniteSet(Busy) /\ Cardinality(Busy) \in Nat
<1>1. IsFiniteSet(Shards)
      BY FS_Interval, CountsAssumption DEF Shards
<1>2. Busy \in SUBSET Shards
      BY DEF Busy
<1> QED
    BY <1>1, <1>2, FS_Subset, FS_CardinalityType

\* A step that does not concern shard j leaves it where it is.
LEMMA ShardKept ==
  ASSUME IInv, NEW w \in Workers, NEW r, work' = [work EXCEPT ![w] = r],
         NEW j \in Shards, ShardInv(j),
         work[w].pc \in CarryingPCs => work[w].shard # j,
         r.pc \in CarryingPCs => r.shard # j,
         \A x \in ShardTasks : x.shard = j => queue'[x] = queue[x],
         \A k \in KeysOf(j) : called'[k] = called[k],
         Pending(j)' <=> Pending(j)
  PROVE  ShardInv(j)' /\ (j \in Busy' <=> j \in Busy)
<1>1. Waiting(j)' = Waiting(j)
      BY DEF Waiting
<1>2. Carrying(j)' = Carrying(j) /\ \A v \in Carrying(j) : work'[v] = work[v]
      BY WorkAfter DEF Carrying
<1>3. j \in Busy' <=> j \in Busy
      BY <1>1, <1>2 DEF Busy
<1>4. \A p : CalledUpTo(j, p)' <=> CalledUpTo(j, p)
      BY DEF CalledUpTo
<1> QED
    BY <1>1, <1>2, <1>3, <1>4 DEF ShardInv

\* A worker that is not the generator leaves the generator alone.
LEMMA GeneratorKept ==
  ASSUME IInv, GeneratorInv, NEW w \in Workers, NEW r, work' = [work EXCEPT ![w] = r],
         ~Generating(w), r.pc \notin {"create", "make", "submitShard"},
         queue'[GenerateTask] = queue[GenerateTask], UNCHANGED marker
  PROVE  /\ GeneratorInv' /\ (Submitting' <=> Submitting)
         /\ \A j \in Shards : Pending(j)' <=> Pending(j)
         /\ (\E v \in Workers : Generating(v)') <=> (\E v \in Workers : Generating(v))
<1>1. \A u \in Workers : work'[u] = IF u = w THEN r ELSE work[u]
      BY WorkAfter
<1>2. \A u \in Workers : Generating(u)' <=> Generating(u)
      BY <1>1 DEF Generating
<1>3. \A u \in Workers : Generating(u) => work'[u] = work[u]
      BY <1>1
<1>4. \A u \in Workers, pc \in {"create", "make", "submitShard"} :
        work'[u].pc = pc <=> work[u].pc = pc
      BY <1>1, <1>2 DEF Generating
<1>5. GeneratorInv'
      BY <1>2, <1>3, <1>4 DEF GeneratorInv, Generating
<1> QED
    BY <1>2, <1>3, <1>4, <1>5 DEF Submitting, Pending

\* A step that neither starts nor completes a shard, nor writes a marker.
LEMMA PlainStep ==
  ASSUME IInv, Faultless, NEW w \in Workers, NEW r, work' = [work EXCEPT ![w] = r],
         ~Generating(w), r.pc \notin {"create", "make", "submitShard"},
         queue'[GenerateTask] = queue[GenerateTask], UNCHANGED marker,
         TasksInv', ShardsInv', Busy' = Busy, Underway' <=> Underway
  PROVE  Faultless'
<1>1. /\ GeneratorInv' /\ (Submitting' <=> Submitting)
      /\ \A j \in Shards : Pending(j)' <=> Pending(j)
      /\ (\E v \in Workers : Generating(v)') <=> (\E v \in Workers : Generating(v))
      BY GeneratorKept DEF Faultless
<1>2. CountInv'
      BY <1>1 DEF Faultless, CountInv
<1>3. FinalizeInv'
      BY <1>1 DEF Faultless, FinalizeInv
<1> QED
    BY <1>1, <1>2, <1>3 DEF Faultless

\* The same, of a step that concerns no shard.
LEMMA AsideStep ==
  ASSUME IInv, Faultless, NEW w \in Workers, NEW r, work' = [work EXCEPT ![w] = r],
         ~Generating(w), r.pc \notin {"create", "make", "submitShard"},
         work[w].pc \notin CarryingPCs, r.pc \notin CarryingPCs, TaskOK(r),
         queue'[GenerateTask] = queue[GenerateTask], UNCHANGED <<marker, called>>,
         \A x \in ShardTasks : queue'[x] = queue[x],
         \A m \in Markers : queue'[FinalizeTask(m)] > 0 \/ finalized'[m] > 0 => m = 1,
         Underway' <=> Underway
  PROVE  Faultless'
<1>1. \A j \in Shards : Pending(j)' <=> Pending(j)
      BY GeneratorKept DEF Faultless
<1>2. \A j \in Shards : ShardInv(j)' /\ (j \in Busy' <=> j \in Busy)
      BY <1>1, ShardKept DEF Faultless, ShardsInv
<1>3. Busy' = Busy
      BY <1>2 DEF Busy
<1>4. TasksInv'
      BY WorkAfter DEF Faultless, TasksInv
<1> QED
    BY <1>2, <1>3, <1>4, PlainStep DEF ShardsInv

\* The same, of a step that moves shard i on.
LEMMA MoveStep ==
  ASSUME IInv, Faultless, NEW w \in Workers, NEW r, work' = [work EXCEPT ![w] = r],
         NEW i \in Shards,
         ~Generating(w), r.pc \notin {"create", "make", "submitShard"},
         work[w].pc \in CarryingPCs => work[w].shard = i,
         r.pc \in CarryingPCs => r.shard = i, TaskOK(r),
         work[w].pc \notin {"submitFinalize", "finalize"},
         r.pc \notin {"submitFinalize", "finalize"},
         \A x \in Tasks : queue'[x] = queue[x] \/ (x \in ShardTasks /\ x.shard = i),
         \A x \in ShardTasks : /\ queue'[x] <= 1
                               /\ queue'[x] > 0 => x.marker = 1 /\ CanStart(x.shard, x.from),
         UNCHANGED <<marker, finalized>>,
         \A k \in Keys : called'[k] = called[k] \/ k \in KeysOf(i),
         i \in Busy, i \in Busy', ShardInv(i)'
  PROVE  Faultless'
<1>1. /\ queue'[GenerateTask] = queue[GenerateTask]
      /\ \A m \in Markers : queue'[FinalizeTask(m)] = queue[FinalizeTask(m)]
      BY TaskTypes, TaskKinds
<1>2. \A j \in Shards : Pending(j)' <=> Pending(j)
      BY <1>1, GeneratorKept DEF Faultless
<1>3. ASSUME NEW j \in Shards, j # i PROVE ShardInv(j)' /\ (j \in Busy' <=> j \in Busy)
  <2>1. \A x \in ShardTasks : x.shard = j => queue'[x] = queue[x]
        BY <1>3, TaskTypes
  <2>2. \A k \in KeysOf(j) : called'[k] = called[k]
        BY <1>3, KeysApart
  <2>3. ShardInv(j)
        BY DEF Faultless, ShardsInv
  <2>4. /\ work[w].pc \in CarryingPCs => work[w].shard # j
        /\ r.pc \in CarryingPCs => r.shard # j
        BY <1>3
  <2> QED
      BY <1>2, <2>1, <2>2, <2>3, <2>4, ShardKept
<1>4. ShardsInv' /\ Busy' = Busy
  <2>1. \A j \in Shards : j \in Busy' <=> j \in Busy
        BY <1>3
  <2> QED
      BY <1>3, <2>1 DEF ShardsInv, Busy
<1>5. TasksInv'
      BY <1>1, WorkAfter DEF Faultless, TasksInv
<1>6. Underway' <=> Underway
  <2>1. \A u \in Workers : work'[u].pc \in {"submitFinalize", "finalize"}
                             <=> work[u].pc \in {"submitFinalize", "finalize"}
        BY WorkAfter
  <2> QED
      BY <1>1, <2>1, KeyTypes DEF Underway
<1> QED
    BY <1>1, <1>4, <1>5, <1>6, PlainStep
-----------------------------------------------------------------------------
\* At first the generator's task is queued, and that is all (deferred.py:524-541).
LEMMA InitFaultless == Init => Faultless
<1> SUFFICES ASSUME Init PROVE Faultless
    OBVIOUS
<1>1. /\ \A w \in Workers : work[w] = Idle
      /\ \A x \in Tasks : queue[x] = IF x = GenerateTask THEN 1 ELSE 0
      /\ \A m \in Markers : /\ marker[m].state = "unused" /\ ~marker[m].ready
                            /\ marker[m].count = 0 /\ marker[m].complete = 0
                            /\ finalized[m] = 0
      BY DEF Init
<1>2. \A w \in Workers : work[w].pc = "idle" /\ ~Generating(w)
      BY <1>1, IdleType DEF Generating
<1>3. \A x \in ShardTasks : queue[x] = 0
      BY <1>1, TaskTypes, TaskKinds
<1>4. queue[GenerateTask] = 1 /\ \A m \in Markers : queue[FinalizeTask(m)] = 0
      BY <1>1, TaskTypes, TaskKinds
<1>5. \A i \in Shards : Pending(i) /\ Waiting(i) = {} /\ Carrying(i) = {} /\ CalledUpTo(i, 0)
  <2> TAKE i \in Shards
  <2>1. Pending(i) /\ Waiting(i) = {} /\ Carrying(i) = {}
        BY <1>2, <1>3, <1>4 DEF Pending, Waiting, Carrying, CarryingPCs
  <2>2. \A k \in KeysOf(i) : called[k] = 0 /\ ~(k < 0)
    <3> TAKE k \in KeysOf(i)
    <3>1. k \in Keys /\ k \in Nat
          BY KeyTypes DEF Keys
    <3> QED
        BY <3>1 DEF Init
  <2> QED
      BY <2>1, <2>2 DEF CalledUpTo
<1>6. Busy = {} /\ \A i \in Shards : i \notin Busy
      BY <1>5 DEF Busy
<1>7. GeneratorInv
      BY <1>1, <1>2, <1>4, KeyTypes DEF GeneratorInv, Generating
<1>8. TasksInv
      BY <1>1, <1>2, <1>3, <1>4 DEF TasksInv, TaskOK, CarryingPCs
<1>9. ShardsInv
      BY <1>5, <1>6 DEF ShardsInv, ShardInv
<1>10. CountInv
      BY <1>1, KeyTypes DEF CountInv
<1>11. FinalizeInv
      BY <1>1, <1>2, <1>4, KeyTypes DEF FinalizeInv, Underway
<1> QED
    BY <1>7, <1>8, <1>9, <1>10, <1>11 DEF Faultless

\* What is known of a worker that processes a shard.
LEMMA OwnShard ==
  ASSUME IInv, Faultless, NEW w \in Workers, work[w].pc \in CarryingPCs
  PROVE  LET i == work[w].shard IN
         /\ i \in Shards /\ i \in Busy /\ Carrying(i) = {w} /\ Waiting(i) = {}
         /\ CalledUpTo(i, work[w].pos) /\ ~Pending(i) /\ ~Generating(w)
         /\ work[w].pos \in Nat /\ Lo[i] <= work[w].pos
         /\ work[w].task \in ShardTasks /\ work[w].task.shard = i /\ work[w].task.marker = 1
         /\ work[w].mk = 1
         /\ work[w].first => work[w].pos = work[w].task.from
<1> DEFINE i == work[w].shard
<1>1. /\ work[w] \in WorkType /\ work[w].task \in ShardTasks /\ TaskOK(work[w])
      BY WorkFacts DEF WorkOK, CarryingPCs, Faultless, TasksInv
<1>2. i \in Shards /\ work[w].pos \in Nat
      BY <1>1 DEF WorkType
<1>3. w \in Carrying(i) /\ i \in Busy /\ ShardInv(i)
      BY <1>2 DEF Carrying, Busy, Faultless, ShardsInv
<1>4. Carrying(i) = {w} /\ Waiting(i) = {} /\ CalledUpTo(i, work[w].pos) /\ ~Pending(i)
      BY <1>3 DEF ShardInv
<1>5. ~Generating(w)
      BY DEF Generating, CarryingPCs
<1> QED
    BY <1>1, <1>2, <1>3, <1>4, <1>5 DEF TaskOK

\* A worker goes on with its shard.
LEMMA WithinStep ==
  ASSUME IInv, Faultless, NEW w \in Workers, NEW r, work' = [work EXCEPT ![w] = r],
         work[w].pc \in CarryingPCs, NEW i, i = work[w].shard,
         r.pc \in CarryingPCs, r.shard = i, TaskOK(r),
         UNCHANGED <<marker, queue, finalized>>,
         \A k \in Keys : called'[k] = called[k] \/ k \in KeysOf(i),
         CalledUpTo(i, r.pos)'
  PROVE  Faultless'
<1>1. /\ i \in Shards /\ i \in Busy /\ Carrying(i) = {w} /\ Waiting(i) = {}
      /\ ~Pending(i) /\ ~Generating(w) /\ work[w].pc \notin {"submitFinalize", "finalize"}
      BY OwnShard DEF CarryingPCs
<1>2. r.pc \notin {"create", "make", "submitShard", "submitFinalize", "finalize"}
      BY DEF CarryingPCs
<1>3. \A u \in Workers : work'[u] = IF u = w THEN r ELSE work[u]
      BY WorkAfter
<1>4. Waiting(i)' = {} /\ Carrying(i)' = {w} /\ i \in Busy' /\ work'[w] = r
      BY <1>1, <1>3 DEF Waiting, Carrying, Busy
<1>5. Pending(i)' <=> Pending(i)
      BY <1>1, <1>2, GeneratorKept DEF Faultless
<1>7. ShardInv(i)'
      BY <1>1, <1>4, <1>5 DEF ShardInv
<1>8. \A x \in ShardTasks : /\ queue'[x] <= 1
                            /\ queue'[x] > 0 => x.marker = 1 /\ CanStart(x.shard, x.from)
      BY DEF Faultless, TasksInv
<1> QED
    BY <1>1, <1>2, <1>4, <1>7, <1>8, MoveStep

\* A worker queues the rest of its shard and has done with it.
LEMMA RequeueStep ==
  ASSUME IInv, Faultless, NEW w \in Workers, NEW r, work' = [work EXCEPT ![w] = r],
         work[w].pc \in CarryingPCs, r.pc \in {"idle", "reply"}, NEW i, i = work[w].shard,
         NEW x \in ShardTasks, x.marker = 1, x.shard = i, x.from = work[w].pos,
         CanStart(i, x.from), Queued(x), UNCHANGED <<marker, called, finalized>>
  PROVE  Faultless'
<1>1. /\ i \in Shards /\ i \in Busy /\ Carrying(i) = {w} /\ Waiting(i) = {}
      /\ ~Pending(i) /\ ~Generating(w) /\ work[w].pc \notin {"submitFinalize", "finalize"}
      /\ CalledUpTo(i, work[w].pos) /\ Lo[i] <= work[w].pos
      BY OwnShard DEF CarryingPCs
<1>2. r.pc \notin CarryingPCs \cup {"create", "make", "submitShard", "submitFinalize", "finalize"}
      BY DEF CarryingPCs
<1>3. \A u \in Workers : work'[u] = IF u = w THEN r ELSE work[u]
      BY WorkAfter
<1>4. queue \in [Tasks -> Nat] /\ queue' = [queue EXCEPT ![x] = @ + 1] /\ x \in Tasks
      BY TaskTypes DEF IInv, TypeOK, Queued
<1>5. x \notin Waiting(i) /\ queue[x] = 0
  <2>1. queue[x] \in Nat
        BY <1>4
  <2> QED
      BY <1>1, <2>1 DEF Waiting
<1>6. \A y \in Tasks : queue'[y] = IF y = x THEN 1 ELSE queue[y]
      BY <1>4, <1>5
<1>7. Waiting(i)' = {x}
  <2>1. \A y \in ShardTasks : y.shard = i /\ queue'[y] > 0 <=> y = x
        BY <1>1, <1>6, TaskTypes DEF Waiting
  <2> QED
      BY <2>1 DEF Waiting
<1>8. Carrying(i)' = {} /\ i \in Busy'
      BY <1>1, <1>2, <1>3, <1>7 DEF Carrying, Busy
<1>9. queue'[GenerateTask] = queue[GenerateTask]
      BY <1>6, TaskTypes, TaskKinds
<1>10. Pending(i)' <=> Pending(i)
      BY <1>1, <1>2, <1>9, GeneratorKept DEF Faultless
<1>11. CalledUpTo(i, x.from)'
      BY <1>1 DEF CalledUpTo
<1>12. ShardInv(i)'
      BY <1>1, <1>7, <1>8, <1>10, <1>11 DEF ShardInv
<1>13. TaskOK(r)
      BY <1>2 DEF TaskOK
<1>14. \A y \in Tasks : queue'[y] = queue[y] \/ (y \in ShardTasks /\ y.shard = i)
      BY <1>6
<1>15. \A y \in ShardTasks : /\ queue'[y] <= 1
                             /\ queue'[y] > 0 => y.marker = 1 /\ CanStart(y.shard, y.from)
      BY <1>1, <1>6, TaskTypes DEF Faultless, TasksInv
<1> QED
    BY <1>1, <1>2, <1>8, <1>12, <1>13, <1>14, <1>15, MoveStep
-----------------------------------------------------------------------------
\* A delivery takes one task from the queue.
LEMMA DeliverEffect ==
  ASSUME IInv, NEW w \in Workers, NEW x \in Tasks, Deliver(w, x), NoFault
  PROVE  /\ work[w].pc = "idle" /\ ~Generating(w) /\ queue[x] \in Nat /\ queue[x] > 0
         /\ work' = [work EXCEPT ![w] = Started(x)] /\ UNCHANGED <<marker, called, finalized>>
         /\ \A u \in Workers : work'[u] = IF u = w THEN Started(x) ELSE work[u]
         /\ \A y \in Tasks : queue'[y] = IF y = x THEN queue[x] - 1 ELSE queue[y]
<1>1. faults \in Int /\ queue \in [Tasks -> Nat]
      BY DEF IInv, TypeOK
<1>2. queue' = [queue EXCEPT ![x] = @ - 1]
      BY <1>1 DEF Deliver, Fault, NoFault
<1>3. work' = [work EXCEPT ![w] = Started(x)]
      BY DEF Deliver, Become
<1>4. \A u \in Workers : work'[u] = IF u = w THEN Started(x) ELSE work[u]
      BY <1>3 DEF IInv, TypeOK
<1> QED
    BY <1>1, <1>2, <1>3, <1>4 DEF Deliver, At, Generating

LEMMA DeliverShardFaultless ==
  ASSUME IInv, Faultless, NEW w \in Workers, NEW x \in Tasks, Deliver(w, x), NoFault,
         x.kind = "shard"
  PROVE  Faultless'
<1>1. /\ work[w].pc = "idle" /\ ~Generating(w) /\ queue[x] \in Nat /\ queue[x] > 0
      /\ work' = [work EXCEPT ![w] = Started(x)] /\ UNCHANGED <<marker, called, finalized>>
      /\ \A u \in Workers : work'[u] = IF u = w THEN Started(x) ELSE work[u]
      /\ \A y \in Tasks : queue'[y] = IF y = x THEN queue[x] - 1 ELSE queue[y]
      BY DeliverEffect
<1>2. x \in ShardTasks /\ x.shard \in Shards /\ x.from \in Nat /\ x.marker = 1
      /\ queue[x] = 1 /\ CanStart(x.shard, x.from) /\ Lo[x.shard] <= x.from
      BY <1>1, TaskTypes, KeyTypes DEF Faultless, TasksInv, CanStart
<1> DEFINE i == x.shard
           r == Started(x)
<1>3. /\ r.pc = "fetch" /\ r.task = x /\ r.mk = 1 /\ r.shard = i /\ r.pos = x.from /\ r.first
      BY <1>2 DEF Started, Idle
<1>4. \A u \in Workers : work'[u] = IF u = w THEN r ELSE work[u]
      BY <1>1
<1>5. x \in Waiting(i) /\ i \in Busy /\ ShardInv(i)
      BY <1>1, <1>2 DEF Waiting, Busy, Faultless, ShardsInv
<1>6. Waiting(i) = {x} /\ Carrying(i) = {} /\ CalledUpTo(i, x.from) /\ ~Pending(i)
      BY <1>5 DEF ShardInv
<1> HIDE DEF i, r
<1>7. Waiting(i)' = {}
      BY <1>1, <1>2, <1>6, TaskTypes DEF Waiting
<1>8. Carrying(i)' = {w}
      BY <1>3, <1>4, <1>6 DEF Carrying, CarryingPCs
<1>9. i \in Busy'
      BY <1>2, <1>8 DEF Busy, i
<1>10. queue'[GenerateTask] = queue[GenerateTask]
       BY <1>1, <1>2, TaskTypes, TaskKinds
<1>11. Pending(i)' <=> Pending(i)
       BY <1>1, <1>2, <1>3, <1>10, GeneratorKept DEF Faultless, i, r
<1>12. CalledUpTo(i, r.pos)' /\ work'[w] = r
       BY <1>1, <1>3, <1>4, <1>6 DEF CalledUpTo
<1>13. ShardInv(i)'
       BY <1>6, <1>7, <1>8, <1>9, <1>11, <1>12 DEF ShardInv
<1>14. TaskOK(r)
       BY <1>2, <1>3 DEF TaskOK, CarryingPCs, i
<1>15. \A y \in ShardTasks : /\ queue'[y] <= 1
                             /\ queue'[y] > 0 => y.marker = 1 /\ CanStart(y.shard, y.from)
       BY <1>1, <1>2, TaskTypes DEF Faultless, TasksInv
<1>16. \A y \in Tasks : queue'[y] = queue[y] \/ (y \in ShardTasks /\ y.shard = i)
       BY <1>1, <1>2 DEF i
<1> QED
    BY <1>1, <1>2, <1>3, <1>5, <1>9, <1>13, <1>14, <1>15, <1>16, MoveStep DEF i, r, CarryingPCs

LEMMA DeliverFinalizeFaultless ==
  ASSUME IInv, Faultless, NEW w \in Workers, NEW x \in Tasks, Deliver(w, x), NoFault,
         x.kind = "finalize"
  PROVE  Faultless'
<1>1. /\ work[w].pc = "idle" /\ ~Generating(w) /\ queue[x] \in Nat /\ queue[x] > 0
      /\ work' = [work EXCEPT ![w] = Started(x)] /\ UNCHANGED <<marker, called, finalized>>
      /\ \A u \in Workers : work'[u] = IF u = w THEN Started(x) ELSE work[u]
      /\ \A y \in Tasks : queue'[y] = IF y = x THEN queue[x] - 1 ELSE queue[y]
      BY DeliverEffect
<1>2. x.marker \in Markers /\ x = FinalizeTask(x.marker)
      BY TaskTypes, TaskKinds
<1>3. x = FinalizeTask(1)
      BY <1>1, <1>2 DEF Faultless, TasksInv
<1>4. Started(x).pc = "finalize" /\ Started(x).task = x /\ Started(x).mk = 1
      BY <1>3 DEF Started, Idle, FinalizeTask
<1>5. /\ \A y \in ShardTasks \cup {GenerateTask} : queue'[y] = queue[y]
      /\ \A m \in Markers : queue'[FinalizeTask(m)] > 0 \/ finalized'[m] > 0 => m = 1
      BY <1>1, <1>3, KeyTypes, TaskTypes, TaskKinds DEF Faultless, TasksInv
<1>6. Underway /\ Underway'
  <2>1. work'[w].pc = "finalize"
        BY <1>1, <1>4
  <2> QED
      BY <1>1, <1>3, <2>1 DEF Underway
<1>7. TaskOK(Started(x)) /\ Started(x).pc \notin CarryingPCs /\ work[w].pc \notin CarryingPCs
      BY <1>1, <1>3, <1>4 DEF TaskOK, CarryingPCs
<1> QED
    BY <1>1, <1>4, <1>5, <1>6, <1>7, AsideStep

\* The generator starts: no shard has been queued, as before.
LEMMA DeliverGenerateFaultless ==
  ASSUME IInv, Faultless, NEW w \in Workers, NEW x \in Tasks, Deliver(w, x), NoFault,
         x.kind = "generate"
  PROVE  Faultless'
<1>1. /\ work[w].pc = "idle" /\ ~Generating(w) /\ queue[x] \in Nat /\ queue[x] > 0
      /\ work' = [work EXCEPT ![w] = Started(x)] /\ UNCHANGED <<marker, called, finalized>>
      /\ \A u \in Workers : work'[u] = IF u = w THEN Started(x) ELSE work[u]
      /\ \A y \in Tasks : queue'[y] = IF y = x THEN queue[x] - 1 ELSE queue[y]
      BY DeliverEffect
<1> DEFINE r == Started(x)
<1>2. x = GenerateTask /\ r.pc = "create" /\ r.mk = 1 /\ r.shard = 1
      BY TaskKinds DEF Started, Idle
<1> HIDE DEF r
<1>3. \A u \in Workers : work'[u] = IF u = w THEN r ELSE work[u]
      BY <1>1 DEF r
<1>4. /\ queue[GenerateTask] = 1 /\ queue'[GenerateTask] = 0
      /\ \A u \in Workers : ~Generating(u)
      /\ marker[1].state = "unused"
      BY <1>1, <1>2 DEF Faultless, GeneratorInv
<1>5. \A u \in Workers : Generating(u)' <=> u = w
      BY <1>2, <1>3, <1>4 DEF Generating
<1>6. GeneratorInv'
      BY <1>1, <1>2, <1>3, <1>4, <1>5 DEF Faultless, GeneratorInv, Generating
<1>7. \A i \in Shards : Pending(i) /\ Pending(i)'
  <2>1. \A i \in Shards : 1 <= i
        BY DEF Shards
  <2> QED
      BY <1>2, <1>3, <1>4, <1>5, <2>1 DEF Pending
<1>8. /\ \A y \in ShardTasks : queue'[y] = queue[y]
      /\ \A m \in Markers : queue'[FinalizeTask(m)] = queue[FinalizeTask(m)]
      BY <1>1, <1>2, TaskTypes, TaskKinds
<1>9. \A j \in Shards : ShardInv(j)' /\ (j \in Busy' <=> j \in Busy)
      BY <1>1, <1>2, <1>7, <1>8, ShardKept DEF Faultless, ShardsInv, r, CarryingPCs
<1>10. TasksInv'
       BY <1>1, <1>2, <1>3, <1>8 DEF Faultless, TasksInv, TaskOK, CarryingPCs
<1>11. Busy' = Busy
       BY <1>9 DEF Busy
<1>12. CountInv'
       BY <1>1, <1>4, <1>11 DEF Faultless, CountInv
<1>13. ~Underway'
  <2>1. ~Underway
        BY <1>7, KeyTypes DEF Faultless, FinalizeInv
  <2> QED
      BY <1>1, <1>2, <1>3, <1>8, <2>1, KeyTypes DEF Underway
<1>14. FinalizeInv'
       BY <1>1, <1>4, <1>13 DEF FinalizeInv
<1> QED
    BY <1>6, <1>9, <1>10, <1>12, <1>14 DEF Faultless, ShardsInv

LEMMA DeliverFaultless ==
  ASSUME IInv, Faultless, NEW w \in Workers, NEW x \in Tasks, Deliver(w, x), NoFault
  PROVE  Faultless'
BY TaskTypes, DeliverShardFaultless, DeliverFinalizeFaultless, DeliverGenerateFaultless

\* The end of a handler, and the finalize callback.
LEMMA EndsFaultless ==
  ASSUME IInv, Faultless, NEW w \in Workers,
         Reply(w) \/ RunFinalize(w) \/ FinalizeRaises(w) \/ SubmitFinalize(w)
  PROVE  Faultless'
<1>1. work[w] \in WorkType /\ TaskOK(work[w]) /\ queue \in [Tasks -> Nat]
      /\ finalized \in [Markers -> Nat] /\ FinalizeTask(1) \in Tasks /\ 1 \in Markers
      BY WorkFacts, KeyTypes, TaskTypes DEF Faultless, TasksInv, IInv, TypeOK
<1>2. CASE Reply(w)
  <2>1. /\ work[w].pc = "reply" /\ work' = [work EXCEPT ![w] = Idle]
        /\ UNCHANGED <<marker, queue, called, finalized>>
        BY <1>2 DEF Reply, At, Become
  <2>2. Idle.pc = "idle" /\ TaskOK(Idle)
        BY IdleType DEF TaskOK, CarryingPCs
  <2>3. Underway' <=> Underway
    <3>1. \A u \in Workers : work'[u].pc \in {"submitFinalize", "finalize"}
                               <=> work[u].pc \in {"submitFinalize", "finalize"}
          BY <2>1, <2>2, WorkAfter
    <3> QED
        BY <2>1, <3>1 DEF Underway
  <2> QED
      BY <2>1, <2>2, <2>3, AsideStep DEF Generating, CarryingPCs, Faultless, TasksInv
<1>3. CASE RunFinalize(w)
  <2> DEFINE r == [work[w] EXCEPT !.pc = "reply"]
  <2>1. /\ work[w].pc = "finalize" /\ work' = [work EXCEPT ![w] = r] /\ work[w].mk = 1
        /\ finalized' = [finalized EXCEPT ![1] = @ + 1] /\ UNCHANGED <<marker, queue, called>>
        BY <1>1, <1>3 DEF RunFinalize, At, Goto, Become, TaskOK
  <2>2. r.pc = "reply" /\ TaskOK(r)
        BY <1>1 DEF TaskOK, CarryingPCs, WorkType
  <2>3. Underway /\ Underway'
        BY <1>1, <2>1 DEF Underway
  <2>4. \A m \in Markers : queue'[FinalizeTask(m)] > 0 \/ finalized'[m] > 0 => m = 1
        BY <1>1, <2>1 DEF Faultless, TasksInv
  <2> HIDE DEF r
  <2> QED
      BY <2>1, <2>2, <2>3, <2>4, AsideStep DEF Generating, CarryingPCs
<1>4. CASE FinalizeRaises(w)
  <2>1. /\ work[w].pc = "finalize" /\ work' = [work EXCEPT ![w] = Idle]
        /\ queue' = [queue EXCEPT ![FinalizeTask(1)] = @ + 1]
        /\ UNCHANGED <<marker, finalized, called>>
        BY <1>1, <1>4 DEF FinalizeRaises, Fail, Queued, At, Become, TaskOK
  <2>2. Idle.pc = "idle" /\ TaskOK(Idle)
        BY IdleType DEF TaskOK, CarryingPCs
  <2>3. Underway /\ Underway'
        BY <1>1, <2>1 DEF Underway
  <2>4. \A m \in Markers : queue'[FinalizeTask(m)] > 0 \/ finalized'[m] > 0 => m = 1
        BY <1>1, <2>1, TaskTypes, TaskKinds DEF Faultless, TasksInv
  <2>5. \A x \in ShardTasks \cup {GenerateTask} : queue'[x] = queue[x]
        BY <1>1, <2>1, TaskTypes, TaskKinds
  <2> QED
      BY <2>1, <2>2, <2>3, <2>4, <2>5, AsideStep DEF Generating, CarryingPCs
<1>5. CASE SubmitFinalize(w)
  <2> DEFINE r == [work[w] EXCEPT !.pc = "reply"]
  <2>1. /\ work[w].pc = "submitFinalize" /\ work' = [work EXCEPT ![w] = r]
        /\ queue' = [queue EXCEPT ![FinalizeTask(1)] = @ + 1]
        /\ UNCHANGED <<marker, finalized, called>>
        BY <1>1, <1>5 DEF SubmitFinalize, Goto, Queued, At, Become, TaskOK
  <2>2. r.pc = "reply" /\ TaskOK(r)
        BY <1>1 DEF TaskOK, CarryingPCs, WorkType
  <2>3. Underway /\ Underway'
        BY <1>1, <2>1 DEF Underway
  <2>4. \A m \in Markers : queue'[FinalizeTask(m)] > 0 \/ finalized'[m] > 0 => m = 1
        BY <1>1, <2>1, TaskTypes, TaskKinds DEF Faultless, TasksInv
  <2>5. \A x \in ShardTasks \cup {GenerateTask} : queue'[x] = queue[x]
        BY <1>1, <2>1, TaskTypes, TaskKinds
  <2> HIDE DEF r
  <2> QED
      BY <2>1, <2>2, <2>3, <2>4, <2>5, AsideStep DEF Generating, CarryingPCs
<1> QED
    BY <1>2, <1>3, <1>4, <1>5
-----------------------------------------------------------------------------
\* A worker that processes a shard: its marker is stored, since no shard is
\* left when it is deleted.
LEMMA MarkerLive ==
  ASSUME IInv, Faultless, NEW w \in Workers, work[w].pc \in CarryingPCs
  PROVE  marker[1].state = "live" /\ marker[1] \in MarkerType /\ ~Underway
<1>1. Busy # {} /\ ~Pending(work[w].shard) /\ ~Underway
      BY OwnShard DEF Faultless, FinalizeInv
<1>2. marker[1] \in MarkerType
      BY KeyTypes DEF IInv, TypeOK, MarkerType
<1>3. marker[1].state # "gone"
      BY <1>1 DEF Faultless, FinalizeInv
<1>4. marker[1].state # "unused"
  <2> SUFFICES ASSUME marker[1].state = "unused" PROVE FALSE
      OBVIOUS
  <2>1. queue[GenerateTask] > 0 \/ \E v \in Workers : work[v].pc = "create"
        BY DEF Faultless, GeneratorInv
  <2>2. work[w].shard \in Shards /\ 1 <= work[w].shard
        BY OwnShard DEF Shards
  <2>3. Pending(work[w].shard)
        BY <2>1, <2>2 DEF Faultless, GeneratorInv, Pending, Generating
  <2> QED
      BY <1>1, <2>3
<1> QED
    BY <1>1, <1>2, <1>3, <1>4 DEF MarkerType

\* A worker that changes its program counter only.
LEMMA PcStep ==
  ASSUME IInv, Faultless, NEW w \in Workers, work[w].pc \in CarryingPCs,
         NEW pc \in CarryingPCs, Goto(w, pc), UNCHANGED <<marker, queue, called, finalized>>,
         pc = "redefer" => CanStart(work[w].shard, work[w].pos),
         pc = "mark" => Hi[work[w].shard] < work[w].pos,
         pc # "fetch"
  PROVE  Faultless'
<1>0. PICK r : r = [work[w] EXCEPT !.pc = pc]
      OBVIOUS
<1>1. work' = [work EXCEPT ![w] = r]
      BY <1>0 DEF Goto, Become
<1>2. work[w] \in WorkType /\ TaskOK(work[w])
      BY WorkFacts DEF Faultless, TasksInv
<1>3. /\ r.pc = pc /\ r.mk = work[w].mk /\ r.task = work[w].task /\ r.shard = work[w].shard
      /\ r.pos = work[w].pos /\ r.first = work[w].first
      BY <1>0, <1>2 DEF WorkType
<1>4. TaskOK(r)
      BY <1>2, <1>3 DEF TaskOK, CarryingPCs
<1>5. PICK i : i = work[w].shard
      OBVIOUS
<1>6. CalledUpTo(i, r.pos)'
  <2>1. CalledUpTo(i, r.pos)
        BY <1>3, <1>5, OwnShard
  <2> QED
      BY <2>1 DEF CalledUpTo
<1> QED
    BY <1>1, <1>3, <1>4, <1>5, <1>6, WithinStep

LEMMA FetchFaultless ==
  ASSUME IInv, Faultless, NEW w \in Workers, Fetch(w) \/ TimesOut(w) \/ EndIteration(w)
  PROVE  Faultless'
<1>1. work[w].pc \in CarryingPCs /\ UNCHANGED <<marker, queue, called, finalized>>
      BY DEF Fetch, TimesOut, EndIteration, At, CarryingPCs
<1>2. /\ work[w].mk = 1 /\ marker[1].state = "live" /\ TaskOK(work[w])
      /\ work[w].pos \in Nat /\ Hi[work[w].shard] \in Nat /\ Lo[work[w].shard] <= work[w].pos
  <2>1. /\ work[w].mk = 1 /\ work[w].shard \in Shards
        /\ work[w].pos \in Nat /\ Lo[work[w].shard] <= work[w].pos
        BY <1>1, OwnShard
  <2>2. marker[1].state = "live"
        BY <1>1, MarkerLive
  <2> QED
      BY <2>1, <2>2, KeyTypes DEF Faultless, TasksInv
<1>3. PICK pc \in {"iterate", "redefer", "mark"} :
        /\ Goto(w, pc)
        /\ pc = "redefer" => work[w].pc = "fetch" \/ work[w].pos <= Hi[work[w].shard]
        /\ pc = "mark" => ~(work[w].pos <= Hi[work[w].shard])
      BY <1>2 DEF Fetch, TimesOut, EndIteration, HasNext, At
<1>4. pc = "redefer" => CanStart(work[w].shard, work[w].pos)
      BY <1>2, <1>3 DEF TaskOK, CanStart
<1>5. pc = "mark" => Hi[work[w].shard] < work[w].pos
      BY <1>2, <1>3
<1> QED
    BY <1>1, <1>3, <1>4, <1>5, PcStep DEF CarryingPCs

\* The callback's first call on the instance.
LEMMA CallbackReturnsFaultless ==
  ASSUME IInv, Faultless, NEW w \in Workers, CallbackReturns(w) PROVE Faultless'
<1>0. PICK r : r = [work[w] EXCEPT !.pos = @ + 1, !.first = FALSE]
      OBVIOUS
<1>1. /\ work[w].pc = "iterate" /\ work[w].pc \in CarryingPCs
      /\ work' = [work EXCEPT ![w] = r]
      /\ called' = [called EXCEPT ![work[w].pos] = AtMostTwo(@)]
      /\ work[w].pos <= Hi[work[w].shard] /\ UNCHANGED <<marker, queue, finalized>>
      BY <1>0 DEF CallbackReturns, Become, At, HasNext, CarryingPCs
<1>2. work[w] \in WorkType /\ TaskOK(work[w]) /\ called \in [Keys -> 0..2]
      BY WorkFacts DEF Faultless, TasksInv, IInv, TypeOK
<1>3. PICK i, p : i = work[w].shard /\ p = work[w].pos
      OBVIOUS
<1>4. i \in Shards /\ p \in Nat /\ Lo[i] <= p /\ p <= Hi[i] /\ CalledUpTo(i, p)
      /\ Lo[i] \in Nat /\ Hi[i] \in Nat
      BY <1>1, <1>3, OwnShard, KeyTypes
<1>5. /\ r.pc = "iterate" /\ r.mk = work[w].mk /\ r.task = work[w].task /\ r.shard = i
      /\ r.pos = p + 1 /\ r.first = FALSE
      BY <1>0, <1>1, <1>2, <1>3 DEF WorkType
<1>6. TaskOK(r)
      BY <1>1, <1>2, <1>3, <1>4, <1>5 DEF TaskOK, CarryingPCs
<1>7. p \in KeysOf(i) /\ p \in Keys
      BY <1>4 DEF KeysOf, Keys
<1>8. called[p] = 0
      BY <1>4, <1>7 DEF CalledUpTo
<1>9. \A k \in Keys : called'[k] = IF k = p THEN 1 ELSE called[k]
      BY <1>1, <1>2, <1>3, <1>7, <1>8 DEF AtMostTwo
<1>10. CalledUpTo(i, r.pos)'
  <2> SUFFICES ASSUME NEW k \in KeysOf(i) PROVE called'[k] = IF k < p + 1 THEN 1 ELSE 0
      BY <1>5 DEF CalledUpTo
  <2>1. k \in Keys /\ k \in Nat
        BY <1>4, KeyTypes DEF Keys
  <2>2. called[k] = IF k < p THEN 1 ELSE 0
        BY <1>4 DEF CalledUpTo
  <2> QED
      BY <1>4, <1>9, <2>1, <2>2
<1>11. \A k \in Keys : called'[k] = called[k] \/ k \in KeysOf(i)
       BY <1>7, <1>9
<1>12. r.pc \in CarryingPCs
       BY <1>5 DEF CarryingPCs
<1> QED
    BY <1>1, <1>3, <1>5, <1>6, <1>10, <1>11, <1>12, WithinStep

LEMMA RedeferFaultless ==
  ASSUME IInv, Faultless, NEW w \in Workers, Redefer(w) PROVE Faultless'
<1> DEFINE r == [work[w] EXCEPT !.pc = "reply"]
<1>1. /\ work[w].pc = "redefer" /\ work[w].pc \in CarryingPCs
      /\ work' = [work EXCEPT ![w] = r]
      /\ Queued(ShardTask(work[w].mk, work[w].shard, work[w].pos))
      /\ UNCHANGED <<marker, called, finalized>>
      BY DEF Redefer, Goto, Become, At, CarryingPCs
<1>2. PICK i, p : i = work[w].shard /\ p = work[w].pos
      OBVIOUS
<1>3. i \in Shards /\ p \in Nat /\ work[w].mk = 1 /\ CanStart(i, p)
      BY <1>1, <1>2, OwnShard DEF Faultless, TasksInv, TaskOK
<1>4. PICK x : x = ShardTask(1, i, p)
      OBVIOUS
<1>5. x \in ShardTasks /\ x.marker = 1 /\ x.shard = i /\ x.from = p /\ Queued(x)
      BY <1>1, <1>2, <1>3, <1>4, ShardTaskType
<1>6. r.pc \in {"idle", "reply"}
      BY WorkFacts DEF WorkType
<1> HIDE DEF r
<1> QED
    BY <1>1, <1>2, <1>3, <1>5, <1>6, RequeueStep

\* The task in hand is delivered again from where it started, if it has not
\* come further; else the rest is queued.
LEMMA CallbackRaisesFaultless ==
  ASSUME IInv, Faultless, NEW w \in Workers, CallbackRaises(w) PROVE Faultless'
<1>1. /\ work[w].pc = "iterate" /\ work[w].pc \in CarryingPCs
      /\ work[w].pos <= Hi[work[w].shard] /\ UNCHANGED <<marker, called, finalized>>
      BY DEF CallbackRaises, At, HasNext, CarryingPCs
<1>2. PICK i : i = work[w].shard
      OBVIOUS
<1>3. CanStart(i, work[w].pos)
      BY <1>1, <1>2, OwnShard DEF CanStart
<1>4. CASE work[w].first
  <2>1. work' = [work EXCEPT ![w] = Idle] /\ Queued(work[w].task)
        BY <1>4 DEF CallbackRaises, Fail, Become
  <2>2. PICK x : x = work[w].task
        OBVIOUS
  <2>3. x \in ShardTasks /\ x.shard = i /\ x.marker = 1 /\ work[w].pos = x.from
    <3>1. /\ work[w].task \in ShardTasks /\ work[w].task.shard = work[w].shard
          /\ work[w].task.marker = 1
          /\ work[w].first => work[w].pos = work[w].task.from
          BY <1>1, OwnShard
    <3> QED
        BY <1>2, <1>4, <2>2, <3>1
  <2>4. Idle.pc \in {"idle", "reply"}
        BY IdleType
  <2> QED
      BY <1>1, <1>2, <1>3, <2>1, <2>2, <2>3, <2>4, RequeueStep
<1>5. CASE ~work[w].first
  <2>1. Goto(w, "redefer") /\ UNCHANGED queue
        BY <1>5 DEF CallbackRaises
  <2> QED
      BY <1>1, <1>2, <1>3, <2>1, PcStep DEF CarryingPCs
<1> QED
    BY <1>4, <1>5
\* A shard is complete.  It is the last one exactly when the counts become equal.
LEMMA MarkCompleteFaultless ==
  ASSUME IInv, Faultless, NEW w \in Workers, MarkComplete(w) PROVE Faultless'
<1> DEFINE all == AllComplete(marker[1])
<1>1. /\ work[w].pc = "mark" /\ work[w].pc \in CarryingPCs
      /\ UNCHANGED <<queue, called, finalized>>
      BY DEF MarkComplete, At, CarryingPCs
<1>2. PICK i : i = work[w].shard
      OBVIOUS
<1>3. /\ i \in Shards /\ i \in Busy /\ Carrying(i) = {w} /\ Waiting(i) = {}
      /\ CalledUpTo(i, work[w].pos) /\ ~Pending(i) /\ ~Generating(w) /\ work[w].mk = 1
      /\ work[w].pos \in Nat /\ Hi[i] < work[w].pos /\ Hi[i] \in Nat
      BY <1>1, <1>2, OwnShard, KeyTypes DEF Faultless, TasksInv, TaskOK
<1>4. /\ marker[1].state = "live" /\ marker[1] \in MarkerType /\ ~Underway /\ marker[1].ready
      /\ marker \in [Markers -> MarkerType] /\ 1 \in Markers
      BY <1>1, <1>3, MarkerLive, WorkFacts, KeyTypes DEF IInv, TypeOK, MarkerType
<1>5. PICK new : new = [marker[1] EXCEPT !.complete = @ + 1,
                          !.state = IF all /\ delete THEN "gone" ELSE @]
      OBVIOUS
<1>6. marker' = [marker EXCEPT ![1] = new]
      BY <1>3, <1>4, <1>5 DEF MarkComplete
<1>7. /\ new.complete = marker[1].complete + 1 /\ new.count = marker[1].count
      /\ new.state = IF all /\ delete THEN "gone" ELSE "live"
      /\ new.ready = marker[1].ready
      BY <1>4, <1>5 DEF MarkerType
<1>8. marker'[1] = new /\ \A m \in Markers : m # 1 => marker'[m] = marker[m]
      BY <1>4, <1>6
<1>9. PICK r : r = [work[w] EXCEPT !.pc = IF all THEN "submitFinalize" ELSE "reply"]
      OBVIOUS
<1>10. work' = [work EXCEPT ![w] = r]
       BY <1>3, <1>4, <1>9 DEF MarkComplete, Goto, Become
<1>11. /\ r.pc = (IF all THEN "submitFinalize" ELSE "reply") /\ r.mk = 1
       /\ r.pc \notin CarryingPCs \cup {"create", "make", "submitShard", "mark", "finalize"}
       BY <1>3, <1>9, WorkFacts DEF WorkType, CarryingPCs
<1>12. \A u \in Workers : work'[u] = IF u = w THEN r ELSE work[u]
       BY <1>10, WorkAfter
<1> HIDE DEF all
\* The generator goes on as before.
<1>13. /\ \A u \in Workers : Generating(u)' <=> Generating(u)
       /\ \A u \in Workers : Generating(u) => work'[u] = work[u]
       /\ \A j \in Shards : Pending(j)' <=> Pending(j)
       /\ Submitting' <=> Submitting
  <2>1. \A u \in Workers : Generating(u)' <=> Generating(u)
        BY <1>3, <1>11, <1>12 DEF Generating
  <2>2. \A u \in Workers : Generating(u) => work'[u] = work[u]
        BY <1>3, <1>12
  <2>3. \A u \in Workers : work'[u].pc = "submitShard" <=> work[u].pc = "submitShard"
        BY <2>1, <2>2 DEF Generating
  <2> QED
      BY <1>1, <2>1, <2>2, <2>3 DEF Pending, Submitting
\* One shard less is busy.
<1>14. ShardInv(i)' /\ i \notin Busy'
  <2>1. Waiting(i)' = {} /\ Carrying(i)' = {}
        BY <1>1, <1>3, <1>11, <1>12 DEF Waiting, Carrying
  <2>2. CalledUpTo(i, Hi[i] + 1)'
    <3> SUFFICES ASSUME NEW k \in KeysOf(i) PROVE called[k] = IF k < Hi[i] + 1 THEN 1 ELSE 0
        BY <1>1 DEF CalledUpTo
    <3>1. k \in Nat /\ k <= Hi[i]
          BY <1>3, KeyTypes DEF KeysOf
    <3>2. called[k] = IF k < work[w].pos THEN 1 ELSE 0
          BY <1>3 DEF CalledUpTo
    <3> QED
        BY <1>3, <3>1, <3>2
  <2>3. ~Pending(i)' /\ i \notin Busy'
        BY <1>3, <1>13, <2>1 DEF Busy
  <2> QED
      BY <2>1, <2>2, <2>3 DEF ShardInv
<1>15. \A j \in Shards : j # i => ShardInv(j)' /\ (j \in Busy' <=> j \in Busy)
       BY <1>1, <1>2, <1>10, <1>11, <1>13, ShardKept DEF Faultless, ShardsInv
<1>16. Busy' = Busy \ {i}
  <2>1. Busy \subseteq Shards /\ Busy' \subseteq Shards
        BY DEF Busy
  <2> QED
      BY <1>14, <1>15, <2>1
<1>17. /\ Cardinality(Busy') = Cardinality(Busy) - 1 /\ Cardinality(Busy') \in Nat
       /\ Cardinality(Busy) \in Nat
       /\ Cardinality(Busy') = 0 <=> Busy' = {}
  <2>1. IsFiniteSet(Busy) /\ Cardinality(Busy) \in Nat
        BY BusyFinite
  <2>2. IsFiniteSet(Busy') /\ Cardinality(Busy') = Cardinality(Busy) - 1
        BY <1>3, <1>16, <2>1, FS_RemoveElement
  <2> QED
      BY <2>1, <2>2, FS_EmptySet, FS_CardinalityType
<1>18. marker[1].count - marker[1].complete = Cardinality(Busy) + (IF Submitting THEN 1 ELSE 0)
       BY <1>4 DEF Faultless, CountInv
<1>19. all <=> Busy' = {} /\ ~Submitting
  <2>1. marker[1].count \in Nat /\ marker[1].complete \in Nat
        BY <1>4 DEF MarkerType
  <2> QED
      BY <1>17, <1>18, <2>1 DEF all, AllComplete
\* The generator has nothing left to do when the last shard is complete.
<1>20. all => queue[GenerateTask] = 0 /\ \A u \in Workers : ~Generating(u)
  <2>1. queue[GenerateTask] \in Nat
        BY TaskTypes DEF IInv, TypeOK
  <2> QED
      BY <1>4, <1>19, <2>1 DEF Faultless, GeneratorInv, Generating, Submitting
<1>21. GeneratorInv'
  <2>1. \A u \in Workers : work'[u].pc = "create" <=> work[u].pc = "create"
        BY <1>13 DEF Generating
  <2>2. marker'[1].state = "unused" <=>
          queue'[GenerateTask] > 0 \/ \E u \in Workers : work'[u].pc = "create"
        BY <1>1, <1>4, <1>7, <1>8, <2>1 DEF Faultless, GeneratorInv
  <2>3. \A u \in Workers :
          /\ Generating(u)' => work'[u].mk = 1
          /\ work'[u].pc = "create" => work'[u].shard = 1
          /\ work'[u].pc = "make" => marker'[1].state = "live" /\ ~marker'[1].ready
          /\ work'[u].pc = "submitShard" =>
               marker'[1].state = "live" /\ (marker'[1].ready => work'[u].shard = ShardCount)
        BY <1>7, <1>8, <1>13, <1>20 DEF Faultless, GeneratorInv, Generating
  <2> QED
      BY <1>1, <1>8, <1>13, <2>2, <2>3 DEF Faultless, GeneratorInv
<1>22. TasksInv'
       BY <1>1, <1>11, <1>12 DEF Faultless, TasksInv, TaskOK
<1>23. CountInv'
  <2>1. marker[1].count \in Nat /\ marker[1].complete \in Nat
        BY <1>4 DEF MarkerType
  <2>2. new.count - new.complete = Cardinality(Busy') + (IF Submitting' THEN 1 ELSE 0)
        BY <1>7, <1>13, <1>17, <1>18, <2>1
  <2> QED
      BY <1>7, <1>8, <2>2 DEF CountInv
<1>24. Underway' <=> all
       BY <1>1, <1>4, <1>11, <1>12 DEF Underway
<1>25. FinalizeInv'
  <2>1. all => \A j \in Shards : ~Pending(j)'
        BY <1>13, <1>20 DEF Pending
  <2>2. Submitting => \E u \in Workers : Generating(u)'
        BY <1>13 DEF Submitting, Generating
  <2> QED
      BY <1>7, <1>8, <1>19, <1>24, <2>1, <2>2 DEF FinalizeInv
<1> QED
    BY <1>14, <1>15, <1>21, <1>22, <1>23, <1>25 DEF Faultless, ShardsInv
-----------------------------------------------------------------------------
\* _generate_shards, as long as it has shards to queue.
LEMMA GeneratorFacts ==
  ASSUME IInv, Faultless, NEW w \in Workers, Generating(w)
  PROVE  /\ work[w] \in WorkType /\ work[w].mk = 1 /\ work[w].shard \in Shards
         /\ \A u \in Workers : Generating(u) <=> u = w
         /\ queue[GenerateTask] = 0 /\ ~Underway
         /\ \A j \in Shards : Pending(j) <=> work[w].shard <= j
         /\ marker \in [Markers -> MarkerType] /\ 1 \in Markers
<1>1. work[w] \in WorkType /\ work[w].shard \in Shards
      BY WorkFacts DEF WorkType
<1>2. queue[GenerateTask] \in Nat
      BY TaskTypes DEF IInv, TypeOK
<1>3. queue[GenerateTask] = 0 /\ \A u \in Workers : Generating(u) <=> u = w
      BY <1>2 DEF Faultless, GeneratorInv
<1>4. \A j \in Shards : Pending(j) <=> work[w].shard <= j
      BY <1>3 DEF Pending
<1>5. ~Underway
  <2>1. work[w].shard \in Nat
        BY <1>1, KeyTypes
  <2>2. Pending(work[w].shard)
        BY <1>1, <1>4, <2>1
  <2> QED
      BY <1>1, <2>2 DEF Faultless, FinalizeInv
<1> QED
    BY <1>1, <1>3, <1>4, <1>5, KeyTypes DEF Faultless, GeneratorInv, IInv, TypeOK, MarkerType

\* The generator's steps before it queues a shard: nothing is queued yet, and
\* the counts agree with what is about to be.
LEMMA CreateMarkerFaultless ==
  ASSUME IInv, Faultless, NEW w \in Workers, CreateMarker(w) PROVE Faultless'
<1>1. work[w].pc = "create" /\ Generating(w) /\ UNCHANGED <<queue, called, finalized>>
      BY DEF CreateMarker, At, Generating
<1>2. /\ work[w] \in WorkType /\ work[w].shard = 1 /\ 1 \in Shards
      /\ \A u \in Workers : Generating(u) <=> u = w
      /\ queue[GenerateTask] = 0 /\ ~Underway
      /\ \A j \in Shards : Pending(j) <=> 1 <= j
      /\ marker \in [Markers -> MarkerType] /\ 1 \in Markers
      BY <1>1, GeneratorFacts, KeyTypes DEF Faultless, GeneratorInv
<1>3. marker[1].state = "unused" /\ ~marker[1].ready
      BY <1>1, <1>2 DEF Faultless, GeneratorInv, IInv, MarkerInv, MarkerOK
<1>4. PICK m \in Markers :
        /\ \A n \in 1..(m - 1) : marker[n].state # "unused"
        /\ marker' = [marker EXCEPT ![m].state = "live"]
        /\ work' = [work EXCEPT ![w] = [work[w] EXCEPT !.pc = "make", !.mk = m, !.shard = 1]]
      BY DEF CreateMarker, Become
<1>5. m = 1
  <2>1. m \in Nat /\ 1 <= m
        BY DEF Markers
  <2> QED
      BY <1>3, <1>4, <2>1
<1>6. PICK r : r = [work[w] EXCEPT !.pc = "make", !.mk = 1, !.shard = 1]
      OBVIOUS
<1>7. work' = [work EXCEPT ![w] = r] /\ r.pc = "make" /\ r.mk = 1 /\ r.shard = 1
      BY <1>2, <1>4, <1>5, <1>6 DEF WorkType
<1>8. \A u \in Workers : work'[u] = IF u = w THEN r ELSE work[u]
      BY <1>7, WorkAfter
<1>9. /\ marker'[1].state = "live" /\ marker'[1].ready = marker[1].ready
      /\ marker'[1].count = marker[1].count /\ marker'[1].complete = marker[1].complete
      /\ \A n \in Markers : n # 1 => marker'[n] = marker[n]
      BY <1>2, <1>4, <1>5 DEF MarkerType
<1>10. \A u \in Workers : Generating(u)' <=> u = w
       BY <1>2, <1>7, <1>8 DEF Generating
<1>11. \A j \in Shards : Pending(j) /\ Pending(j)'
  <2>1. \A j \in Shards : 1 <= j
        BY DEF Shards
  <2> QED
      BY <1>2, <1>7, <1>8, <1>10, <2>1 DEF Pending
<1>12. \A j \in Shards : ShardInv(j)' /\ (j \in Busy' <=> j \in Busy)
       BY <1>1, <1>7, <1>11, ShardKept DEF Faultless, ShardsInv, CarryingPCs
<1>13. Busy' = {} /\ Busy = {}
       BY <1>11, <1>12 DEF Busy, Faultless, ShardsInv, ShardInv
<1>14. ~Submitting'
       BY <1>7, <1>8, <1>10 DEF Submitting, Generating
<1>15. GeneratorInv'
       BY <1>1, <1>2, <1>3, <1>7, <1>8, <1>9, <1>10 DEF Faultless, GeneratorInv, Generating
<1>16. TasksInv'
       BY <1>1, <1>7, <1>8 DEF Faultless, TasksInv, TaskOK, CarryingPCs
<1>17. CountInv'
  <2>1. marker[1].count = 0 /\ marker[1].complete = 0
        BY <1>3 DEF Faultless, CountInv
  <2>2. Cardinality(Busy') = 0
        BY <1>13, FS_EmptySet
  <2> QED
      BY <1>9, <1>14, <2>1, <2>2 DEF CountInv
<1>18. FinalizeInv'
  <2>1. ~Underway'
        BY <1>1, <1>2, <1>7, <1>8 DEF Underway
  <2> QED
      BY <1>9, <1>10, <2>1 DEF FinalizeInv
<1> QED
    BY <1>12, <1>15, <1>16, <1>17, <1>18 DEF Faultless, ShardsInv

LEMMA MakeShardFaultless ==
  ASSUME IInv, Faultless, NEW w \in Workers, MakeShard(w) PROVE Faultless'
<1>1. work[w].pc = "make" /\ Generating(w) /\ UNCHANGED <<called, finalized>>
      BY DEF MakeShard, At, Generating
<1>2. /\ work[w] \in WorkType /\ work[w].mk = 1 /\ work[w].shard \in Shards
      /\ \A u \in Workers : Generating(u) <=> u = w
      /\ queue[GenerateTask] = 0 /\ ~Underway
      /\ \A j \in Shards : Pending(j) <=> work[w].shard <= j
      /\ marker \in [Markers -> MarkerType] /\ 1 \in Markers
      BY <1>1, GeneratorFacts
<1>3. marker[1].state = "live" /\ ~marker[1].ready
      BY <1>1 DEF Faultless, GeneratorInv
<1>4. PICK r, i : r = [work[w] EXCEPT !.pc = "submitShard"] /\ i = work[w].shard
      OBVIOUS
<1>5. /\ marker' = [marker EXCEPT ![1] = Counted(@, i = ShardCount)]
      /\ work' = [work EXCEPT ![w] = r] /\ UNCHANGED queue
      BY <1>2, <1>3, <1>4 DEF MakeShard, Goto, Become
<1>6. r.pc = "submitShard" /\ r.mk = 1 /\ r.shard = i
      BY <1>2, <1>4 DEF WorkType
<1>7. \A u \in Workers : work'[u] = IF u = w THEN r ELSE work[u]
      BY <1>5, WorkAfter
<1>8. /\ marker'[1].state = "live" /\ (marker'[1].ready => i = ShardCount)
      /\ marker'[1].count = marker[1].count + 1 /\ marker'[1].complete = marker[1].complete
      /\ \A n \in Markers : n # 1 => marker'[n] = marker[n]
  <2>1. marker'[1] = [marker[1] EXCEPT !.count = @ + 1, !.ready = @ \/ i = ShardCount]
        BY <1>2, <1>5 DEF Counted
  <2>2. marker[1] \in MarkerType
        BY <1>2
  <2>3. marker'[1].ready <=> marker[1].ready \/ i = ShardCount
        BY <2>1, <2>2 DEF MarkerType
  <2>4. /\ marker'[1].state = marker[1].state /\ marker'[1].count = marker[1].count + 1
        /\ marker'[1].complete = marker[1].complete
        BY <2>1, <2>2 DEF MarkerType
  <2>5. \A n \in Markers : n # 1 => marker'[n] = marker[n]
        BY <1>2, <1>5
  <2> QED
      BY <1>3, <2>3, <2>4, <2>5
<1>9. \A u \in Workers : Generating(u)' <=> u = w
      BY <1>2, <1>6, <1>7 DEF Generating
<1>10. \A j \in Shards : Pending(j)' <=> Pending(j)
       BY <1>2, <1>4, <1>5, <1>6, <1>7, <1>9 DEF Pending
<1>11. \A j \in Shards : ShardInv(j)' /\ (j \in Busy' <=> j \in Busy)
       BY <1>1, <1>5, <1>6, <1>10, ShardKept DEF Faultless, ShardsInv, CarryingPCs
<1>12. Busy' = Busy
       BY <1>11 DEF Busy
<1>13. Submitting' /\ ~Submitting
       BY <1>1, <1>2, <1>6, <1>7 DEF Submitting, Generating
<1>14. GeneratorInv'
       BY <1>2, <1>3, <1>5, <1>6, <1>7, <1>8, <1>9 DEF Faultless, GeneratorInv, Generating
<1>15. TasksInv'
       BY <1>1, <1>5, <1>6, <1>7 DEF Faultless, TasksInv, TaskOK, CarryingPCs
<1>16. CountInv'
  <2>1. marker[1].count \in Nat /\ marker[1].complete \in Nat /\ Cardinality(Busy) \in Nat
        BY <1>2, BusyFinite DEF MarkerType
  <2>2. marker[1].count - marker[1].complete = Cardinality(Busy)
        BY <1>3, <1>13, <2>1 DEF Faultless, CountInv
  <2> QED
      BY <1>8, <1>12, <1>13, <2>1, <2>2 DEF CountInv
<1>17. FinalizeInv'
  <2>1. ~Underway'
        BY <1>1, <1>2, <1>5, <1>6, <1>7 DEF Underway
  <2> QED
      BY <1>8, <1>9, <2>1 DEF FinalizeInv
<1> QED
    BY <1>11, <1>14, <1>15, <1>16, <1>17 DEF Faultless, ShardsInv

\* A shard's task is queued; it was counted before.
LEMMA SubmitShardFaultless ==
  ASSUME IInv, Faultless, NEW w \in Workers, SubmitShard(w) PROVE Faultless'
<1>1. work[w].pc = "submitShard" /\ Generating(w) /\ UNCHANGED <<marker, called, finalized>>
      BY DEF SubmitShard, At, Generating
<1>2. PICK i : i = work[w].shard
      OBVIOUS
<1>3. /\ work[w] \in WorkType /\ work[w].mk = 1 /\ i \in Shards /\ i \in Nat
      /\ \A u \in Workers : Generating(u) <=> u = w
      /\ queue[GenerateTask] = 0 /\ ~Underway
      /\ \A j \in Shards : Pending(j) <=> i <= j
      /\ marker \in [Markers -> MarkerType] /\ 1 \in Markers
      BY <1>1, <1>2, GeneratorFacts, KeyTypes
<1>4. marker[1].state = "live" /\ (marker[1].ready => i = ShardCount)
      BY <1>1, <1>2 DEF Faultless, GeneratorInv
<1>5. /\ Waiting(i) = {} /\ Carrying(i) = {} /\ i \notin Busy /\ CalledUpTo(i, 0)
      /\ Lo[i] \in Nat
      BY <1>3, KeyTypes DEF Faultless, ShardsInv, ShardInv, Busy
<1>6. PICK r : r = IF i < ShardCount
                   THEN [work[w] EXCEPT !.pc = "make", !.shard = i + 1, !.tries = 0]
                   ELSE [work[w] EXCEPT !.pc = "reply"]
      OBVIOUS
<1>7. PICK x : x = ShardTask(1, i, Lo[i])
      OBVIOUS
<1>8. work' = [work EXCEPT ![w] = r] /\ Queued(x)
      BY <1>2, <1>3, <1>6, <1>7 DEF SubmitShard, Become
<1>9. x \in ShardTasks /\ x \in Tasks /\ x.marker = 1 /\ x.shard = i /\ x.from = Lo[i]
      /\ CanStart(i, x.from)
      BY <1>3, <1>5, <1>7, ShardTaskType, TaskTypes DEF CanStart
<1>10. IF i < ShardCount THEN r.pc = "make" /\ r.mk = 1 /\ r.shard = i + 1 ELSE r.pc = "reply"
       BY <1>3, <1>6 DEF WorkType
<1>11. \A u \in Workers : work'[u] = IF u = w THEN r ELSE work[u]
       BY <1>8, WorkAfter
<1>12. queue[x] = 0 /\ \A y \in Tasks : queue'[y] = IF y = x THEN 1 ELSE queue[y]
  <2>1. queue \in [Tasks -> Nat] /\ queue' = [queue EXCEPT ![x] = @ + 1]
        BY <1>8 DEF IInv, TypeOK, Queued
  <2>2. queue[x] \in Nat /\ ~(queue[x] > 0)
        BY <1>5, <1>9, <2>1 DEF Waiting
  <2> QED
      BY <1>9, <2>1, <2>2
<1>13. queue'[GenerateTask] = 0
       BY <1>3, <1>9, <1>12, TaskTypes, TaskKinds
<1>14. \A u \in Workers : Generating(u)' <=> u = w /\ i < ShardCount
       BY <1>3, <1>10, <1>11 DEF Generating
<1>15. \A j \in Shards : Pending(j)' <=> i + 1 <= j
  <2>1. \A j \in Shards : j \in Nat /\ j <= ShardCount
        BY DEF Shards
  <2> QED
      BY <1>3, <1>10, <1>11, <1>13, <1>14, <2>1, CountsAssumption DEF Pending
<1>16. ShardInv(i)' /\ i \in Busy'
  <2>1. Waiting(i)' = {x}
        BY <1>5, <1>9, <1>12, TaskTypes DEF Waiting
  <2>2. Carrying(i)' = {}
        BY <1>5, <1>10, <1>11 DEF Carrying, CarryingPCs
  <2>3. CalledUpTo(i, Lo[i])'
    <3> SUFFICES ASSUME NEW k \in KeysOf(i) PROVE called[k] = IF k < Lo[i] THEN 1 ELSE 0
        BY <1>1 DEF CalledUpTo
    <3>1. k \in Nat /\ ~(k < Lo[i])
          BY <1>3, KeyTypes DEF KeysOf
    <3> QED
        BY <1>5, <3>1 DEF CalledUpTo
  <2>4. ~Pending(i)' /\ i \in Busy'
        BY <1>3, <1>15, <2>1 DEF Busy
  <2> QED
      BY <1>9, <2>1, <2>2, <2>3, <2>4 DEF ShardInv
<1>17. ASSUME NEW j \in Shards, j # i PROVE ShardInv(j)' /\ (j \in Busy' <=> j \in Busy)
  <2>1. Pending(j)' <=> Pending(j)
        BY <1>3, <1>15, <1>17, KeyTypes
  <2>2. \A y \in ShardTasks : y.shard = j => queue'[y] = queue[y]
        BY <1>9, <1>12, <1>17, TaskTypes
  <2>3. work[w].pc \notin CarryingPCs /\ r.pc \notin CarryingPCs
        BY <1>1, <1>10 DEF CarryingPCs
  <2>4. \A k \in KeysOf(j) : called'[k] = called[k]
        BY <1>1
  <2> QED
      BY <1>8, <2>1, <2>2, <2>3, <2>4, ShardKept DEF Faultless, ShardsInv
<1>18. Busy' = Busy \cup {i}
  <2>1. Busy \subseteq Shards /\ Busy' \subseteq Shards
        BY DEF Busy
  <2> QED
      BY <1>16, <1>17, <2>1
<1>19. ~Submitting' /\ Submitting
       BY <1>1, <1>10, <1>11, <1>14 DEF Submitting, Generating
<1>20. GeneratorInv'
  <2>1. \A u \in Workers : work'[u].pc # "create" /\ work[u].pc # "create"
        BY <1>1, <1>3, <1>10, <1>11 DEF Generating
  <2>2. \A u \in Workers :
          /\ Generating(u)' => work'[u].mk = 1
          /\ work'[u].pc = "make" => marker'[1].state = "live" /\ ~marker'[1].ready
          /\ work'[u].pc # "submitShard"
        BY <1>1, <1>3, <1>4, <1>10, <1>11, <1>14 DEF Generating
  <2> QED
      BY <1>1, <1>4, <1>13, <1>14, <2>1, <2>2 DEF Faultless, GeneratorInv
<1>21. TasksInv'
  <2>1. TaskOK(r)
        BY <1>10 DEF TaskOK, CarryingPCs
  <2>2. \A m \in Markers : queue'[FinalizeTask(m)] = queue[FinalizeTask(m)]
        BY <1>9, <1>12, TaskTypes, TaskKinds
  <2>3. \A y \in ShardTasks : /\ queue'[y] <= 1
                              /\ queue'[y] > 0 => y.marker = 1 /\ CanStart(y.shard, y.from)
        BY <1>9, <1>12, TaskTypes DEF Faultless, TasksInv
  <2> QED
      BY <1>1, <1>11, <2>1, <2>2, <2>3 DEF Faultless, TasksInv
<1>22. CountInv'
  <2>1. /\ Cardinality(Busy') = Cardinality(Busy) + 1 /\ Cardinality(Busy) \in Nat
        BY <1>5, <1>18, BusyFinite, FS_AddElement
  <2>2. marker[1].count - marker[1].complete = Cardinality(Busy) + 1
        BY <1>4, <1>19 DEF Faultless, CountInv
  <2> QED
      BY <1>1, <1>4, <1>19, <2>1, <2>2 DEF CountInv
<1>23. FinalizeInv'
  <2>1. ~Underway'
    <3>1. queue'[FinalizeTask(1)] = queue[FinalizeTask(1)]
          BY <1>3, <1>9, <1>12, TaskTypes, TaskKinds
    <3> QED
        BY <1>1, <1>3, <1>10, <1>11, <3>1 DEF Underway
  <2> QED
      BY <1>1, <1>4, <1>16, <2>1 DEF FinalizeInv
<1> QED
    BY <1>16, <1>17, <1>20, <1>21, <1>22, <1>23 DEF Faultless, ShardsInv
-----------------------------------------------------------------------------
\* A step after which no fault has happened is no fault.
LEMMA NoFaultYet ==
  ASSUME IInv, NoFault \/ \E kind \in FaultKinds : Fault(kind), Undisturbed'
  PROVE  Undisturbed /\ NoFault
<1>1. faults \in 0..MaxFaults
      BY DEF IInv, TypeOK
<1> QED
    BY <1>1, CountsAssumption DEF Undisturbed, NoFault, Fault

\* All that happens without a fault keeps the invariant.
LEMMA StepFaultless ==
  ASSUME IInv, NEW w \in Workers, Undisturbed',
         (\E x \in Tasks : Deliver(w, x)) \/ Progress(w) \/ Setback(w)
  PROVE  Undisturbed /\ (Faultless => Faultless')
<1>1. ASSUME NEW x \in Tasks, Deliver(w, x)
      PROVE  Undisturbed /\ (Faultless => Faultless')
  <2>1. NoFault \/ \E kind \in FaultKinds : Fault(kind)
        BY <1>1 DEF Deliver, Fault
  <2> QED
      BY <1>1, <2>1, NoFaultYet, DeliverFaultless
<1>2. CASE Progress(w)
  <2>1. NoFault
        BY <1>2 DEF Progress, Reply, RunFinalize, CreateMarker, MakeShard, SubmitShard, Fetch,
           CallbackReturns, Redefer, EndIteration, MarkComplete, SubmitFinalize
  <2> QED
      BY <1>2, <2>1, NoFaultYet, EndsFaultless, CreateMarkerFaultless, MakeShardFaultless,
         SubmitShardFaultless, FetchFaultless, CallbackReturnsFaultless, RedeferFaultless,
         MarkCompleteFaultless DEF Progress
<1>3. CASE CallbackRaises(w) \/ TimesOut(w) \/ FinalizeRaises(w)
  <2>1. NoFault
        BY <1>3 DEF CallbackRaises, TimesOut, FinalizeRaises
  <2> QED
      BY <1>3, <2>1, NoFaultYet, EndsFaultless, FetchFaultless, CallbackRaisesFaultless
<1>4. CASE Crash(w) \/ GivesUp(w) \/ MakeAttemptFails(w) \/ RedeferFails(w) \/ MarkAttemptFails(w)
  <2>1. \E kind : Fault(kind)
        BY <1>4 DEF Crash, GivesUp, MakeAttemptFails, RedeferFails, MarkAttemptFails
  <2>2. ~(Undisturbed')
        BY <2>1, CountsAssumption DEF Fault, Undisturbed, IInv, TypeOK
  <2> QED
      BY <2>2
<1> QED
    BY <1>1, <1>2, <1>3, <1>4 DEF Setback

LEMMA NextFaultless ==
  ASSUME IInv, [Next]_vars, Undisturbed'
  PROVE  Undisturbed /\ (Faultless => Faultless')
<1>1. CASE Next
      BY <1>1, StepFaultless DEF Next
<1>2. CASE UNCHANGED vars
  <2>1. UNCHANGED <<delete, marker, queue, work, called, finalized, faults>>
        BY <1>2 DEF vars
  <2>2. Undisturbed
        BY <2>1 DEF Undisturbed
  <2>3. GeneratorInv' = GeneratorInv
        BY <2>1 DEF GeneratorInv, Generating
  <2>4. TasksInv' = TasksInv
        BY <2>1 DEF TasksInv
  <2>5. ShardsInv' = ShardsInv
        BY <2>1 DEF ShardsInv, ShardInv, Waiting, Carrying, Busy, Pending, Generating, CalledUpTo
  <2>6. CountInv' = CountInv
        BY <2>1 DEF CountInv, Busy, Waiting, Carrying, Submitting
  <2>7. FinalizeInv' = FinalizeInv
        BY <2>1 DEF FinalizeInv, Underway, Busy, Waiting, Carrying, Pending, Generating
  <2> QED
      BY <2>2, <2>3, <2>4, <2>5, <2>6, <2>7 DEF Faultless
<1> QED
    BY <1>1, <1>2

\* However callbacks time out and fail and workers interleave: one generator,
\* one task for each shard, and counts that agree with them.
THEOREM FaultlessHolds == Spec => []FaultlessInv
<1>1. Init => FaultlessInv
      BY InitFaultless DEF FaultlessInv
<1>2. IInv /\ FaultlessInv /\ [Next]_vars => FaultlessInv'
  <2> SUFFICES ASSUME IInv, FaultlessInv, [Next]_vars, Undisturbed' PROVE Faultless'
      BY DEF FaultlessInv
  <2> QED
      BY NextFaultless DEF FaultlessInv
<1> QED
    BY IInvHolds, <1>1, <1>2, PTL DEF Spec

\* Where each instance is, in an undisturbed iteration.
LEMMA KeyOfShard ==
  ASSUME NEW k \in Keys
  PROVE  \E i \in Shards : k \in KeysOf(i) /\ k <= Hi[i] /\ k < Hi[i] + 1
<1>1. PICK i \in Shards : k \in KeysOf(i)
      BY DEF Keys
<1>2. Lo[i] \in Nat /\ Hi[i] \in Nat
      BY KeyTypes
<1> QED
    BY <1>1, <1>2 DEF KeysOf

\* Without faults finalize is not even on its way while an instance has not been
\* through the callback (deferred.py:409-430).
THEOREM FinalizeLast == Spec => []FinalizeComesLast
<1>1. ASSUME IInv, FaultlessInv PROVE FinalizeComesLast
  <2> SUFFICES ASSUME Undisturbed, NEW m \in Markers, FinalizeDue(m), NEW k \in Keys
               PROVE  called[k] > 0
      BY DEF FinalizeComesLast, FinalizeAfterAll, Processed
  <2>1. Faultless
        BY <1>1 DEF FaultlessInv
  <2>2. Underway
        BY <2>1 DEF FinalizeDue, Underway, Faultless, TasksInv, TaskOK
  <2>3. PICK i \in Shards : k \in KeysOf(i) /\ k < Hi[i] + 1
        BY KeyOfShard
  <2>4. ~Pending(i) /\ i \notin Busy
        BY <2>1, <2>2 DEF Faultless, FinalizeInv
  <2>5. CalledUpTo(i, Hi[i] + 1)
        BY <2>1, <2>4 DEF Faultless, ShardsInv, ShardInv
  <2>6. called[k] = 1
        BY <2>3, <2>5 DEF CalledUpTo
  <2> QED
      BY <2>6
<1> QED
    BY IInvHolds, FaultlessHolds, <1>1, PTL

\* Timeouts and exceptions alone make no instance go through the callback twice
\* (deferred.py:432-458), when no instance is in the key ranges of two shards
\* (RangesAssumption).
THEOREM OnceEach == Spec => []NoInstanceTwice
<1>1. ASSUME IInv, FaultlessInv PROVE NoInstanceTwice
  <2> SUFFICES ASSUME Undisturbed, NEW k \in Keys PROVE called[k] < 2
      BY DEF NoInstanceTwice
  <2>1. PICK i \in Shards : k \in KeysOf(i)
        BY KeyOfShard
  <2>2. ShardInv(i)
        BY <1>1 DEF FaultlessInv, Faultless, ShardsInv
  <2>3. \E p : CalledUpTo(i, p)
    <3>1. CASE Pending(i)
          BY <2>2, <3>1 DEF ShardInv
    <3>2. CASE ~Pending(i) /\ i \notin Busy
          BY <2>2, <3>2 DEF ShardInv
    <3>3. CASE i \in Busy
          BY <2>2, <3>3 DEF ShardInv, Busy
    <3> QED
        BY <3>1, <3>2, <3>3
  <2>4. called[k] = 0 \/ called[k] = 1
        BY <2>1, <2>3 DEF CalledUpTo
  <2> QED
      BY <2>4
<1> QED
    BY IInvHolds, FaultlessHolds, <1>1, PTL

\* Without faults, when nothing is left to do, finalize has run
\* (deferred.py:416-430).
THEOREM RestFinalized == Spec => []QuiescentMeansFinalized
<1>1. ASSUME IInv, FaultlessInv PROVE QuiescentMeansFinalized
  <2> SUFFICES ASSUME Undisturbed, \A x \in Tasks : queue[x] = 0,
                      \A w \in Workers : work[w].pc = "idle"
               PROVE  \E m \in Markers : finalized[m] > 0
      BY DEF QuiescentMeansFinalized, At
  <2>1. Faultless
        BY <1>1 DEF FaultlessInv
  <2>2. \A w \in Workers : /\ ~Generating(w) /\ work[w].pc \notin CarryingPCs
                          /\ work[w].pc \notin {"create", "submitFinalize", "finalize"}
        BY DEF Generating, CarryingPCs
  <2>3. queue[GenerateTask] = 0 /\ queue[FinalizeTask(1)] = 0 /\ \A x \in ShardTasks : queue[x] = 0
        BY TaskTypes, KeyTypes
  <2>4. Busy = {}
        BY <2>2, <2>3 DEF Busy, Waiting, Carrying
  <2>5. marker[1].state # "unused"
        BY <2>1, <2>2, <2>3 DEF Faultless, GeneratorInv
  <2>6. Underway
        BY <2>1, <2>2, <2>4, <2>5 DEF Faultless, FinalizeInv
  <2>7. finalized[1] > 0
        BY <2>2, <2>3, <2>6 DEF Underway
  <2> QED
      BY <2>7, KeyTypes
<1> QED
    BY IInvHolds, FaultlessHolds, <1>1, PTL
\* Without faults each counted shard is either complete or carried on by exactly
\* one task (deferred.py:403-430, 487-503).
LEMMA ChainFacts ==
  ASSUME IInv, Faultless, NEW m \in Markers, NEW i \in Shards
  PROVE  /\ \A c, d \in Chains(m, i) : c = d
         /\ Chains(m, i) # {} => m = 1 /\ i \in Busy
         /\ i \in Busy => Chains(1, i) # {}
<1>1. ShardInv(i)
      BY DEF Faultless, ShardsInv
<1>2. ASSUME NEW c \in Chains(m, i)
      PROVE  /\ m = 1
             /\ \/ \E x \in Waiting(i) : c = <<"queue", x>>
                \/ \E w \in Carrying(i) : c = <<"work", w>>
  <2>1. CASE \E x \in ShardTasks : /\ x.marker = m /\ x.shard = i /\ queue[x] > 0
                                   /\ c = <<"queue", x>>
        BY <2>1 DEF Faultless, TasksInv, Waiting
  <2>2. CASE \E w \in Workers : /\ work[w].mk = m /\ work[w].shard = i
                                /\ work[w].pc \in CarryingPCs /\ c = <<"work", w>>
        BY <2>2 DEF Faultless, TasksInv, TaskOK, Carrying
  <2> QED
      BY <1>2, <2>1, <2>2 DEF Chains, CarryingPCs
<1>3. \A c, d \in Chains(m, i) : c = d
      BY <1>1, <1>2 DEF ShardInv
<1>4. Chains(m, i) # {} => m = 1 /\ i \in Busy
      BY <1>2 DEF Busy
<1>5. ASSUME NEW x \in Waiting(i) PROVE <<"queue", x>> \in Chains(1, i)
      BY <1>5 DEF Waiting, Chains, Faultless, TasksInv
<1>6. ASSUME NEW w \in Carrying(i) PROVE <<"work", w>> \in Chains(1, i)
      BY <1>6, WorkFacts DEF Carrying, Chains, Faultless, TasksInv, TaskOK, WorkOK, CarryingPCs
<1> QED
    BY <1>3, <1>4, <1>5, <1>6 DEF Busy

\* A set without two different elements has none or one.
LEMMA AtMostOne ==
  ASSUME NEW S, \A c, d \in S : c = d
  PROVE  Cardinality(S) = IF S = {} THEN 0 ELSE 1
<1>1. CASE S = {}
      BY <1>1, FS_EmptySet
<1>2. CASE S # {}
  <2>1. PICK c : S = {c}
        BY <1>2
  <2> QED
      BY <1>2, <2>1, FS_Singleton
<1> QED
    BY <1>1, <1>2

\* The marker's counters tell the truth, as long as there is no fault
\* (deferred.py:403-430, 487-503).
THEOREM CountersTrue == Spec => []CountersExact
<1>1. ASSUME IInv, FaultlessInv PROVE CountersExact
  <2>1. TypeOK
        BY <1>1 DEF IInv
  <2>2. ASSUME Undisturbed, NEW m \in Markers, NEW i \in Shards
        PROVE  Cardinality(Chains(m, i)) <= 1
    <3>1. \A c, d \in Chains(m, i) : c = d
          BY <1>1, <2>2, ChainFacts DEF FaultlessInv
    <3> QED
        BY <3>1, AtMostOne
  <2>3. ASSUME Undisturbed, NEW m \in Markers, marker[m].state = "live", marker[m].ready
        PROVE  marker[m].count - marker[m].complete
                 = Cardinality({i \in Shards : Chains(m, i) # {}})
                   + Cardinality({w \in Workers : work[w].mk = m /\ work[w].pc = "submitShard"})
    <3> DEFINE Submitters == {w \in Workers : work[w].mk = m /\ work[w].pc = "submitShard"}
    <3>1. Faultless
          BY <1>1, <2>3 DEF FaultlessInv
    <3>2. m = 1
          BY <2>3, <3>1 DEF Faultless, GeneratorInv
    <3>3. {i \in Shards : Chains(m, i) # {}} = Busy
          BY <1>1, <3>1, <3>2, ChainFacts DEF Busy
    <3>4. \A w, v \in Submitters : w = v
          BY <3>1 DEF Faultless, GeneratorInv, Generating
    <3>5. Submitters # {} <=> Submitting
          BY <3>1, <3>2 DEF Faultless, GeneratorInv, Generating, Submitting
    <3>6. Cardinality(Submitters) = IF Submitting THEN 1 ELSE 0
      <4> HIDE DEF Submitters
      <4> QED
          BY <3>4, <3>5, AtMostOne
    <3>7. marker[1].count - marker[1].complete
            = Cardinality(Busy) + (IF Submitting THEN 1 ELSE 0)
          BY <2>3, <3>1, <3>2 DEF Faultless, CountInv
    <3> QED
        BY <3>2, <3>3, <3>6, <3>7
  <2> QED
      BY <2>1, <2>2, <2>3 DEF CountersExact
<1> QED
    BY IInvHolds, FaultlessHolds, <1>1, PTL

\* A kept marker that reports is_finished goes on doing so, as long as there is
\* no fault (models.py:27-29).
THEOREM StaysFinished == Spec => FinishedForGood
<1>1. ASSUME IInv, FaultlessInv, [Next]_vars
      PROVE  Undisturbed' => \A m \in Markers : IsFinished(marker[m]) => IsFinished(marker'[m])
  <2> SUFFICES ASSUME Undisturbed', NEW m \in Markers, IsFinished(marker[m]),
                      marker'[m] # marker[m]
               PROVE  FALSE
      OBVIOUS
  <2>1. Faultless
        BY <1>1, NextFaultless DEF FaultlessInv
  <2>2. PICK w \in Workers : (\E x \in Tasks : Deliver(w, x)) \/ Progress(w) \/ Setback(w)
        BY <1>1 DEF Next, vars
  <2>3. marker \in [Markers -> MarkerType]
        BY <1>1 DEF IInv, TypeOK, MarkerType
  <2>4. marker[m].ready /\ marker[m].count = marker[m].complete
        BY DEF IsFinished
  <2>5. CASE CreateMarker(w)
    <3>1. marker[m].state = "unused"
          BY <2>3, <2>5 DEF CreateMarker
    <3> QED
        BY <1>1, <2>4, <3>1 DEF IInv, MarkerInv, MarkerOK
  <2>6. CASE MakeShard(w)
    <3>1. work[w].pc = "make" /\ m = work[w].mk
          BY <2>3, <2>6 DEF MakeShard, At
    <3> QED
        BY <2>1, <2>4, <3>1 DEF Faultless, GeneratorInv, Generating
  <2>7. CASE MarkComplete(w)
    <3>1. work[w].pc \in CarryingPCs /\ m = work[w].mk
          BY <2>3, <2>7 DEF MarkComplete, At, CarryingPCs
    <3>2. m = 1 /\ marker[1].state = "live"
          BY <1>1, <2>1, <3>1, MarkerLive DEF Faultless, TasksInv, TaskOK
    <3>3. Busy # {}
          BY <1>1, <2>1, <3>1, OwnShard
    <3>4. Cardinality(Busy) > 0
          BY <3>3, BusyFinite, FS_EmptySet
    <3>5. marker[1].count - marker[1].complete # 0
          BY <2>1, <3>2, <3>4, BusyFinite DEF Faultless, CountInv
    <3>6. marker[1].count \in Nat
          BY <2>3, KeyTypes DEF MarkerType
    <3> QED
        BY <2>4, <3>2, <3>5, <3>6
  <2>8. CASE MakeAttemptFails(w)
    <3>1. Fault("database") \/ Fault("submit")
          BY <2>8 DEF MakeAttemptFails
    <3> QED
        BY <1>1, <3>1, CountsAssumption DEF Fault, Undisturbed, IInv, TypeOK
  <2>9. CASE UNCHANGED marker
        BY <2>9
  <2> QED
      BY <2>2, <2>5, <2>6, <2>7, <2>8, <2>9 DEF Progress, Setback, Deliver, Reply, RunFinalize,
         SubmitShard, Fetch, CallbackReturns, Redefer, EndIteration, SubmitFinalize, Crash,
         CallbackRaises, GivesUp, TimesOut, FinalizeRaises, RedeferFails, MarkAttemptFails
<1> QED
    BY IInvHolds, FaultlessHolds, <1>1, PTL DEF Spec, FinishedForGood
=============================================================================
