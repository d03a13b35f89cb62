---------------------------- MODULE Helpers_proofs ----------------------------
(***************************************************************************)
(* The lock decorator implements the abstract mutex; the views of tasks    *)
(* are entered by tasks, with their own shard index; all processes get the *)
(* same secret; a program is answered by the emulator it has started;      *)
(* reading in batches or pages misses nothing; every row of a table        *)
(* belongs to one of the key ranges it is divided into; the weak lock      *)
(* excludes except in the wake of a steal, and is never left behind; and a *)
(* model instance at rest is found by what it says.                        *)
(***************************************************************************)
EXTENDS LocknessMonster, Secrets, TaskEnvironment, Sandbox, Batches, KeyRanges,
        MemcacheLock, ModelDocument, Ranks, FiniteSetTheorems, SequenceTheorems, TLAPS
-----------------------------------------------------------------------------
\* At most one thread has an acquired lock, and it exists.
MonsterInv ==
  /\ monsterAt \in [Users -> MonsterPCs] /\ taken \in BOOLEAN
  /\ \A s, t \in LockHolders : s = t
  /\ LockHolders # {} => taken

HolderPCs == {"gotLock", "running", "release"}

\* Who holds a lock after a step of one thread.
LEMMA HoldersMove ==
  ASSUME MonsterInv, NEW t \in Users, NEW from, NEW to, Goes(t, from, to)
  PROVE  /\ (from \in HolderPCs) = (t \in LockHolders)
         /\ LockHolders' = IF to \in HolderPCs THEN LockHolders \cup {t} ELSE LockHolders \ {t}
<1>1. \A u \in Users : monsterAt'[u] = IF u = t THEN to ELSE monsterAt[u]
      BY DEF Goes, MonsterInv
<1> QED
    BY <1>1 DEF Goes, LockHolders, HolderPCs

\* Each step of a thread is one of the service, or none, and keeps the invariant:
\* the steps that release end the section of the only holder, whether self.lock
\* is still there or not (lock.py:78-92).
LEMMA StepServes ==
  ASSUME MonsterInv, NEW t \in Users, Enter(t) \/ MonsterStep(t)
  PROVE  MonsterInv' /\ [Service!Next]_(Service!vars)
<1>1. ASSUME NEW from, NEW to \in MonsterPCs, Goes(t, from, to),
             (from \in HolderPCs) = (to \in HolderPCs), taken' = taken
      PROVE  MonsterInv' /\ [Service!Next]_(Service!vars)
  <2>1. LockHolders' = LockHolders
        BY <1>1, HoldersMove
  <2>2. monsterAt' \in [Users -> MonsterPCs]
        BY <1>1 DEF Goes, MonsterInv
  <2> QED
      BY <1>1, <2>1, <2>2 DEF MonsterInv, Service!vars
<1>2. CASE AcquireReturnsLock(t)
  <2>1. Goes(t, "acquiring", "gotLock") /\ ~taken /\ taken' = TRUE
        BY <1>2 DEF AcquireReturnsLock
  <2>2. LockHolders = {} /\ LockHolders' = {t}
        BY <2>1, HoldersMove DEF MonsterInv, HolderPCs
  <2>3. monsterAt' \in [Users -> MonsterPCs]
        BY <2>1 DEF Goes, MonsterInv, MonsterPCs
  <2>4. Service!Take(t)
        BY <2>2 DEF Service!Take
  <2> QED
      BY <2>1, <2>2, <2>3, <2>4 DEF MonsterInv, Service!Next
<1>3. ASSUME NEW from \in HolderPCs, NEW to \in MonsterPCs \ HolderPCs, Goes(t, from, to),
             taken' \in {taken, FALSE}
      PROVE  MonsterInv' /\ [Service!Next]_(Service!vars)
  <2>1. LockHolders = {t} /\ LockHolders' = {} /\ taken
        BY <1>3, HoldersMove DEF MonsterInv
  <2>2. monsterAt' \in [Users -> MonsterPCs]
        BY <1>3 DEF Goes, MonsterInv
  <2>3. CASE taken' = taken
    <3>1. Service!Die(t)
          BY <2>1, <2>3 DEF Service!Die, MonsterInv
    <3> QED
        BY <2>1, <2>2, <2>3, <3>1 DEF MonsterInv, Service!Next
  <2>4. CASE taken' = FALSE
    <3>1. Service!GiveBack(t)
          BY <2>1, <2>4 DEF Service!GiveBack
    <3> QED
        BY <2>1, <2>2, <2>4, <3>1 DEF MonsterInv, Service!Next
  <2> QED
      BY <1>3, <2>3, <2>4
<1>4. CASE Enter(t) \/ AcquireReturnsNone(t) \/ StoreLock(t) \/ StoreNone(t) \/ ClearSelfLock(t)
  <2>1. /\ taken' = taken
        /\ \/ \E to \in {"acquiring", "gotNone", "idle"}, from \in MonsterPCs \ HolderPCs : Goes(t, from, to)
           \/ Goes(t, "gotLock", "running")
        BY <1>4 DEF Enter, AcquireReturnsNone, StoreLock, StoreNone, ClearSelfLock, MonsterPCs, HolderPCs
  <2>2. CASE Goes(t, "gotLock", "running")
        BY <1>1, <2>1, <2>2 DEF MonsterPCs, HolderPCs
  <2>3. ASSUME NEW to \in {"acquiring", "gotNone", "idle"}, NEW from \in MonsterPCs \ HolderPCs,
               Goes(t, from, to)
        PROVE  MonsterInv' /\ [Service!Next]_(Service!vars)
        BY <1>1, <2>1, <2>3 DEF MonsterPCs, HolderPCs
  <2> QED
      BY <2>1, <2>2, <2>3
<1>5. CASE TestSelfLock(t)
  <2>1. CASE Goes(t, "running", "release")
        BY <1>1, <1>5, <2>1 DEF TestSelfLock, MonsterPCs, HolderPCs
  <2>2. CASE Goes(t, "running", "idle")
        BY <1>3, <1>5, <2>2 DEF TestSelfLock, MonsterPCs, HolderPCs
  <2> QED
      BY <1>5, <2>1, <2>2 DEF TestSelfLock
<1>6. CASE ReleaseSelfLock(t)
  <2>1. PICK to \in {"clear", "idle"} : Goes(t, "release", to)
        BY <1>6 DEF ReleaseSelfLock
  <2>2. taken' \in {taken, FALSE}
        BY <1>6 DEF ReleaseSelfLock
  <2> QED
      BY <1>3, <2>1, <2>2 DEF MonsterPCs, HolderPCs
<1> QED
    BY <1>2, <1>4, <1>5, <1>6 DEF MonsterStep

LEMMA NextServes ==
  ASSUME MonsterInv, [MonsterNext]_monsterVars PROVE MonsterInv' /\ [Service!Next]_(Service!vars)
<1>1. CASE UNCHANGED monsterVars
      BY <1>1 DEF monsterVars, MonsterInv, LockHolders, Service!vars
<1>2. CASE Reap
  <2>1. LockHolders' = LockHolders
        BY <1>2 DEF Reap, LockHolders
  <2>2. Service!Reap
        BY <1>2, <2>1 DEF Reap, Service!Reap
  <2> QED
      BY <1>2, <2>1, <2>2 DEF Reap, MonsterInv, Service!Next
<1> QED
    BY <1>1, <1>2, StepServes DEF MonsterNext

\* Even on a shared object the decorator excludes: whatever the threads do to
\* self.lock, nobody's lock is released while it runs (lock.py:83-91).
THEOREM DecoratorExcludes == MonsterSpec => ImplementsMutex
<1>1. MonsterInit => MonsterInv /\ Service!Init
  <2> SUFFICES ASSUME MonsterInit PROVE MonsterInv /\ Service!Init
      OBVIOUS
  <2>1. LockHolders = {} /\ taken = FALSE /\ monsterAt \in [Users -> MonsterPCs]
        BY DEF MonsterInit, LockHolders, MonsterPCs
  <2> QED
      BY <2>1 DEF MonsterInv, Service!Init
<1>2. MonsterInv /\ [MonsterNext]_monsterVars => MonsterInv' /\ [Service!Next]_(Service!vars)
      BY NextServes
<1> QED
    BY <1>1, <1>2, PTL DEF MonsterSpec, ImplementsMutex, Service!Spec
-----------------------------------------------------------------------------
RequestType ==
  [at : {"free", "entered", "inside", "iterating", "answered"}, by : Senders,
   safe : BOOLEAN, view : Views, shard : ShardNumbers \cup {NoShard}]
EnvTypeOK ==
  /\ serving \in [Workers -> RequestType]
  /\ taskEnv \in [Workers -> [task : BOOLEAN, cron : BOOLEAN]]
  /\ shardIndex \in [Workers -> ShardNumbers \cup {NoShard}]

\* A request sees its own headers from the middleware on; whoever is inside has
\* been let in by them; an iteration finds the index of its own shard.
RequestOK(q, env, index) ==
  /\ q.at # "free" => env = Headers(q.by)
  /\ q.at \in {"inside", "iterating"} =>
       \/ env.task \/ env.cron
       \/ q.view = "csrf_exempt_if_task" /\ q.safe
       \/ q.view = "task_or_superuser_only" /\ q.by = "superuser"
       \/ q.view = "internal_only"
  /\ q.at = "iterating" => index = q.shard
EnvInv == EnvTypeOK /\ \A w \in Workers : RequestOK(serving[w], taskEnv[w], shardIndex[w])

\* A step of one thread leaves the others as they are.
LEMMA OneRequest ==
  ASSUME EnvInv, NEW w \in Workers, NEW q \in RequestType, NEW env, NEW index,
         env \in [task : BOOLEAN, cron : BOOLEAN], index \in ShardNumbers \cup {NoShard},
         serving' = [serving EXCEPT ![w] = q], taskEnv' = [taskEnv EXCEPT ![w] = env],
         shardIndex' = [shardIndex EXCEPT ![w] = index], RequestOK(q, env, index)
  PROVE  EnvInv'
<1>1. EnvTypeOK'
      BY DEF EnvInv, EnvTypeOK
<1>2. \A v \in Workers :
        /\ serving'[v] = IF v = w THEN q ELSE serving[v]
        /\ taskEnv'[v] = IF v = w THEN env ELSE taskEnv[v]
        /\ shardIndex'[v] = IF v = w THEN index ELSE shardIndex[v]
      BY DEF EnvInv, EnvTypeOK
<1>3. \A v \in Workers : RequestOK(serving'[v], taskEnv'[v], shardIndex'[v])
      BY <1>2 DEF EnvInv
<1> QED
    BY <1>1, <1>3 DEF EnvInv, RequestOK

LEMMA EnvInit == TaskEnvInit => EnvInv
<1> SUFFICES ASSUME TaskEnvInit PROVE EnvInv
    OBVIOUS
<1>1. Free \in RequestType /\ Unset \in [task : BOOLEAN, cron : BOOLEAN]
      BY DEF Free, Unset, RequestType, Senders, Views
<1>2. Free.at = "free"
      BY DEF Free
<1> QED
    BY <1>1, <1>2 DEF TaskEnvInit, EnvInv, EnvTypeOK, RequestOK

LEMMA EnvNext == ASSUME EnvInv, [TaskEnvNext]_(taskEnvVars) PROVE EnvInv'
<1>1. CASE UNCHANGED taskEnvVars
      BY <1>1 DEF taskEnvVars, EnvInv, EnvTypeOK, RequestOK
<1>2. CASE TaskEnvNext
  <2>1. PICK w \in Workers :
          \/ \E by \in Senders, safe \in BOOLEAN, view \in Views, shard \in ShardNumbers \cup {NoShard} :
               Arrive(w, by, safe, view, shard)
          \/ Decorated(w) \/ StartShard(w) \/ EndShard(w) \/ Return(w)
          \/ Depart(w)
        BY <1>2 DEF TaskEnvNext
  <2>2. PICK q, env, index : q = serving[w] /\ env = taskEnv[w] /\ index = shardIndex[w]
        OBVIOUS
  <2>3. /\ q \in RequestType /\ env \in [task : BOOLEAN, cron : BOOLEAN]
        /\ index \in ShardNumbers \cup {NoShard} /\ RequestOK(q, env, index)
        BY <2>2 DEF EnvInv, EnvTypeOK
  <2>4. /\ taskEnv' = taskEnv => taskEnv' = [taskEnv EXCEPT ![w] = env]
        /\ shardIndex' = shardIndex => shardIndex' = [shardIndex EXCEPT ![w] = index]
        BY <2>2 DEF EnvInv, EnvTypeOK
  <2>5. ASSUME NEW to PROVE Moves(w, to) => serving' = [serving EXCEPT ![w] = [q EXCEPT !.at = to]]
        BY <2>2 DEF Moves, EnvInv, EnvTypeOK
  <2>6. ASSUME NEW by \in Senders, NEW safe \in BOOLEAN, NEW view \in Views,
               NEW shard \in ShardNumbers \cup {NoShard}, Arrive(w, by, safe, view, shard)
        PROVE  EnvInv'
    <3>1. PICK r : r = [at |-> "entered", by |-> by, safe |-> safe, view |-> view, shard |-> shard]
          OBVIOUS
    <3>2. r \in RequestType /\ RequestOK(r, Headers(by), index)
          BY <3>1 DEF RequestType, RequestOK
    <3>3. Headers(by) \in [task : BOOLEAN, cron : BOOLEAN]
          BY DEF Headers
    <3> QED
        BY <2>3, <2>4, <2>6, <3>1, <3>2, <3>3, OneRequest DEF Arrive
  <2>7. CASE Decorated(w)
    <3>1. PICK to \in {"inside", "answered"} :
            /\ Moves(w, to)
            /\ to = "inside" => PassesCsrf(w) /\ Admitted(w)
          BY <2>7 DEF Decorated
    <3>2. PICK r : r = [q EXCEPT !.at = to]
          OBVIOUS
    <3>3. r \in RequestType /\ env = Headers(q.by)
          BY <2>2, <2>3, <2>7, <3>2 DEF RequestType, RequestOK, Decorated
    <3>4. RequestOK(r, env, index)
          BY <2>2, <2>3, <3>1, <3>2, <3>3
          DEF RequestType, RequestOK, PassesCsrf, CsrfExempt, Admitted, InTask
    <3> QED
        BY <2>3, <2>4, <2>5, <2>7, <3>1, <3>2, <3>3, <3>4, OneRequest DEF Decorated
  <2>8. CASE StartShard(w)
    <3>1. PICK to \in {"answered", "iterating"} : Moves(w, to)
          BY <2>8 DEF StartShard
    <3>2. PICK r : r = [q EXCEPT !.at = to]
          OBVIOUS
    <3>3. r \in RequestType /\ q.shard \in ShardNumbers \cup {NoShard} /\ RequestOK(r, env, q.shard)
          BY <2>2, <2>3, <2>8, <3>2 DEF RequestType, RequestOK, StartShard
    <3> QED
        BY <2>2, <2>3, <2>4, <2>5, <2>8, <3>1, <3>2, <3>3, OneRequest DEF StartShard
  <2>9. CASE EndShard(w) \/ Return(w)
    <3>1. PICK r : r = [q EXCEPT !.at = "answered"]
          OBVIOUS
    <3>2. r \in RequestType
          BY <2>3, <3>1 DEF RequestType
    <3>3. RequestOK(r, env, NoShard) /\ RequestOK(r, env, index)
          BY <2>2, <2>3, <2>9, <3>1 DEF RequestType, RequestOK, EndShard, Return
    <3> QED
        BY <2>3, <2>4, <2>5, <2>9, <3>1, <3>2, <3>3, OneRequest DEF EndShard, Return
  <2>10. CASE Depart(w)
    <3>1. Free \in RequestType /\ Unset \in [task : BOOLEAN, cron : BOOLEAN]
          BY DEF Free, Unset, RequestType, Senders, Views
    <3>2. RequestOK(Free, Unset, index)
          BY DEF Free, RequestOK
    <3> QED
        BY <2>3, <2>4, <2>10, <3>1, <3>2, OneRequest DEF Depart
  <2> QED
      BY <2>1, <2>6, <2>7, <2>8, <2>9, <2>10
<1> QED
    BY <1>1, <1>2

\* A view for tasks runs for requests of Cloud Tasks and cron only, or of
\* superusers where it says so, and so does csrf_exempt_if_task for requests that
\* need the exemption (middleware.py:10-32, decorators.py:9-53).
THEOREM TaskViewsGuarded == TaskEnvSpec => []OnlyTasksEnter
<1>1. EnvInv => OnlyTasksEnter
  <2> SUFFICES ASSUME EnvInv, NEW w \in Workers, Inside(w)
               PROVE  LET q == serving[w]
                      IN /\ q.view \in {"task_only", "shard"} => q.by \in {"task", "cron"}
                         /\ q.view = "csrf_exempt_if_task" => q.safe \/ q.by \in {"task", "cron"}
                         /\ q.view = "task_or_superuser_only" => q.by \in {"task", "cron", "superuser"}
      BY DEF OnlyTasksEnter
  <2>1. PICK q, env : q = serving[w] /\ env = taskEnv[w]
        OBVIOUS
  <2>2. /\ env = Headers(q.by)
        /\ \/ env.task \/ env.cron
           \/ q.view = "csrf_exempt_if_task" /\ q.safe
           \/ q.view = "task_or_superuser_only" /\ q.by = "superuser"
           \/ q.view = "internal_only"
        BY <2>1 DEF EnvInv, RequestOK, Inside
  <2>3. \A by : (Headers(by).task => by = "task") /\ (Headers(by).cron => by = "cron")
        BY DEF Headers
  <2> QED
      BY <2>1, <2>2, <2>3
<1> QED
    BY <1>1, EnvInit, EnvNext, PTL DEF TaskEnvSpec

\* A callback reads the index of its own shard, whatever earlier tasks of its
\* thread have left (deferred.py:351-374, 460).
THEOREM OwnIndex == TaskEnvSpec => []IndexIsOwn
<1>1. EnvInv => IndexIsOwn
      BY DEF EnvInv, RequestOK, IndexIsOwn
<1> QED
    BY <1>1, EnvInit, EnvNext, PTL DEF TaskEnvSpec
-----------------------------------------------------------------------------
Backends == {"datastore", "filesystem", "gsm"}
\* The backend a step of get() belongs to.
BackendOf(at) == IF at = "put" THEN {"datastore"} ELSE IF at = "add" THEN {"gsm"}
                 ELSE IF at \in {"read", "create", "write"} THEN {"filesystem"} ELSE Backends
SecTypeOK ==
  /\ backend \in Backends
  /\ secret \in Processes \cup {"missing"} \/ (backend = "filesystem" /\ secret = "blank")
  /\ getting \in [Processes -> {"new", "put", "read", "create", "write", "add", "done"}]
  /\ answer \in [Processes -> Processes \cup {"missing", "error"}]
  /\ \A p \in Processes : backend \in BackendOf(getting[p])
  /\ raced \in BOOLEAN /\ died \in BOOLEAN

Agreed == \A p \in Processes : answer[p] \notin {"missing", "error"} => answer[p] = secret

\* While nobody races, one process is in get() at most, and finds things as it
\* has left them.
AloneInv ==
  /\ \A p, q \in InGet : p = q
  /\ \A p \in Processes : /\ getting[p] \in {"put", "create", "add"} => secret = "missing"
                          /\ getting[p] = "write" => secret = "blank"

SecInv ==
  /\ SecTypeOK
  /\ \A p \in Processes : getting[p] = "read" => secret # "missing"
  /\ backend = "datastore" \/ ~raced => Agreed
  /\ ~raced => AloneInv
  /\ ~raced /\ ~died => /\ \A p \in Creators : answer[p] # "error"
                        /\ secret = "blank" => \E p \in Processes : getting[p] = "write"

LEMMA SecInit == SecretsInit => SecInv
<1> SUFFICES ASSUME SecretsInit PROVE SecInv
    OBVIOUS
<1>1. /\ secret = "missing" /\ raced = FALSE /\ died = FALSE
      /\ \A p \in Processes : getting[p] = "new" /\ answer[p] = "missing"
      BY DEF SecretsInit, Missing
<1>2. SecTypeOK
  <2>1. /\ getting \in [Processes -> {"new", "put", "read", "create", "write", "add", "done"}]
        /\ answer \in [Processes -> Processes \cup {"missing", "error"}]
        BY DEF SecretsInit, Missing
  <2>2. backend \in Backends /\ BackendOf("new") = Backends
        BY DEF SecretsInit, Backends, BackendOf
  <2> QED
      BY <1>1, <2>1, <2>2 DEF SecTypeOK
<1> QED
    BY <1>1, <1>2, SecretsAssumption DEF SecInv, Agreed, AloneInv, InGet

LEMMA Moved ==
  ASSUME SecInv, NEW p \in Processes, NEW at, GoTo(p, at)
  PROVE  \A q \in Processes : getting'[q] = IF q = p THEN at ELSE getting[q]
BY DEF SecInv, SecTypeOK, GoTo

LEMMA Answered ==
  ASSUME SecInv, NEW p \in Processes, NEW a, Done(p, a)
  PROVE  \A q \in Processes : /\ getting'[q] = IF q = p THEN "done" ELSE getting[q]
                              /\ answer'[q] = IF q = p THEN a ELSE answer[q]
BY Moved DEF SecInv, SecTypeOK, Done

LEMMA SecLook ==
  ASSUME SecInv, NEW p \in Processes,
         ReadEntity(p) \/ TestFile(p) \/ AccessVersion(p)
  PROVE  SecInv'
<1>1. /\ getting[p] = "new" /\ raced' = (raced \/ InGet # {})
      /\ UNCHANGED <<backend, secret, died>>
      /\ \/ /\ secret # "missing" /\ backend # "filesystem" /\ Done(p, secret)
         \/ /\ secret # "missing" /\ backend = "filesystem"
            /\ GoTo(p, "read") /\ UNCHANGED answer
         \/ /\ secret = "missing" /\ UNCHANGED answer
            /\ \E at \in {"put", "create", "add"} : backend \in BackendOf(at) /\ GoTo(p, at)
         \/ secret = "missing" /\ p \notin Creators /\ Done(p, "error")
      BY DEF ReadEntity, TestFile, AccessVersion, Look, Missing, Error,
         BackendOf
<1>2. SecTypeOK'
  <2>1. getting' \in [Processes -> {"new", "put", "read", "create", "write", "add", "done"}]
        BY <1>1 DEF SecInv, SecTypeOK, Done, GoTo
  <2>2. answer' \in [Processes -> Processes \cup {"missing", "error"}]
        BY <1>1 DEF SecInv, SecTypeOK, Done
  <2>3. \A q \in Processes : backend' \in BackendOf(getting'[q])
        BY <1>1, Moved DEF SecInv, SecTypeOK, Done, BackendOf
  <2> QED
      BY <1>1, <2>1, <2>2, <2>3 DEF SecInv, SecTypeOK
<1>3. /\ \A q \in Processes : getting'[q] = "read" => secret' # "missing"
      /\ \A q \in Processes : getting'[q] = "write" <=> getting[q] = "write"
      BY <1>1, Moved, Answered DEF SecInv
<1>4. backend' = "datastore" \/ ~raced' => Agreed'
      BY <1>1, Answered DEF SecInv, Agreed
<1>5. ~raced' => AloneInv'
  <2> SUFFICES ASSUME ~raced' PROVE AloneInv'
      OBVIOUS
  <2>1. InGet = {}
        BY <1>1
  <2>2. \A q \in Processes : q # p => getting'[q] \in {"new", "done"}
        BY <1>1, <2>1, Moved, Answered DEF InGet
  <2> QED
      BY <1>1, <2>2, Moved, Answered DEF AloneInv, InGet
<1>6. ~raced' /\ ~died' => /\ \A q \in Creators : answer'[q] # "error"
                           /\ secret' = "blank" => \E q \in Processes : getting'[q] = "write"
      BY <1>1, <1>3, Answered, SecretsAssumption DEF SecInv, SecTypeOK
<1> QED
    BY <1>2, <1>3, <1>4, <1>5, <1>6 DEF SecInv

\* The rest of get(), of a process that is on its way.
LEMMA SecGoesOn ==
  ASSUME SecInv, NEW p \in Processes,
         \/ CommitEntity(p) \/ CreateFile(p) \/ WriteFile(p) \/ ReadFile(p)
         \/ AddVersion(p) \/ Die(p)
  PROVE  SecInv'
<1>1. /\ UNCHANGED <<backend, raced>> /\ p \in InGet
      /\ \/ /\ getting[p] = "put" /\ secret = "missing" /\ secret' = p /\ Done(p, p) /\ died' = died
         \/ /\ getting[p] = "put" /\ secret # "missing" /\ secret' = secret
            /\ Done(p, "error") /\ died' = died
         \/ /\ getting[p] = "create" /\ secret' = "blank" /\ GoTo(p, "write")
            /\ UNCHANGED <<answer, died>>
         \/ getting[p] \in {"write", "add"} /\ secret' = p /\ Done(p, p) /\ died' = died
         \/ /\ getting[p] = "read" /\ secret' = secret /\ died' = died
            /\ Done(p, IF secret = "blank" THEN "error" ELSE secret)
         \/ secret' = secret /\ died' = TRUE /\ Done(p, "missing")
      BY DEF CommitEntity, CreateFile, WriteFile, ReadFile, AddVersion, Die,
         Missing, Error, Blank, InGet
<1>2. SecTypeOK'
  <2>1. getting' \in [Processes -> {"new", "put", "read", "create", "write", "add", "done"}]
        BY <1>1 DEF SecInv, SecTypeOK, Done, GoTo
  <2>2. answer' \in [Processes -> Processes \cup {"missing", "error"}]
        BY <1>1 DEF SecInv, SecTypeOK, Done
  <2>3. \A q \in Processes : backend' \in BackendOf(getting'[q])
        BY <1>1, Moved, Answered DEF SecInv, SecTypeOK, BackendOf
  <2>4. getting[p] = "create" => backend = "filesystem"
        BY DEF SecInv, SecTypeOK, BackendOf
  <2>5. secret' \in Processes \cup {"missing"} \/ (backend' = "filesystem" /\ secret' = "blank")
    <3>1. secret' = secret \/ secret' = p \/ (secret' = "blank" /\ backend = "filesystem")
          BY <1>1, <2>4
    <3> QED
        BY <1>1, <3>1 DEF SecInv, SecTypeOK
  <2>6. backend' \in Backends /\ raced' \in BOOLEAN /\ died' \in BOOLEAN
        BY <1>1 DEF SecInv, SecTypeOK
  <2> QED
      BY <2>1, <2>2, <2>3, <2>5, <2>6 DEF SecTypeOK
<1>3. \A q \in Processes : getting'[q] = "read" => secret' # "missing"
      BY <1>1, Moved, Answered, SecretsAssumption DEF SecInv
<1>4. backend' = "datastore" \/ ~raced' => Agreed'
  <2> SUFFICES ASSUME backend = "datastore" \/ ~raced PROVE Agreed'
      BY <1>1
  <2>1. Agreed
        BY DEF SecInv
  <2>2. getting[p] \in {"put", "create", "add"} /\ secret' # secret =>
          secret = "missing"
        BY <1>1 DEF SecInv, AloneInv, SecTypeOK, BackendOf
  <2>3. getting[p] = "write" => secret = "blank"
        BY DEF SecInv, AloneInv, SecTypeOK, BackendOf
  <2>4. secret' # secret => \A q \in Processes : answer[q] \in {"missing", "error"}
        BY <1>1, <2>1, <2>2, <2>3, SecretsAssumption DEF Agreed, SecInv, SecTypeOK
  <2> QED
      BY <1>1, <2>1, <2>4, Answered DEF Agreed
<1>5. ~raced' => AloneInv'
  <2> SUFFICES ASSUME ~raced PROVE AloneInv'
      BY <1>1
  <2>1. \A q \in Processes : q # p => getting[q] \in {"new", "done"}
        BY <1>1 DEF SecInv, AloneInv, InGet
  <2>2. /\ \A q \in Processes : q # p => getting'[q] \in {"new", "done"}
        /\ getting'[p] = "done" \/ (getting'[p] = "write" /\ secret' = "blank")
        BY <1>1, <2>1, Moved, Answered DEF InGet
  <2> QED
      BY <2>2 DEF AloneInv, InGet
<1>6. ~raced' /\ ~died' => /\ \A q \in Creators : answer'[q] # "error"
                           /\ secret' = "blank" => \E q \in Processes : getting'[q] = "write"
  <2> SUFFICES ASSUME ~raced, ~died, died' = died
               PROVE  /\ \A q \in Creators : answer'[q] # "error"
                      /\ secret' = "blank" => \E q \in Processes : getting'[q] = "write"
      BY <1>1 DEF SecInv, SecTypeOK
  <2>1. getting[p] = "put" => secret = "missing"
        BY DEF SecInv, AloneInv
  <2>2. secret = "blank" => getting[p] = "write"
        BY <1>1 DEF SecInv, AloneInv, InGet
  <2> QED
      BY <1>1, <2>1, <2>2, Moved, Answered, SecretsAssumption DEF SecInv, SecTypeOK
<1> QED
    BY <1>2, <1>3, <1>4, <1>5, <1>6 DEF SecInv

LEMMA SecNext ==
  ASSUME SecInv, [SecretsNext]_(secretsVars) PROVE SecInv'
<1>1. CASE UNCHANGED secretsVars
      BY <1>1 DEF secretsVars, SecInv, SecTypeOK, Agreed, AloneInv, InGet
<1> QED
    BY <1>1, SecLook, SecGoesOn DEF SecretsNext, Get

\* Who gets secrets gets those that are secret, and who may create them gets some,
\* if calls do not overlap; from the Datastore the first holds even if they do
\* (datastore.py:36-52, filesystem.py:27-44, gsm.py:55-112).
THEOREM SecretsShared == SecretsSpec => []SecretsAgree
<1>1. SecInv => SecretsAgree
      BY DEF SecInv, Agreed, SecretsAgree, Missing, Error
<1>2. SecretsInit => SecInv
      BY SecInit
<1>3. SecInv /\ [SecretsNext]_(secretsVars) => SecInv'
      BY SecNext
<1> QED
    BY <1>1, <1>2, <1>3, PTL DEF SecretsSpec
-----------------------------------------------------------------------------
Places == {"new", "child", "choose", "launch", "wait", "started", "failed", "stopped"}
ProgramType == [at : Places, turn : DOMAIN Emulators, port : Nat]
ProcessType == [at : {"none", "booting", "ended", "serving", "empty", "erring"}, port : Nat]
SandTypeOK ==
  /\ explicit \in BOOLEAN /\ rivals \in BOOLEAN
  /\ program \in [Programs -> ProgramType]
  /\ active \in [Programs -> SUBSET Names]
  /\ process \in [Programs -> [Names -> ProcessType]]
  /\ answered \in [Programs -> [Names -> Programs \cup {NoProgram}]]

\* c has a port for emulator e.
Busy(c, e) == c.at \in {"launch", "wait"} /\ Emulators[c.turn] = e
\* Process s listens on the port, or may yet do so.
Claims(s, port) == s.at \in {"booting", "serving", "empty", "erring"} /\ s.port = port

\* As long as nobody has chosen a port beside another: one program at a time is
\* at work on an emulator; nobody else's process listens on its port, or will;
\* and emulators that boot belong to programs that wait for them.
ApartInv ==
  /\ \A p, q \in Programs, e \in Names : Busy(program[p], e) /\ Busy(program[q], e) => p = q
  /\ \A p, q \in Programs, e \in Names \ Unwaited :
       Busy(program[p], e) /\ Claims(process[q][e], program[p].port) => p = q
  /\ \A p \in Programs, e \in Names \ Unwaited :
       process[p][e].at = "booting" =>
         program[p].at = "wait" /\ Emulators[program[p].turn] = e /\ e \in active[p]
  /\ \A p \in Programs : program[p].at = "wait" => Emulators[program[p].turn] \notin Unwaited
  /\ \A p \in Programs, e \in Names : answered[p][e] \in {NoProgram, p}

SandInv == SandTypeOK /\ (~rivals => ApartInv)

LEMMA EmulatorNames == \A i \in DOMAIN Emulators : Emulators[i] \in Names
BY SandboxAssumption DEF Names

LEMMA SandInit == SandboxInit => SandInv
<1> SUFFICES ASSUME SandboxInit PROVE SandInv
    OBVIOUS
<1>1. 1 \in DOMAIN Emulators
      BY SandboxAssumption
<1>2. SandTypeOK
      BY <1>1 DEF SandboxInit, SandTypeOK, ProgramType, ProcessType, Places, NoProcess
<1>3. /\ \A p \in Programs : program[p].at = "new"
      /\ \A p \in Programs, e \in Names : /\ process[p][e].at = "none"
                                               /\ answered[p][e] = NoProgram
      BY DEF SandboxInit, NoProcess
<1> QED
    BY <1>2, <1>3 DEF SandInv, ApartInv, Busy

\* A program that chooses nothing and waits for nothing, after a step in which its
\* processes have stayed or ended.
LEMMA SandRests ==
  ASSUME SandInv, NEW p \in Programs, NEW r \in ProgramType, r.at \notin {"launch", "wait"},
         program' = [program EXCEPT ![p] = r],
         NEW f \in [Names -> ProcessType], process' = [process EXCEPT ![p] = f],
         \A e \in Names : f[e].at \in {process[p][e].at, "ended"} /\ f[e].port = process[p][e].port,
         ~rivals => \A e \in Names \ Unwaited : f[e].at # "booting",
         UNCHANGED <<explicit, active>>, rivals' \in BOOLEAN, rivals => rivals',
         answered' \in [Programs -> [Names -> Programs \cup {NoProgram}]],
         ~rivals => \A q \in Programs, e \in Names : answered'[q][e] \in {NoProgram, q}
  PROVE  SandInv'
<1>1. SandTypeOK'
      BY DEF SandInv, SandTypeOK
<1>2. \A q \in Programs : /\ program'[q] = IF q = p THEN r ELSE program[q]
                          /\ process'[q] = IF q = p THEN f ELSE process[q]
      BY DEF SandInv, SandTypeOK
<1>3. ASSUME ~rivals' PROVE ApartInv'
  <2>1. ApartInv /\ ~rivals
        BY <1>3 DEF SandInv
  <2>2. \A q \in Programs, e \in Names, port \in Nat :
          Claims(process'[q][e], port) => Claims(process[q][e], port)
        BY <1>2 DEF Claims
  <2>3. \A q \in Programs, e \in Names :
          Busy(program'[q], e) => Busy(program[q], e) /\ program'[q] = program[q]
        BY <1>2 DEF Busy
  <2>4. \A q \in Programs : program[q].port \in Nat
        BY DEF SandInv, SandTypeOK, ProgramType
  <2>5. \A q \in Programs, e \in Names \ Unwaited :
          process'[q][e].at = "booting" =>
            program'[q].at = "wait" /\ Emulators[program'[q].turn] = e /\ e \in active'[q]
        BY <1>2, <2>1 DEF ApartInv
  <2>6. \A q \in Programs : program'[q].at = "wait" => Emulators[program'[q].turn] \notin Unwaited
        BY <1>2, <2>1 DEF ApartInv
  <2>7. \A q, s \in Programs, e \in Names : Busy(program'[q], e) /\ Busy(program'[s], e) => q = s
        BY <2>1, <2>3 DEF ApartInv
  <2>8. \A q, s \in Programs, e \in Names \ Unwaited :
          Busy(program'[q], e) /\ Claims(process'[s][e], program'[q].port) => q = s
        BY <2>1, <2>2, <2>3, <2>4 DEF ApartInv
  <2> QED
      BY <2>1, <2>5, <2>6, <2>7, <2>8 DEF ApartInv, Busy, Claims
<1> QED
    BY <1>1, <1>3 DEF SandInv

\* Who does not wait has no emulator that boots, except one nobody waits for.
LEMMA NothingBoots ==
  ASSUME SandInv, ~rivals, NEW p \in Programs, NEW e \in Names \ Unwaited,
         program[p].at # "wait" \/ Emulators[program[p].turn] # e
  PROVE  process[p][e].at # "booting"
BY DEF SandInv, ApartInv

\* A program hears its own emulator.
LEMMA HearsItself ==
  ASSUME SandInv, ~rivals, NEW p \in Programs, Waiting(p),
         NEW q \in Heard(p)
  PROVE  q = p
<1>1. PICK e \in Names : e = Current(p) /\ e = Emulators[program[p].turn]
      BY EmulatorNames DEF SandInv, SandTypeOK, ProgramType, Current
<1>2. q \in Programs /\ Claims(process[q][e], program[p].port)
      BY <1>1 DEF Heard, Listeners, Answers, Claims
<1>3. Busy(program[p], e) /\ e \notin Unwaited
      BY <1>1 DEF Waiting, Busy, SandInv, ApartInv
<1> QED
    BY <1>2, <1>3 DEF SandInv, ApartInv

LEMMA Unchanging ==
  ASSUME SandInv, NEW p \in Programs
  PROVE  /\ process = [process EXCEPT ![p] = process[p]] /\ process[p] \in [Names -> ProcessType]
         /\ rivals \in BOOLEAN /\ program[p] \in ProgramType
         /\ answered \in [Programs -> [Names -> Programs \cup {NoProgram}]]
         /\ ~rivals => \A q \in Programs, e \in Names : answered[q][e] \in {NoProgram, q}
BY DEF SandInv, SandTypeOK, ApartInv

LEMMA SandStart ==
  ASSUME SandInv, NEW p \in Programs,
         StartReloaded(p) \/ Start(p) \/ (ChoosePort(p) /\ program'[p].at = "failed")
  PROVE  SandInv'
<1>1. /\ program[p].at \in {"new", "choose"} /\ UNCHANGED <<explicit, active, process, answered>>
      /\ rivals' \in BOOLEAN /\ (rivals => rivals')
  <2>1. CASE StartReloaded(p) \/ Start(p)
        BY <2>1, Unchanging DEF StartReloaded, Start
  <2>2. CASE ChoosePort(p)
    <3>1. rivals' = (rivals \/ \E q \in Programs \ {p} : /\ program[q].at \in {"launch", "wait"}
                                                         /\ Current(q) = Current(p))
          BY <2>2 DEF ChoosePort
    <3>2. rivals' \in BOOLEAN /\ (rivals => rivals')
          BY <3>1, Unchanging
    <3> QED
        BY <2>2, <3>2 DEF ChoosePort
  <2> QED
      BY <2>1, <2>2
<1>2. PICK r \in ProgramType : r.at \in {"child", "choose", "failed"} /\ program' = [program EXCEPT ![p] = r]
  <2>1. CASE StartReloaded(p) \/ Start(p)
    <3>1. PICK at \in {"child", "choose"} : program' = [program EXCEPT ![p].at = at]
          BY <2>1 DEF StartReloaded, Start
    <3>2. PICK r : r = [program[p] EXCEPT !.at = at]
          OBVIOUS
    <3>3. program' = [program EXCEPT ![p] = r]
          BY <3>1, <3>2 DEF SandInv, SandTypeOK
    <3>4. r \in ProgramType /\ r.at = at
          BY <3>2, Unchanging DEF ProgramType, Places
    <3> QED
        BY <3>3, <3>4
  <2>2. CASE ChoosePort(p) /\ program'[p].at = "failed"
    <3>1. PICK c \in ProgramType : c = program[p]
          BY Unchanging
    <3>2. PICK r : /\ program' = [program EXCEPT ![p] = r]
                   /\ r = [c EXCEPT !.at = "failed"] \/ \E o : r = [c EXCEPT !.at = "launch", !.port = o]
          BY <2>2, <3>1 DEF ChoosePort
    <3>3. r.at = "failed"
          BY <2>2, <3>2 DEF SandInv, SandTypeOK
    <3>4. r = [c EXCEPT !.at = "failed"]
      <4>1. ASSUME NEW o, r = [c EXCEPT !.at = "launch", !.port = o] PROVE r.at = "launch"
            BY <4>1 DEF ProgramType
      <4> QED
          BY <3>2, <3>3, <4>1
    <3>5. r \in ProgramType
          BY <3>4 DEF ProgramType, Places
    <3> QED
        BY <3>2, <3>3, <3>5
  <2> QED
      BY <2>1, <2>2
<1> QED
    BY <1>1, <1>2, SandRests, Unchanging, NothingBoots

\* The next emulator, or the end of start_emulators.
LEMMA Proceeding ==
  ASSUME SandInv, NEW p \in Programs, Proceed(p)
  PROVE  \E r \in ProgramType : r.at \in {"started", "choose"} /\ program' = [program EXCEPT ![p] = r]
<1>1. PICK c \in ProgramType : c = program[p]
      BY Unchanging
<1>2. CASE program[p].turn = Len(Emulators) /\ program' = [program EXCEPT ![p].at = "started"]
  <2>1. PICK r : r = [c EXCEPT !.at = "started"]
        OBVIOUS
  <2>2. program' = [program EXCEPT ![p] = r]
        BY <1>1, <1>2, <2>1 DEF SandInv, SandTypeOK
  <2>3. r \in ProgramType /\ r.at = "started"
        BY <2>1 DEF ProgramType, Places
  <2> QED
      BY <2>2, <2>3
<1>3. CASE /\ program[p].turn < Len(Emulators)
           /\ program' = [program EXCEPT ![p].at = "choose", ![p].turn = @ + 1]
  <2>1. PICK r : r = [c EXCEPT !.at = "choose", !.turn = c.turn + 1]
        OBVIOUS
  <2>2. program' = [program EXCEPT ![p] = r]
        BY <1>1, <1>3, <2>1 DEF SandInv, SandTypeOK, ProgramType
  <2>3. c.turn + 1 \in DOMAIN Emulators
        BY <1>1, <1>3, SandboxAssumption DEF ProgramType
  <2>4. r \in ProgramType /\ r.at = "choose"
        BY <2>1, <2>3 DEF ProgramType, Places
  <2> QED
      BY <2>2, <2>4
<1> QED
    BY <1>2, <1>3 DEF Proceed

LEMMA SandWait ==
  ASSUME SandInv, NEW p \in Programs, WaitEnds(p) \/ WaitTimesOut(p)
  PROVE  SandInv'
<1>1. Waiting(p) /\ UNCHANGED <<explicit, active, process, rivals>>
      BY DEF WaitEnds, WaitTimesOut
<1>2. PICK e \in Names : e = Current(p) /\ e = Emulators[program[p].turn]
      BY EmulatorNames DEF SandInv, SandTypeOK, ProgramType, Current
<1>3. PICK q \in Heard(p) :
        /\ process[q][e].at \in {"serving", "empty"}
        /\ answered' = answered \/ answered' = [answered EXCEPT ![p][e] = q]
      BY <1>2 DEF WaitEnds, WaitTimesOut
<1>4. q \in Programs
      BY DEF Heard, Listeners
<1>5. ~rivals => \A d \in Names \ Unwaited : process[p][d].at # "booting"
      BY <1>1, <1>2, <1>3, HearsItself, NothingBoots
<1>6. PICK r \in ProgramType :
        r.at \in {"started", "choose", "failed"} /\ program' = [program EXCEPT ![p] = r]
  <2>1. CASE WaitEnds(p)
        BY <2>1, Proceeding DEF WaitEnds
  <2>2. CASE WaitTimesOut(p)
    <3>1. PICK r : r = [program[p] EXCEPT !.at = "failed"]
          OBVIOUS
    <3>2. program' = [program EXCEPT ![p] = r]
          BY <2>2, <3>1 DEF SandInv, SandTypeOK, WaitTimesOut
    <3>3. r \in ProgramType /\ r.at = "failed"
          BY <3>1, Unchanging DEF ProgramType, Places
    <3> QED
        BY <3>2, <3>3
  <2> QED
      BY <2>1, <2>2
<1>7. /\ answered' \in [Programs -> [Names -> Programs \cup {NoProgram}]]
      /\ \A s \in Programs, d \in Names :
           answered'[s][d] = answered[s][d] \/ (s = p /\ answered'[s][d] = q)
  <2>1. CASE answered' = answered
        BY <2>1, Unchanging
  <2>2. PICK g : g = [answered[p] EXCEPT ![e] = q]
        OBVIOUS
  <2>3. /\ g \in [Names -> Programs \cup {NoProgram}]
        /\ \A d \in Names : g[d] = answered[p][d] \/ g[d] = q
        BY <1>4, <2>2 DEF SandInv, SandTypeOK
  <2>4. CASE answered' = [answered EXCEPT ![p] = g]
        BY <2>3, <2>4 DEF SandInv, SandTypeOK
  <2>5. answered' = [answered EXCEPT ![p][e] = q] => answered' = [answered EXCEPT ![p] = g]
        BY <2>2
  <2> QED
      BY <1>3, <2>1, <2>4, <2>5
<1>8. ~rivals => \A s \in Programs, d \in Names : answered'[s][d] \in {NoProgram, s}
  <2> SUFFICES ASSUME ~rivals, NEW s \in Programs, NEW d \in Names
               PROVE  answered'[s][d] \in {NoProgram, s}
      OBVIOUS
  <2>1. q = p
        BY <1>1, HearsItself
  <2> QED
      BY <1>7, <2>1, Unchanging
<1> QED
    BY <1>1, <1>5, <1>6, <1>7, <1>8, SandRests, Unchanging

LEMMA SandStop == ASSUME SandInv, NEW p \in Programs, Stop(p) PROVE SandInv'
<1>1. PICK r : r = [program[p] EXCEPT !.at = "stopped"]
      OBVIOUS
<1>2. program' = [program EXCEPT ![p] = r]
      BY <1>1 DEF SandInv, SandTypeOK, Stop
<1>3. r \in ProgramType /\ r.at = "stopped"
      BY <1>1, Unchanging DEF ProgramType, Places
<1>4. PICK f : f = [e \in Names |-> IF e \in active[p] THEN [process[p][e] EXCEPT !.at = "ended"]
                                                            ELSE process[p][e]]
      OBVIOUS
<1>5. process' = [process EXCEPT ![p] = f]
      BY <1>4 DEF Stop
<1>6. /\ f \in [Names -> ProcessType]
      /\ \A e \in Names :
           f[e].at \in {process[p][e].at, "ended"} /\ f[e].port = process[p][e].port
      BY <1>4 DEF SandInv, SandTypeOK, ProcessType
<1>7. \A e \in Names : e \in active[p] => f[e].at = "ended"
      BY <1>4 DEF SandInv, SandTypeOK, ProcessType
<1>8. ~rivals => \A e \in Names \ Unwaited : f[e].at # "booting"
      BY <1>6, <1>7 DEF SandInv, ApartInv
<1> QED
    BY <1>2, <1>3, <1>5, <1>6, <1>8, SandRests, Unchanging DEF Stop

\* An emulator binds its port, or ends: nobody waits elsewhere for that port.
LEMMA SandBoot ==
  ASSUME SandInv, NEW p \in Programs, NEW e \in Names, Boot(p, e) PROVE SandInv'
<1>1. PICK to \in {"ended", "serving", "empty", "erring"} :
        process[p][e].at = "booting" /\ process' = [process EXCEPT ![p][e].at = to]
      BY DEF Boot, Answers
<1>2. UNCHANGED <<explicit, program, active, answered, rivals>>
      BY DEF Boot
<1>3. /\ process' \in [Programs -> [Names -> ProcessType]]
      /\ \A q \in Programs, d \in Names :
           /\ process'[q][d].port = process[q][d].port
           /\ process'[q][d].at = process[q][d].at \/ (process[q][d].at = "booting" /\ process'[q][d].at = to)
  <2>1. PICK s : s = [process[p][e] EXCEPT !.at = to]
        OBVIOUS
  <2>2. s \in ProcessType /\ s.at = to /\ s.port = process[p][e].port
    <3>1. process[p][e] \in ProcessType
          BY Unchanging
    <3> QED
        BY <2>1, <3>1 DEF ProcessType
  <2>3. PICK f : f = [process[p] EXCEPT ![e] = s]
        OBVIOUS
  <2>4. /\ f \in [Names -> ProcessType]
        /\ \A d \in Names : f[d] = IF d = e THEN s ELSE process[p][d]
        BY <2>2, <2>3 DEF SandInv, SandTypeOK
  <2>5. process' = [process EXCEPT ![p] = f]
        BY <1>1, <2>1, <2>3
  <2>6. /\ process' \in [Programs -> [Names -> ProcessType]]
        /\ \A q \in Programs, d \in Names :
             process'[q][d] = IF q = p /\ d = e THEN s ELSE process[q][d]
        BY <2>4, <2>5 DEF SandInv, SandTypeOK
  <2> QED
      BY <1>1, <2>2, <2>6
<1>4. SandTypeOK'
      BY <1>2, <1>3 DEF SandInv, SandTypeOK
<1>5. \A q \in Programs, d \in Names, port \in Nat :
        /\ Claims(process'[q][d], port) => Claims(process[q][d], port)
        /\ process'[q][d].at = "booting" => process[q][d].at = "booting"
      BY <1>3 DEF Claims
<1>6. \A q \in Programs : program[q].port \in Nat
      BY DEF SandInv, SandTypeOK, ProgramType
<1>7. ASSUME ~rivals PROVE ApartInv'
  <2>1. ApartInv
        BY <1>7 DEF SandInv
  <2>2. \A q, s \in Programs, d \in Names \ Unwaited :
          Busy(program[q], d) /\ Claims(process'[s][d], program[q].port) => q = s
        BY <1>5, <1>6, <2>1 DEF ApartInv
  <2> QED
      BY <1>2, <1>5, <2>1, <2>2 DEF ApartInv, Busy, Claims
<1> QED
    BY <1>2, <1>4, <1>7 DEF SandInv

\* A program that has chosen a port: nobody listens there, and nobody is about to
\* unless another program is at work on the same emulator.
LEMMA SandChoose ==
  ASSUME SandInv, NEW p \in Programs, ChoosePort(p),
         program'[p].at # "failed"
  PROVE  SandInv'
<1>1. PICK c \in ProgramType : c = program[p]
      BY Unchanging
<1>2. PICK e \in Names : e = Current(p) /\ e = Emulators[c.turn]
      BY <1>1, EmulatorNames DEF ProgramType, Current
<1>3. PICK open : open = OpenPorts(e) \cap IF explicit THEN {0} ELSE PortOffsets
      OBVIOUS
<1>4. PICK least : least = (CHOOSE o \in open : \A n \in open : o <= n)
      OBVIOUS
<1>5. PICK r : r = IF open = {} THEN [program[p] EXCEPT !.at = "failed"]
                                 ELSE [program[p] EXCEPT !.at = "launch", !.port = least]
      OBVIOUS
<1>6. r = IF open = {} THEN [c EXCEPT !.at = "failed"]
                        ELSE [c EXCEPT !.at = "launch", !.port = least]
      BY <1>1, <1>5
<1>7. program' = [program EXCEPT ![p] = r]
      BY <1>2, <1>3, <1>4, <1>5 DEF ChoosePort
<1>8. open # {}
  <2>1. program'[p] = r
        BY <1>7 DEF SandInv, SandTypeOK
  <2> QED
      BY <1>6, <2>1 DEF ProgramType
<1>9. PICK port \in open : r = [c EXCEPT !.at = "launch", !.port = port]
  <2>1. open \in SUBSET Nat
        BY <1>3, SandboxAssumption DEF OpenPorts
  <2>2. \E o \in open : \A n \in open : o <= n
        BY <1>8, <2>1, LeastNatural
  <2> QED
      BY <1>4, <1>6, <1>8, <2>2
<1>10. port \in Nat /\ PortIsOpen(e, port)
      BY <1>3, SandboxAssumption DEF OpenPorts
<1>11. r \in ProgramType /\ r.at = "launch" /\ r.turn = c.turn /\ r.port = port
      BY <1>9, <1>10 DEF ProgramType, Places
<1>12. /\ UNCHANGED <<explicit, active, process, answered>>
      /\ rivals' = (rivals \/ \E q \in Programs \ {p} : /\ program[q].at \in {"launch", "wait"}
                                                        /\ Current(q) = e)
      BY <1>2 DEF ChoosePort
<1>13. \A q \in Programs : program'[q] = IF q = p THEN r ELSE program[q]
      BY <1>7 DEF SandInv, SandTypeOK
<1>14. SandTypeOK'
  <2>1. rivals' \in BOOLEAN
        BY <1>12, Unchanging
  <2> QED
      BY <1>7, <1>11, <1>12, <2>1 DEF SandInv, SandTypeOK
<1>15. ASSUME ~rivals' PROVE ApartInv'
  <2>1. ApartInv /\ \A q \in Programs \ {p} : ~Busy(program[q], e)
        BY <1>12, <1>15 DEF SandInv, Busy, Current
  <2>2. c.at = "choose"
        BY <1>1 DEF ChoosePort
  <2>3. \A q \in Programs, d \in Names :
          Busy(program'[q], d) <=> IF q = p THEN d = e ELSE Busy(program[q], d)
        BY <1>2, <1>11, <1>13 DEF Busy
  <2>4. \A q \in Programs \ {p} : e \notin Unwaited => ~Claims(process[q][e], port)
    <3> SUFFICES ASSUME NEW q \in Programs \ {p}, e \notin Unwaited, Claims(process[q][e], port)
                 PROVE  FALSE
        OBVIOUS
    <3>1. process[q][e].at = "booting"
          BY <1>10 DEF PortIsOpen, Listeners, Answers, Claims
    <3> QED
        BY <2>1, <3>1 DEF ApartInv, Busy
  <2>5. \A q, s \in Programs, d \in Names : Busy(program'[q], d) /\ Busy(program'[s], d) => q = s
        BY <2>1, <2>3 DEF ApartInv
  <2>6. \A q, s \in Programs, d \in Names \ Unwaited :
          Busy(program'[q], d) /\ Claims(process[s][d], program'[q].port) => q = s
        BY <1>11, <1>13, <2>1, <2>3, <2>4 DEF ApartInv
  <2>7. \A q \in Programs, d \in Names \ Unwaited :
          process[q][d].at = "booting" =>
            program'[q].at = "wait" /\ Emulators[program'[q].turn] = d /\ d \in active[q]
        BY <1>1, <1>13, <2>1, <2>2 DEF ApartInv
  <2>8. \A q \in Programs : program'[q].at = "wait" => Emulators[program'[q].turn] \notin Unwaited
        BY <1>11, <1>13, <2>1 DEF ApartInv
  <2> QED
      BY <1>12, <2>1, <2>5, <2>6, <2>7, <2>8 DEF ApartInv
<1> QED
    BY <1>14, <1>15 DEF SandInv

\* An emulator that is launched is the only one at work on its port.
LEMMA SandLaunch ==
  ASSUME SandInv, NEW p \in Programs, Launch(p) PROVE SandInv'
<1>1. PICK c \in ProgramType : c = program[p] /\ c.at = "launch"
      BY Unchanging DEF Launch
<1>2. PICK e \in Names : e = Current(p) /\ e = Emulators[c.turn]
      BY <1>1, EmulatorNames DEF ProgramType, Current
<1>3. PICK s : s = [at |-> "booting", port |-> c.port]
      OBVIOUS
<1>4. PICK f : f = [process[p] EXCEPT ![e] = s]
      OBVIOUS
<1>5. process' = [process EXCEPT ![p] = f] /\ active' = [active EXCEPT ![p] = @ \cup {e}]
      BY <1>1, <1>2, <1>3, <1>4 DEF Launch
<1>6. s \in ProcessType
      BY <1>3 DEF ProgramType, ProcessType
<1>7. /\ f \in [Names -> ProcessType]
      /\ \A d \in Names : f[d] = IF d = e THEN s ELSE process[p][d]
      BY <1>4, <1>6, Unchanging
<1>8. PICK r \in ProgramType :
        /\ program' = [program EXCEPT ![p] = r]
        /\ IF e \in Unwaited THEN r.at \in {"started", "choose"}
           ELSE r.at = "wait" /\ r.turn = c.turn /\ r.port = c.port
  <2>1. CASE e \in Unwaited
        BY <1>2, <2>1, Proceeding DEF Launch
  <2>2. CASE e \notin Unwaited
    <3>1. PICK r : r = [c EXCEPT !.at = "wait"]
          OBVIOUS
    <3>2. program' = [program EXCEPT ![p] = r]
          BY <1>1, <1>2, <2>2, <3>1 DEF SandInv, SandTypeOK, Launch
    <3>3. r \in ProgramType /\ r.at = "wait" /\ r.turn = c.turn /\ r.port = c.port
          BY <3>1 DEF ProgramType, Places
    <3> QED
        BY <2>2, <3>2, <3>3
  <2> QED
      BY <2>1, <2>2
<1>9. UNCHANGED <<explicit, answered, rivals>>
      BY DEF Launch
<1>10. SandTypeOK'
      BY <1>5, <1>7, <1>8, <1>9 DEF SandInv, SandTypeOK
<1>11. \A q \in Programs : /\ program'[q] = IF q = p THEN r ELSE program[q]
                           /\ process'[q] = IF q = p THEN f ELSE process[q]
                           /\ active'[q] = IF q = p THEN active[p] \cup {e} ELSE active[q]
      BY <1>5, <1>8 DEF SandInv, SandTypeOK
<1>12. ASSUME ~rivals PROVE ApartInv'
  <2>1. ApartInv /\ Busy(program[p], e)
        BY <1>1, <1>2, <1>12 DEF SandInv, Busy
  <2>2. \A q \in Programs, d \in Names :
          Busy(program'[q], d) => Busy(program[q], d) /\ program'[q].port = program[q].port
    <3>1. ASSUME NEW d \in Names, Busy(r, d) PROVE d = e /\ r.port = c.port
          BY <1>2, <1>8, <3>1 DEF Busy
    <3> QED
        BY <1>1, <1>11, <2>1, <3>1
  <2>3. \A q \in Programs, d \in Names :
          q # p \/ d # e => process'[q][d] = process[q][d]
        BY <1>7, <1>11
  <2>4. \A q, t \in Programs, d \in Names : Busy(program'[q], d) /\ Busy(program'[t], d) => q = t
        BY <2>1, <2>2 DEF ApartInv
  <2>5. \A q, t \in Programs, d \in Names \ Unwaited :
          Busy(program'[q], d) /\ Claims(process'[t][d], program'[q].port) => q = t
        BY <2>1, <2>2, <2>3 DEF ApartInv
  <2>6. ASSUME NEW q \in Programs, NEW d \in Names \ Unwaited, process'[q][d].at = "booting"
        PROVE  program'[q].at = "wait" /\ Emulators[program'[q].turn] = d /\ d \in active'[q]
    <3>1. CASE q = p /\ d = e
          BY <1>2, <1>8, <1>11, <3>1
    <3>2. CASE q # p
          BY <1>11, <2>1, <2>3, <2>6, <3>2 DEF ApartInv
    <3>3. CASE q = p /\ d # e
          BY <1>1, <2>1, <2>3, <2>6, <3>3 DEF ApartInv
    <3> QED
        BY <3>1, <3>2, <3>3
  <2>7. \A q \in Programs : program'[q].at = "wait" => Emulators[program'[q].turn] \notin Unwaited
        BY <1>2, <1>8, <1>11, <2>1 DEF ApartInv
  <2> QED
      BY <1>9, <2>1, <2>4, <2>5, <2>6, <2>7 DEF ApartInv
<1> QED
    BY <1>9, <1>10, <1>12 DEF SandInv

LEMMA SandNext ==
  ASSUME SandInv, [SandboxNext]_(sandboxVars) PROVE SandInv'
<1>1. CASE UNCHANGED sandboxVars
      BY <1>1 DEF sandboxVars, SandInv, SandTypeOK, ApartInv, Busy, Claims
<1> QED
    BY <1>1, SandStart, SandChoose, SandLaunch, SandWait, SandStop, SandBoot
    DEF SandboxNext, ProgramStep

\* The emulator that answers a program's wait is its own, unless a port was chosen
\* while another program was at work on the same emulator (sandbox.py:59-87,
\* 150-235).
THEOREM OwnAnswers == SandboxSpec => []AnsweredByOwn
<1>1. SandInv => AnsweredByOwn
      BY DEF SandInv, ApartInv, AnsweredByOwn
<1>2. SandboxInit => SandInv
      BY SandInit
<1>3. SandInv /\ [SandboxNext]_(sandboxVars) => SandInv'
      BY SandNext
<1> QED
    BY <1>1, <1>2, <1>3, PTL DEF SandboxSpec
-----------------------------------------------------------------------------
\* The order of numbers, and how many elements of S are smaller than x.
NumberOrder == {m \in Int \X Int : m[1] < m[2]}
Smaller(S, x) == Cardinality({m \in S : m < x})

LEMMA NumbersOrdered == \A S \in SUBSET Int : Orders(NumberOrder, S)
BY DEF Orders, NumberOrder

LEMMA SmallerIsRank ==
  ASSUME NEW S \in SUBSET Int, NEW x \in Int PROVE Smaller(S, x) = Rank(NumberOrder, S, x)
<1>1. {m \in S : m < x} = {m \in S : <<m, x>> \in NumberOrder}
      BY DEF NumberOrder
<1> QED
    BY <1>1 DEF Smaller, Rank

LEMMA SmallerType ==
  ASSUME NEW S \in SUBSET Int, IsFiniteSet(S), NEW x \in Int
  PROVE  Cardinality(S) \in Nat /\ Smaller(S, x) \in 0..Cardinality(S)
BY SmallerIsRank, RankType, FS_CardinalityType

LEMMA SmallerGrows ==
  ASSUME NEW S \in SUBSET Int, IsFiniteSet(S), NEW x \in Int, NEW y \in Int
  PROVE  /\ x <= y => Smaller(S, x) <= Smaller(S, y)
         /\ x \in S /\ x < y => Smaller(S, x) < Smaller(S, y)
<1>1. PICK T, U : T = {m \in S : m < x} /\ U = {m \in S : m < y}
      OBVIOUS
<1>2. IsFiniteSet(T) /\ IsFiniteSet(U)
      BY <1>1, FS_Subset
<1>3. Cardinality(T) \in Nat /\ Cardinality(U) \in Nat
      BY <1>2, FS_CardinalityType
<1>4. x <= y => T \subseteq U
  <2>1. \A m \in S : m \in Int /\ (m < x /\ x <= y => m < y)
        OBVIOUS
  <2> QED
      BY <1>1, <2>1
<1>5. x <= y => Cardinality(T) <= Cardinality(U)
      BY <1>2, <1>4, FS_Subset
<1>6. ASSUME x \in S, x < y PROVE Cardinality(T) # Cardinality(U)
  <2>1. x \in U /\ x \notin T
        BY <1>1, <1>6
  <2> QED
      BY <1>2, <1>4, <1>6, <2>1, FS_Subset
<1> QED
    BY <1>1, <1>3, <1>5, <1>6 DEF Smaller

LEMMA SmallerLists ==
  \A S \in SUBSET Int : IsFiniteSet(S) =>
    \A i \in 1..Cardinality(S) : \E x \in S : Smaller(S, x) = i - 1
<1> SUFFICES ASSUME NEW S \in SUBSET Int, IsFiniteSet(S), NEW i \in 1..Cardinality(S)
             PROVE  \E x \in S : Smaller(S, x) = i - 1
    OBVIOUS
<1>1. Orders(NumberOrder, S) /\ IsFiniteSet(S)
      BY NumbersOrdered
<1>2. \E x \in S : Rank(NumberOrder, S, x) = i - 1
      BY <1>1, Ranked
<1> QED
    BY <1>2, SmallerIsRank

BatchTypeOK ==
  /\ rows \in SUBSET Nat /\ IsFiniteSet(rows) /\ steady \subseteq rows
  /\ offset \in Nat /\ seen \in Seq(Nat) /\ finished \in BOOLEAN /\ shifted \in BOOLEAN

\* What has been yielded is in order; it is what comes before the offset, until
\* the reader is finished.
Yielded(n) == \E i \in DOMAIN seen : seen[i] = n
SeenInv ==
  /\ \A i, j \in DOMAIN seen : i < j => seen[i] < seen[j]
  /\ finished => \A n \in steady : Yielded(n)
  /\ ~finished => \A n \in Nat : Yielded(n) <=> n \in rows /\ Smaller(rows, n) < offset
BatchInv == BatchTypeOK /\ (shifted \/ SeenInv)

LEMMA BatchStarts == BatchInit => BatchInv
<1> SUFFICES ASSUME BatchInit PROVE BatchInv
    OBVIOUS
<1>1. BatchTypeOK
  <2>1. rows \in SUBSET Nat /\ IsFiniteSet(rows) /\ steady = rows
        BY BatchAssumption DEF BatchInit
  <2>2. offset \in Nat /\ seen \in Seq(Nat) /\ finished \in BOOLEAN /\ shifted \in BOOLEAN
    <3>1. <<>> \in Seq(Nat) /\ 0 \in Nat
          OBVIOUS
    <3> QED
        BY <3>1 DEF BatchInit
  <2> QED
      BY <2>1, <2>2 DEF BatchTypeOK
<1>2. offset = 0 /\ finished = FALSE /\ DOMAIN seen = {} /\ rows \in SUBSET Nat /\ IsFiniteSet(rows)
      BY <1>1 DEF BatchInit, BatchTypeOK
<1>3. \A n \in Nat : ~Yielded(n) /\ ~(Smaller(rows, n) < offset)
      BY <1>2, SmallerType DEF Yielded
<1> QED
    BY <1>1, <1>2, <1>3 DEF BatchInv, SeenInv

\* The query's rows by number.
LEMMA OrderedRows ==
  ASSUME BatchTypeOK
  PROVE  /\ Ordered \in [1..Cardinality(rows) -> rows] /\ Cardinality(rows) \in Nat
         /\ \A i \in 1..Cardinality(rows) : Smaller(rows, Ordered[i]) = i - 1
         /\ \A n \in rows : /\ Smaller(rows, n) + 1 \in 1..Cardinality(rows)
                            /\ Ordered[Smaller(rows, n) + 1] = n
<1>1. \A n : Before(n) = Smaller(rows, n)
      BY DEF Before, Smaller
<1>2. rows \in SUBSET Nat /\ IsFiniteSet(rows) /\ Cardinality(rows) \in Nat
      BY FS_CardinalityType DEF BatchTypeOK
<1>3. ASSUME NEW i \in 1..Cardinality(rows)
      PROVE  Ordered[i] \in rows /\ Smaller(rows, Ordered[i]) = i - 1
  <2>1. \E n \in rows : Before(n) = i - 1
        BY <1>1, <1>2, SmallerLists
  <2>2. PICK n : n = CHOOSE m \in rows : Before(m) = i - 1
        OBVIOUS
  <2>3. n \in rows /\ Before(n) = i - 1
        BY <2>1, <2>2
  <2>4. Ordered[i] = n
        BY <2>2 DEF Ordered
  <2> QED
      BY <1>1, <2>3, <2>4
<1>4. ASSUME NEW n \in rows
      PROVE  /\ Smaller(rows, n) + 1 \in 1..Cardinality(rows)
             /\ Ordered[Smaller(rows, n) + 1] = n
  <2>1. Smaller(rows, n) \in 0..Cardinality(rows)
        BY <1>2, SmallerType
  <2>2. Smaller(rows, n) # Cardinality(rows)
    <3>1. PICK T : T = {m \in rows : m < n}
          OBVIOUS
    <3>2. T \in SUBSET rows /\ T # rows
          BY <1>2, <3>1
    <3> QED
        BY <1>2, <3>1, <3>2, FS_Subset DEF Smaller
  <2>3. Smaller(rows, n) + 1 \in 1..Cardinality(rows)
        BY <1>2, <2>1, <2>2
  <2>4. PICK m \in rows : m = Ordered[Smaller(rows, n) + 1] /\ Smaller(rows, m) = Smaller(rows, n)
        BY <1>3, <2>1, <2>3
  <2>5. ~(m < n) /\ ~(n < m)
        BY <1>2, <2>1, <2>4, SmallerGrows
  <2> QED
      BY <1>2, <2>3, <2>4, <2>5
<1>5. Ordered \in [1..Cardinality(rows) -> rows]
  <2>1. Ordered = [i \in 1..Cardinality(rows) |-> CHOOSE n \in rows : Before(n) = i - 1]
        BY DEF Ordered
  <2> QED
      BY <1>3, <2>1
<1> QED
    BY <1>2, <1>3, <1>4, <1>5

\* A slice of them.
LEMMA FetchedRows ==
  ASSUME BatchTypeOK, NEW count \in Nat
  PROVE  LET f == Fetched(count)
         IN  /\ f \in Seq(Nat)
             /\ Len(f) < count => Cardinality(rows) < offset + count
             /\ \A i \in DOMAIN f : f[i] \in rows /\ Smaller(rows, f[i]) = offset + i - 1
                                    /\ i <= count
             /\ \A n \in rows : /\ offset <= Smaller(rows, n)
                                /\ Smaller(rows, n) < offset + count
                                => \E i \in DOMAIN f : f[i] = n
<1>1. PICK o, c : o = Ordered /\ c = Cardinality(rows) /\ c \in Nat
      BY OrderedRows
<1>2. /\ o \in [1..c -> rows] /\ \A i \in 1..c : Smaller(rows, o[i]) = i - 1
      /\ \A n \in rows : Smaller(rows, n) + 1 \in 1..c /\ o[Smaller(rows, n) + 1] = n
      BY <1>1, OrderedRows
<1>3. rows \subseteq Nat /\ offset \in Nat /\ Len(o) = c
      BY <1>1, <1>2 DEF BatchTypeOK
<1>4. PICK to : to = IF offset + count < c THEN offset + count ELSE c
      OBVIOUS
<1>5. to \in Nat /\ to <= c
      BY <1>1, <1>3, <1>4
<1>6. PICK f : f = SubSeq(o, offset + 1, to) /\ f = Fetched(count)
      BY <1>1, <1>3, <1>4 DEF Fetched
<1>7. /\ f \in Seq(rows)
      /\ Len(f) = IF offset + 1 <= to THEN to - offset ELSE 0
      /\ \A i \in 1..Len(f) : f[i] = o[offset + i]
  <2>1. offset + 1 \in Int /\ to \in Int /\ \A i \in (offset + 1)..to : o[i] \in rows
        BY <1>1, <1>2, <1>3, <1>5
  <2>2. /\ f \in Seq(rows) /\ Len(f) = IF offset + 1 <= to THEN to - (offset + 1) + 1 ELSE 0
        /\ \A i \in 1..(to - (offset + 1) + 1) : f[i] = o[offset + 1 + i - 1]
        BY <1>6, <2>1, SubSeqProperties
  <2> QED
      BY <1>3, <1>5, <2>2
<1>8. DOMAIN f = 1..Len(f) /\ Len(f) \in Nat
      BY <1>7
<1>9. Len(f) < count => c < offset + count
      BY <1>1, <1>3, <1>4, <1>7
<1>10. \A i \in DOMAIN f : f[i] \in rows /\ Smaller(rows, f[i]) = offset + i - 1 /\ i <= count
  <2> SUFFICES ASSUME NEW i \in 1..Len(f)
               PROVE  f[i] \in rows /\ Smaller(rows, f[i]) = offset + i - 1 /\ i <= count
      BY <1>8
  <2>1. offset + i \in 1..c /\ i <= count
        BY <1>1, <1>3, <1>4, <1>5, <1>7, <1>8
  <2>2. f[i] = o[offset + i] /\ offset + i - 1 = (offset + i) - 1
        BY <1>3, <1>7, <1>8
  <2> QED
      BY <1>2, <2>1, <2>2
<1>11. ASSUME NEW n \in rows, offset <= Smaller(rows, n), Smaller(rows, n) < offset + count
       PROVE  \E i \in DOMAIN f : f[i] = n
  <2>1. Smaller(rows, n) \in Nat /\ Smaller(rows, n) + 1 \in 1..c
        BY <1>2, <1>3, SmallerType DEF BatchTypeOK
  <2>2. PICK i : i = Smaller(rows, n) + 1 - offset
        OBVIOUS
  <2>3. i \in Nat /\ i >= 1 /\ offset + i = Smaller(rows, n) + 1
        BY <1>3, <1>11, <2>1, <2>2
  <2>4. Smaller(rows, n) + 1 <= to
        BY <1>1, <1>3, <1>4, <1>11, <2>1
  <2>5. Len(f) = to - offset
        BY <1>3, <1>5, <1>7, <1>11, <2>1, <2>4
  <2>6. i \in 1..Len(f)
        BY <1>3, <1>5, <1>8, <2>3, <2>4, <2>5
  <2> QED
      BY <1>2, <1>7, <1>8, <2>3, <2>6
<1>12. f \in Seq(Nat)
  <2>1. \A i \in 1..Len(f) : f[i] \in Nat
        BY <1>3, <1>8, <1>10
  <2> QED
      BY <1>7, <1>8, <2>1, SeqDef
<1> QED
    BY <1>1, <1>6, <1>9, <1>10, <1>11, <1>12

\* A slice appended to what has been yielded.
LEMMA SliceYielded ==
  ASSUME BatchInv, ~finished,
         seen' = seen \o Fetched(BatchSize), offset' = offset + BatchSize,
         finished' \in BOOLEAN, finished' => Cardinality(rows) <= offset + BatchSize,
         UNCHANGED <<rows, steady, shifted>>
  PROVE  BatchInv'
<1>1. PICK f : f = Fetched(BatchSize)
      OBVIOUS
<1>2. BatchTypeOK /\ BatchSize \in Nat
      BY BatchAssumption DEF BatchInv
<1>3. /\ f \in Seq(Nat)
      /\ \A i \in DOMAIN f : f[i] \in rows /\ Smaller(rows, f[i]) = offset + i - 1 /\ i <= BatchSize
      /\ \A n \in rows : offset <= Smaller(rows, n) /\ Smaller(rows, n) < offset + BatchSize
                         => \E i \in DOMAIN f : f[i] = n
      BY <1>1, <1>2, FetchedRows
<1>4. rows \in SUBSET Nat /\ IsFiniteSet(rows) /\ offset \in Nat /\ seen \in Seq(Nat) /\ steady \subseteq rows
      BY <1>2 DEF BatchTypeOK
<1>5. PICK k, l : k = Len(seen) /\ l = Len(f)
      OBVIOUS
<1>6. /\ k \in Nat /\ l \in Nat /\ DOMAIN seen = 1..k /\ DOMAIN f = 1..l
      /\ seen' \in Seq(Nat) /\ DOMAIN seen' = 1..(k + l)
      /\ \A i \in 1..k : seen'[i] = seen[i]
      /\ \A i \in 1..l : seen'[k + i] = f[i]
      BY <1>1, <1>3, <1>4, <1>5
<1>7. BatchTypeOK'
      BY <1>2, <1>6 DEF BatchTypeOK
<1>8. ASSUME ~shifted PROVE SeenInv'
  <2>1. /\ \A i, j \in 1..k : i < j => seen[i] < seen[j]
        /\ \A n \in Nat : Yielded(n) <=> n \in rows /\ Smaller(rows, n) < offset
        BY <1>6, <1>8 DEF BatchInv, SeenInv
  <2>2. \A n \in rows : Smaller(rows, n) \in Nat /\ n \in Nat
        BY <1>4, SmallerType
  <2>3. \A m, n \in rows : Smaller(rows, m) < Smaller(rows, n) => m < n
    <3> SUFFICES ASSUME NEW m \in rows, NEW n \in rows, Smaller(rows, m) < Smaller(rows, n), ~(m < n)
                 PROVE  FALSE
        OBVIOUS
    <3>1. m \in Nat /\ n \in Nat /\ n <= m
          BY <1>4
    <3>2. Smaller(rows, n) <= Smaller(rows, m)
          BY <1>4, <3>1, SmallerGrows
    <3> QED
        BY <2>2, <3>2
  <2>4. \A i \in 1..k : seen[i] \in rows /\ Smaller(rows, seen[i]) < offset
    <3>1. \A i \in 1..k : seen[i] \in Nat
          BY <1>4, <1>6
    <3>2. \A i \in 1..k : Yielded(seen[i])
          BY <1>6, Zenon DEF Yielded
    <3> QED
        BY <2>1, <3>1, <3>2
  <2>5. \A i \in 1..(k + l) : i \in 1..k \/ \E j \in 1..l : i = k + j
    <3>1. \A i \in 1..(k + l) : i \in 1..k \/ (i - k \in 1..l /\ i = k + (i - k))
          BY <1>6
    <3> QED
        BY <3>1
  <2>6. ASSUME NEW i \in 1..(k + l), NEW j \in 1..(k + l), i < j PROVE seen'[i] < seen'[j]
    <3>1. CASE i \in 1..k /\ j \in 1..k
          BY <1>6, <2>1, <2>6, <3>1
    <3>2. ASSUME i \in 1..k, NEW b \in 1..l, j = k + b PROVE seen'[i] < seen'[j]
      <4>1. seen'[i] = seen[i] /\ seen'[j] = f[b]
            BY <1>6, <3>2
      <4>2. f[b] \in rows /\ Smaller(rows, f[b]) = offset + b - 1 /\ seen[i] \in rows
            /\ Smaller(rows, seen[i]) < offset
            BY <1>3, <1>6, <2>4, <3>2
      <4>3. Smaller(rows, seen[i]) < Smaller(rows, f[b])
        <5>1. b \in Nat /\ 1 <= b
              BY <1>6
        <5>2. Smaller(rows, seen[i]) \in Nat
              BY <2>2, <4>2
        <5> QED
            BY <1>4, <4>2, <5>1, <5>2
      <4> QED
          BY <2>3, <4>1, <4>2, <4>3
    <3>3. ASSUME NEW a \in 1..l, i = k + a, NEW b \in 1..l, j = k + b PROVE seen'[i] < seen'[j]
      <4>1. seen'[i] = f[a] /\ seen'[j] = f[b]
            BY <1>6, <3>3
      <4>2. a \in Nat /\ b \in Nat /\ k + a < k + b
            BY <1>6, <2>6, <3>3
      <4>3. a < b
            BY <1>6, <4>2
      <4>4. /\ f[a] \in rows /\ Smaller(rows, f[a]) = offset + a - 1
            /\ f[b] \in rows /\ Smaller(rows, f[b]) = offset + b - 1
            BY <1>3, <1>6
      <4>5. Smaller(rows, f[a]) < Smaller(rows, f[b])
            BY <1>4, <4>2, <4>3, <4>4
      <4> QED
          BY <2>3, <4>1, <4>4, <4>5
    <3>4. i \in 1..k \/ j \notin 1..k
          BY <1>6, <2>6
    <3> QED
        BY <2>5, <3>1, <3>2, <3>3, <3>4
  <2>7. ASSUME NEW n \in Nat
        PROVE  Yielded(n)' <=> n \in rows /\ Smaller(rows, n) < offset + BatchSize
    <3>1. Yielded(n)' <=> Yielded(n) \/ \E i \in 1..l : f[i] = n
      <4>1. Yielded(n)' <=> \E i \in 1..(k + l) : seen'[i] = n
            BY <1>6 DEF Yielded
      <4>2. Yielded(n) <=> \E i \in 1..k : seen[i] = n
            BY <1>6 DEF Yielded
      <4>3. \A i \in 1..k : i \in 1..(k + l)
            BY <1>6
      <4>4. \A i \in 1..l : k + i \in 1..(k + l)
            BY <1>6
      <4> QED
        <5>1. \A i \in 1..(k + l) : seen'[i] = n =>
                (\E j \in 1..k : seen[j] = n) \/ \E j \in 1..l : f[j] = n
              BY <1>6, <2>5, Zenon
        <5>2. \A j \in 1..k : seen[j] = n => \E i \in 1..(k + l) : seen'[i] = n
              BY <1>6, <4>3, Zenon
        <5>3. \A j \in 1..l : f[j] = n => \E i \in 1..(k + l) : seen'[i] = n
              BY <1>6, <4>4, Zenon
        <5> QED
            BY <4>1, <4>2, <5>1, <5>2, <5>3, Zenon
    <3>2. ASSUME NEW i \in 1..l, f[i] = n
          PROVE  n \in rows /\ Smaller(rows, n) < offset + BatchSize
      <4>1. n \in rows /\ Smaller(rows, n) = offset + i - 1 /\ i <= BatchSize
            BY <1>3, <1>6, <3>2
      <4>2. i \in Nat
            BY <1>6
      <4> QED
          BY <1>2, <1>4, <4>1, <4>2
    <3>3. n \in rows /\ Smaller(rows, n) < offset + BatchSize
          => Smaller(rows, n) < offset \/ \E i \in 1..l : f[i] = n
          BY <1>3, <1>4, <1>6, <2>2
    <3>4. n \in rows /\ Smaller(rows, n) < offset => Smaller(rows, n) < offset + BatchSize
          BY <1>2, <1>4, <2>2
    <3> QED
        BY <2>1, <3>1, <3>2, <3>3, <3>4
  <2>8. \A n \in rows : Smaller(rows, n) < Cardinality(rows)
        BY <1>2, <2>2, OrderedRows
  <2>9. ASSUME finished', NEW n \in steady PROVE Yielded(n)'
    <3>1. n \in rows /\ n \in Nat /\ Cardinality(rows) \in Nat /\ Cardinality(rows) <= offset + BatchSize
          BY <1>4, <2>9, FS_CardinalityType
    <3>2. Smaller(rows, n) < offset + BatchSize
          BY <1>2, <1>4, <2>2, <2>8, <3>1
    <3> QED
        BY <2>7, <3>1, <3>2
  <2>10. \A n \in Nat : Yielded(n)' <=> n \in rows' /\ Smaller(rows', n) < offset'
        BY <2>7
  <2> QED
      BY <1>6, <2>6, <2>9, <2>10 DEF SeenInv
<1> QED
    BY <1>7, <1>8 DEF BatchInv

LEMMA BatchRead == BatchInv /\ (NextBatch \/ NextPage) => BatchInv'
<1> SUFFICES ASSUME BatchInv, NextBatch \/ NextPage PROVE BatchInv'
    OBVIOUS
<1>1. BatchTypeOK /\ BatchSize \in Nat /\ offset \in Nat
      BY BatchAssumption DEF BatchInv, BatchTypeOK
<1>2. ~finished /\ seen' = seen \o Fetched(BatchSize) /\ offset' = offset + BatchSize
      /\ UNCHANGED <<rows, steady, shifted>>
      BY DEF NextBatch, NextPage
<1>3. PICK f, g : f = Fetched(BatchSize) /\ g = Fetched(BatchSize + 1)
      OBVIOUS
<1>4. f \in Seq(Nat) /\ (Len(f) < BatchSize => Cardinality(rows) < offset + BatchSize)
      BY <1>1, <1>3, FetchedRows
<1>5. g \in Seq(Nat) /\ (Len(g) < BatchSize + 1 => Cardinality(rows) < offset + (BatchSize + 1))
  <2>1. BatchSize + 1 \in Nat
        BY <1>1
  <2> QED
      BY <1>1, <1>3, <2>1, FetchedRows
<1>6. Cardinality(rows) \in Nat
      BY <1>1, OrderedRows
<1>7. finished' \in BOOLEAN /\ (finished' => Cardinality(rows) <= offset + BatchSize)
  <2>1. CASE NextBatch
    <3>1. finished' = IsLast(f)
          BY <1>3, <2>1 DEF NextBatch
    <3>2. IsLast(f) <=> Len(f) < BatchSize
          BY DEF IsLast
    <3>3. Len(f) < BatchSize => Cardinality(rows) <= offset + BatchSize
          BY <1>1, <1>4, <1>6
    <3>4. finished' \in BOOLEAN
          BY <1>3, <2>1 DEF NextBatch, IsLast
    <3> QED
        BY <3>1, <3>2, <3>3, <3>4
  <2>2. CASE NextPage
    <3>1. finished' = ~HasNext
          BY <2>2 DEF NextPage
    <3>2. HasNext <=> Len(g) > BatchSize
          BY <1>3 DEF HasNext
    <3>3. ~(Len(g) > BatchSize) => Cardinality(rows) <= offset + BatchSize
          BY <1>1, <1>5, <1>6
    <3>4. finished' \in BOOLEAN
          BY <3>1
    <3> QED
        BY <3>1, <3>2, <3>3, <3>4
  <2> QED
      BY <2>1, <2>2
<1> QED
    BY <1>2, <1>7, SliceYielded

\* A row that comes or goes at or after the offset.
LEMMA BatchChange ==
  ASSUME BatchInv, NEW n \in RowNumbers, ChangeRow(n) PROVE BatchInv'
<1>1. rows \in SUBSET Nat /\ IsFiniteSet(rows) /\ offset \in Nat /\ n \in Nat /\ BatchTypeOK
      BY BatchAssumption DEF BatchInv, BatchTypeOK
<1>2. /\ rows' = IF n \in rows THEN rows \ {n} ELSE rows \cup {n}
      /\ steady' = steady \ {n} /\ UNCHANGED <<offset, seen, finished>>
      BY DEF ChangeRow
<1>3. shifted' = (shifted \/ Smaller(rows, n) < offset)
      BY DEF ChangeRow, Before, Smaller
<1>4. rows' \in SUBSET Nat /\ IsFiniteSet(rows') /\ steady' \subseteq rows'
  <2>1. rows' \in SUBSET Nat /\ steady' \subseteq rows'
        BY <1>1, <1>2 DEF BatchTypeOK
  <2> QED
      BY <1>1, <1>2, <2>1, FS_AddElement, FS_RemoveElement
<1>5. BatchTypeOK'
      BY <1>1, <1>2, <1>3, <1>4 DEF BatchTypeOK
<1>6. ASSUME ~shifted' PROVE SeenInv'
  <2>1. SeenInv /\ offset <= Smaller(rows, n) /\ Smaller(rows, n) \in Nat
    <3>1. ~shifted /\ ~(Smaller(rows, n) < offset)
          BY <1>3, <1>6, Zenon
    <3>2. Smaller(rows, n) \in Nat
          BY <1>1, SmallerType
    <3> QED
        BY <1>1, <3>1, <3>2 DEF BatchInv
  <2>2. \A m \in Nat : m <= n => Smaller(rows', m) = Smaller(rows, m)
    <3> SUFFICES ASSUME NEW m \in Nat, m <= n PROVE Smaller(rows', m) = Smaller(rows, m)
        OBVIOUS
    <3>1. ~(n < m)
          BY <1>1
    <3>2. {x \in rows' : x < m} = {x \in rows : x < m}
          BY <1>2, <3>1
    <3> QED
        BY <3>2 DEF Smaller
  <2>3. \A m \in Nat : n <= m => offset <= Smaller(rows, m) /\ offset <= Smaller(rows', m)
    <3> SUFFICES ASSUME NEW m \in Nat, n <= m
                 PROVE  offset <= Smaller(rows, m) /\ offset <= Smaller(rows', m)
        OBVIOUS
    <3>1. Smaller(rows, n) <= Smaller(rows, m) /\ Smaller(rows', n) <= Smaller(rows', m)
          BY <1>1, <1>4, SmallerGrows
    <3>2. Smaller(rows', n) = Smaller(rows, n)
          BY <1>1, <2>2
    <3>3. Smaller(rows, m) \in Nat /\ Smaller(rows', m) \in Nat
          BY <1>1, <1>4, SmallerType
    <3> QED
        BY <1>1, <2>1, <3>1, <3>2, <3>3
  <2>4. \A m \in Nat : m \in rows' /\ Smaller(rows', m) < offset <=> m \in rows /\ Smaller(rows, m) < offset
    <3> SUFFICES ASSUME NEW m \in Nat
                 PROVE  m \in rows' /\ Smaller(rows', m) < offset <=> m \in rows /\ Smaller(rows, m) < offset
        OBVIOUS
    <3>1. Smaller(rows, m) \in Nat /\ Smaller(rows', m) \in Nat
          BY <1>1, <1>4, SmallerType
    <3>2. CASE n <= m
          BY <1>1, <2>3, <3>1, <3>2
    <3>3. CASE m < n
      <4>1. m # n /\ m <= n
            BY <1>1, <3>3
      <4>2. m \in rows' <=> m \in rows
            BY <1>2, <4>1
      <4> QED
          BY <2>2, <4>1, <4>2
    <3> QED
        BY <1>1, <3>2, <3>3
  <2>5. \A m : Yielded(m)' <=> Yielded(m)
        BY <1>2 DEF Yielded
  <2> QED
      BY <1>2, <2>1, <2>4, <2>5 DEF SeenInv
<1> QED
    BY <1>3, <1>5, <1>6 DEF BatchInv

LEMMA BatchSteps == BatchInv /\ [BatchNext]_(batchVars) => BatchInv'
<1>1. BatchInv /\ UNCHANGED batchVars => BatchInv'
      BY DEF batchVars, BatchInv, BatchTypeOK, SeenInv, Yielded
<1> QED
    BY <1>1, BatchRead, BatchChange DEF BatchNext

\* As long as no row comes or goes before the place they have reached, batches
\* and pages give every row that is there all the time, in order and none twice
\* (utils.py:82-95, core/paginator.py:34-46).
THEOREM BatchesComplete == BatchSpec => []BatchesSeeEverything
<1>1. BatchInv => BatchesSeeEverything
      BY DEF BatchInv, SeenInv, Yielded, BatchesSeeEverything
<1>2. BatchInit => BatchInv
      BY BatchStarts
<1>3. BatchInv /\ [BatchNext]_(batchVars) => BatchInv'
      BY BatchSteps
<1> QED
    BY <1>1, <1>2, <1>3, PTL DEF BatchSpec
-----------------------------------------------------------------------------
\* Quotients and products.
LEMMA Divided ==
  ASSUME NEW a \in Int, NEW b \in Nat, b > 0
  PROVE  /\ a \div b \in Int /\ a % b \in Int /\ 0 <= a % b /\ a % b < b
         /\ a = b * (a \div b) + (a % b)
OBVIOUS

LEMMA Products ==
  ASSUME NEW x \in Int, NEW y \in Int, NEW b \in Nat, b > 0
  PROVE  /\ b * x \in Int
         /\ x <= y <=> b * x <= b * y
         /\ x < y <=> b * x < b * y
OBVIOUS

LEMMA MultipleDivided ==
  ASSUME NEW q \in Int, NEW b \in Nat, b > 0
  PROVE  (b * q) \div b = q /\ (b * q) % b = 0
OBVIOUS

LEMMA RoundGrows ==
  ASSUME NEW a \in Nat, NEW c \in Nat, a <= c, NEW b \in Nat, b > 0
  PROVE  Round(a, b) \in Nat /\ Round(c, b) \in Nat /\ Round(a, b) <= Round(c, b)
<1>1. PICK q \in Int, r \in Int : q = a \div b /\ r = a % b /\ 0 <= r /\ r < b /\ a = b * q + r
      BY Divided
<1>2. PICK p \in Int, s \in Int : p = c \div b /\ s = c % b /\ 0 <= s /\ s < b /\ c = b * p + s
      BY Divided
<1>3. 0 <= q /\ q <= p
  <2>1. b * (-1) < b * q /\ b * q < b * (p + 1)
        BY <1>1, <1>2
  <2>2. -1 < q /\ q < p + 1
        BY <2>1, Products
  <2> QED
      BY <2>2
<1>4. q = p => r <= s
      BY <1>1, <1>2
<1>5. /\ Round(a, b) = IF 2 * r < b \/ (2 * r = b /\ q % 2 = 0) THEN q ELSE q + 1
      /\ Round(c, b) = IF 2 * s < b \/ (2 * s = b /\ p % 2 = 0) THEN p ELSE p + 1
      BY <1>1, <1>2 DEF Round
<1>6. CASE q < p
      BY <1>3, <1>5, <1>6
<1>7. CASE q = p
      BY <1>3, <1>4, <1>5, <1>7
<1> QED
    BY <1>3, <1>6, <1>7

LEMMA RoundBelow ==
  ASSUME NEW a \in Nat, NEW m \in Nat, NEW b \in Nat, b > 0, a <= b * m
  PROVE  Round(a, b) \in Nat /\ Round(a, b) <= m
<1>1. (b * m) \div b = m /\ (b * m) % b = 0 /\ b * m \in Nat
      BY MultipleDivided
<1>2. PICK c \in Nat : c = b * m
      BY <1>1
<1>3. Round(c, b) = m
      BY <1>1, <1>2 DEF Round
<1> QED
    BY <1>2, <1>3, RoundGrows

LEMMA CeilDivBounds ==
  ASSUME NEW a \in Int, NEW b \in Nat, b > 0
  PROVE  LET c == CeilDiv(a, b) IN c \in Int /\ b * (c - 1) < a /\ a <= b * c
<1>1. PICK n \in Int : n = -a
      OBVIOUS
<1>2. PICK q \in Int, r \in Int : q = n \div b /\ 0 <= r /\ r < b /\ n = b * q + r
      BY Divided
<1>3. CeilDiv(a, b) = -q
      BY <1>1, <1>2 DEF CeilDiv
<1>4. b * (-q) = -(b * q) /\ b * (-q - 1) = -(b * q) - b /\ b * q \in Int
      OBVIOUS
<1> QED
    BY <1>1, <1>2, <1>3, <1>4

LEMMA GreatestOf ==
  ASSUME NEW S \in SUBSET Int, IsFiniteSet(S), S # {}
  PROVE  Greatest(S) \in S /\ \A k \in S : k <= Greatest(S)
<1>1. Cardinality(S) \in Nat /\ Cardinality(S) # 0
      BY FS_CardinalityType, FS_EmptySet
<1>2. Cardinality(S) \in 1..Cardinality(S)
      BY <1>1
<1>3. PICK x \in S : Smaller(S, x) = Cardinality(S) - 1
      BY <1>2, SmallerLists
<1>4. \A k \in S : k <= x
  <2> SUFFICES ASSUME NEW k \in S, x < k PROVE FALSE
      OBVIOUS
  <2>1. Smaller(S, x) < Smaller(S, k) /\ Smaller(S, k) \in Nat
        BY SmallerGrows, SmallerType
  <2>2. Smaller(S, k) = Cardinality(S)
        BY <1>1, <1>3, <2>1, SmallerType
  <2>3. PICK T : T = {m \in S : m < k}
        OBVIOUS
  <2>4. T \in SUBSET S /\ T # S
        BY <2>3
  <2> QED
      BY <2>2, <2>3, <2>4, FS_Subset DEF Smaller
<1> QED
    BY <1>4 DEF Greatest

\* The least of finitely many keys.
LEMMA LeastOf ==
  ASSUME NEW S \in SUBSET Int, IsFiniteSet(S), S # {}
  PROVE  Least(S) \in S /\ \A k \in S : Least(S) <= k
<1>1. Cardinality(S) \in Nat /\ Cardinality(S) # 0
      BY FS_CardinalityType, FS_EmptySet
<1>2. 1 \in 1..Cardinality(S)
      BY <1>1
<1>3. PICK x \in S : Smaller(S, x) = 0
      BY <1>2, SmallerLists
<1>4. \A k \in S : x <= k
  <2> SUFFICES ASSUME NEW k \in S, k < x PROVE FALSE
      OBVIOUS
  <2>1. Smaller(S, k) < Smaller(S, x) /\ Smaller(S, k) \in Nat
        BY SmallerGrows, SmallerType
  <2> QED
      BY <1>3, <2>1
<1> QED
    BY <1>4 DEF Least

\* The sorted keys.
LEMMA SortedKeys ==
  ASSUME NEW S \in SUBSET Int, IsFiniteSet(S)
  PROVE  /\ Sorted(S) \in [1..Cardinality(S) -> S] /\ Cardinality(S) \in Nat
         /\ \A i, j \in 1..Cardinality(S) : i <= j => Sorted(S)[i] <= Sorted(S)[j]
<1>1. PICK f : f = Sorted(S)
      OBVIOUS
<1>2. f = [i \in 1..Cardinality(S) |-> CHOOSE k \in S : Smaller(S, k) = i - 1]
      BY <1>1 DEF Sorted, Smaller
<1>3. \A i \in 1..Cardinality(S) : f[i] \in S /\ Smaller(S, f[i]) = i - 1
  <2> SUFFICES ASSUME NEW i \in 1..Cardinality(S) PROVE f[i] \in S /\ Smaller(S, f[i]) = i - 1
      OBVIOUS
  <2>1. \E k \in S : Smaller(S, k) = i - 1
        BY SmallerLists
  <2>2. f[i] = CHOOSE k \in S : Smaller(S, k) = i - 1
        BY <1>2
  <2> QED
      BY <2>1, <2>2
<1>4. Cardinality(S) \in Nat
      BY FS_CardinalityType
<1>5. ASSUME NEW i \in 1..Cardinality(S), NEW j \in 1..Cardinality(S), i <= j PROVE f[i] <= f[j]
  <2>1. f[i] \in S /\ f[j] \in S /\ f[i] \in Int /\ f[j] \in Int
        BY <1>3
  <2>2. f[j] < f[i] => Smaller(S, f[j]) < Smaller(S, f[i])
        BY <2>1, SmallerGrows
  <2>3. ~(f[j] < f[i])
        BY <1>3, <1>4, <1>5, <2>2
  <2> QED
      BY <2>1, <2>3
<1> QED
    BY <1>1, <1>2, <1>3, <1>4, <1>5

\* Keys that split a table send each key to one place.
LEMMA OnePlace ==
  ASSUME NEW m \in Nat, NEW s \in [1..m -> Int], \A i, j \in 1..m : i <= j => s[i] <= s[j],
         NEW k \in Int
  PROVE  \E i \in 1..(m + 1) :
           \A j \in 1..(m + 1) : (j = 1 \/ s[j - 1] <= k) /\ (j = m + 1 \/ k < s[j]) <=> j = i
<1>1. PICK S : S = {j \in 1..(m + 1) : j = m + 1 \/ k < s[j]}
      OBVIOUS
<1>2. S \in SUBSET Nat /\ m + 1 \in S
      BY <1>1
<1>3. PICK i \in S : \A j \in S : i <= j
      BY <1>2, LeastNatural
<1>4. i \in 1..(m + 1) /\ (i = m + 1 \/ k < s[i])
      BY <1>1
<1>5. i = 1 \/ s[i - 1] <= k
  <2> SUFFICES ASSUME i # 1 PROVE s[i - 1] <= k
      OBVIOUS
  <2>1. i - 1 \in 1..m /\ i - 1 \in 1..(m + 1) /\ ~(i <= i - 1)
        BY <1>4
  <2>2. i - 1 \notin S
        BY <1>3, <2>1
  <2> QED
      BY <1>1, <2>1, <2>2
<1>6. ASSUME NEW j \in 1..(m + 1), j = 1 \/ s[j - 1] <= k, j = m + 1 \/ k < s[j] PROVE j = i
  <2>1. i <= j
        BY <1>1, <1>3, <1>6
  <2>2. ~(i < j)
    <3> SUFFICES ASSUME i < j PROVE FALSE
        OBVIOUS
    <3>1. i \in 1..m /\ j - 1 \in 1..m /\ i <= j - 1 /\ j # 1 /\ i # m + 1
          BY <1>4
    <3>2. s[i] <= s[j - 1] /\ s[i] \in Int /\ s[j - 1] \in Int
          BY <3>1
    <3> QED
        BY <1>4, <1>6, <3>1, <3>2
  <2> QED
      BY <1>4, <2>1, <2>2
<1> QED
    BY <1>4, <1>5, <1>6

\* The ranges a key lies in.  They are shards that will process it, and the only
\* ones if no bound between ranges is 0.
Containing(k) ==
  {i \in DOMAIN ranges : /\ ranges[i].lo = NoBound \/ ranges[i].lo <= k
                         /\ ranges[i].hi = NoBound \/ k < ranges[i].hi}

\* There are n ranges.
RangesAre(n) == n \in Nat /\ n = Len(ranges) /\ DOMAIN ranges = 1..n

LEMMA ContainedIn ==
  ASSUME NEW k, NEW n, RangesAre(n)',
         ranges'[1].lo = NoBound \/ ranges'[1].lo <= k,
         ranges'[n].hi = NoBound \/ k < ranges'[n].hi
  PROVE  Containing(k)' \subseteq ShardsOf(k)' /\ (CutAtZero' \/ ShardsOf(k)' = Containing(k)')
<1>0. n \in Nat /\ n = Len(ranges') /\ DOMAIN ranges' = 1..n
      BY DEF RangesAre
<1>1. Containing(k)' \subseteq ShardsOf(k)'
      BY DEF Containing, ShardsOf
<1>2. ASSUME ~CutAtZero', NEW i \in ShardsOf(k)' PROVE i \in Containing(k)'
  <2>1. i \in 1..n
        BY <1>0, <1>2 DEF ShardsOf
  <2>2. i > 1 => ranges'[i].lo # 0
        BY <1>0, <1>2, <2>1 DEF CutAtZero
  <2>3. i < n => ranges'[i].hi # 0
        BY <1>0, <1>2, <2>1 DEF CutAtZero
  <2>4. i = 1 \/ i > 1
        BY <1>0, <2>1
  <2>5. i = n \/ i < n
        BY <1>0, <2>1
  <2>6. ranges'[i].lo = NoBound \/ ranges'[i].lo <= k
        BY <1>0, <1>2, <2>1, <2>2, <2>4 DEF ShardsOf
  <2>7. ranges'[i].hi = NoBound \/ k < ranges'[i].hi
        BY <1>0, <1>2, <2>1, <2>3, <2>5 DEF ShardsOf
  <2> QED
      BY <1>0, <2>1, <2>6, <2>7 DEF Containing
<1> QED
    BY <1>1, <1>2

LEMMA OneShard ==
  ASSUME NEW m \in Nat, NEW s \in [1..m -> Ids], \A i, j \in 1..m : i <= j => s[i] <= s[j],
         ranges' = Splits(s), NEW k \in Ids
  PROVE  ShardsOf(k)' # {} /\ (CutAtZero' \/ Cardinality(ShardsOf(k)') = 1)
<1>1. s \in [1..m -> Int] /\ k \in Int /\ s \in Seq(Ids) /\ Len(s) = m
  <2>1. \A n \in Ids : n \in Int
        BY RangesAssumption
  <2>2. s \in Seq(Ids)
        BY SeqDef
  <2> QED
      BY <2>1, <2>2
<1>2. /\ DOMAIN ranges' = 1..(m + 1) /\ Len(ranges') = m + 1
      /\ \A j \in 1..(m + 1) : /\ ranges'[j].lo = IF j = 1 THEN NoBound ELSE s[j - 1]
                               /\ ranges'[j].hi = IF j = m + 1 THEN NoBound ELSE s[j]
  <2>1. ranges' = [i \in 1..(m + 1) |->
          [lo |-> IF i = 1 THEN NoBound ELSE s[i - 1], hi |-> IF i > m THEN NoBound ELSE s[i]]]
        BY <1>1 DEF Splits, Between
  <2> QED
      BY <2>1
<1>3. PICK i \in 1..(m + 1) :
        \A j \in 1..(m + 1) : (j = 1 \/ s[j - 1] <= k) /\ (j = m + 1 \/ k < s[j]) <=> j = i
      BY <1>1, OnePlace
<1>4. \A j \in 1..m : s[j] # NoBound
      BY <1>1, RangesAssumption
<1>5. \A j \in 1..(m + 1) :
        /\ (ranges'[j].lo = NoBound \/ ranges'[j].lo <= k) <=> (j = 1 \/ s[j - 1] <= k)
        /\ (ranges'[j].hi = NoBound \/ k < ranges'[j].hi) <=> (j = m + 1 \/ k < s[j])
  <2> SUFFICES ASSUME NEW j \in 1..(m + 1)
               PROVE  /\ (ranges'[j].lo = NoBound \/ ranges'[j].lo <= k)
                           <=> (j = 1 \/ s[j - 1] <= k)
                      /\ (ranges'[j].hi = NoBound \/ k < ranges'[j].hi)
                           <=> (j = m + 1 \/ k < s[j])
      OBVIOUS
  <2>1. j = 1 \/ j - 1 \in 1..m
        OBVIOUS
  <2>2. j = m + 1 \/ j \in 1..m
        OBVIOUS
  <2> QED
      BY <1>2, <1>4, <2>1, <2>2
<1>6. Containing(k)' = {i}
      BY <1>2, <1>3, <1>5 DEF Containing
<1>7. /\ 1 \in 1..(m + 1) /\ m + 1 \in 1..(m + 1)
      /\ ranges'[1].lo = NoBound /\ ranges'[m + 1].hi = NoBound
      BY <1>2
<1>8. Containing(k)' \subseteq ShardsOf(k)' /\ (CutAtZero' \/ ShardsOf(k)' = Containing(k)')
  <2>1. PICK n : n = m + 1
        OBVIOUS
  <2>2. RangesAre(n)'
        BY <1>2, <2>1 DEF RangesAre
  <2>3. ranges'[1].lo = NoBound /\ ranges'[n].hi = NoBound
        BY <1>7, <2>1
  <2> QED
      BY <2>2, <2>3, ContainedIn
<1>9. Cardinality({i}) = 1
      BY FS_Singleton
<1> QED
    BY <1>6, <1>8, <1>9

\* Every len/shard_count-th key, or all of too few, in their order.
LEMMA SplitsSorted ==
  ASSUME wanted \in Nat, wanted > 1, NEW n \in Nat, n > 0, NEW s \in [1..n -> Ids],
         \A i, j \in 1..n : i <= j => s[i] <= s[j]
  PROVE  \E m \in 1..(wanted - 1) : \E t \in [1..m -> Ids] :
           SplitKeys(s) = t /\ \A i, j \in 1..m : i <= j => t[i] <= t[j]
<1>1. s \in Seq(Ids) /\ Len(s) = n
  <2>1. s \in Seq(Ids)
        BY SeqDef
  <2> QED
      BY <2>1
<1>2. CASE n < wanted
  <2>1. SplitKeys(s) = s
        BY <1>1, <1>2 DEF SplitKeys
  <2>2. n \in 1..(wanted - 1)
        BY <1>2
  <2> QED
      BY <2>1, <2>2
<1>3. CASE wanted <= n
  <2>1. PICK m : m = wanted - 1 /\ m \in 1..(wanted - 1)
        OBVIOUS
  <2>2. PICK t : t = [i \in 1..m |-> s[1 + Round(n * i, wanted)]]
        OBVIOUS
  <2>3. SplitKeys(s) = t
        BY <1>1, <1>3, <2>1, <2>2 DEF SplitKeys
  <2>4. ASSUME NEW i \in 1..m
        PROVE  n * i \in Nat /\ 1 + Round(n * i, wanted) \in 1..n
    <3>1. n * i <= n * (wanted - 1) /\ n * i \in Nat
          BY <2>1, Products
    <3>2. n * (wanted - 1) <= wanted * (n - 1)
      <4>1. n * (wanted - 1) = n * wanted - n /\ wanted * (n - 1) = n * wanted - wanted
            OBVIOUS
      <4> QED
          BY <1>3, <4>1
    <3>3. n * i <= wanted * (n - 1)
      <4>1. wanted * (n - 1) \in Int /\ n * (wanted - 1) \in Int
            OBVIOUS
      <4> QED
          BY <3>1, <3>2, <4>1
    <3>4. Round(n * i, wanted) \in Nat /\ Round(n * i, wanted) <= n - 1
      <4>1. PICK a \in Nat, b \in Nat : a = n * i /\ b = n - 1
            BY <3>1
      <4>2. a <= wanted * b
            BY <3>3, <4>1
      <4>3. a \in Nat /\ b \in Nat /\ wanted \in Nat /\ wanted > 0
            BY <4>1
      <4>4. Round(a, wanted) \in Nat /\ Round(a, wanted) <= b
            BY <4>2, <4>3, RoundBelow
      <4> QED
          BY <4>1, <4>4
    <3> QED
        BY <3>1, <3>4
  <2>5. ASSUME NEW i \in 1..m, NEW j \in 1..m, i <= j
        PROVE  Round(n * i, wanted) <= Round(n * j, wanted)
    <3>1. n * i <= n * j
          BY <2>1, <2>5, Products
    <3>2. PICK a \in Nat, b \in Nat : a = n * i /\ b = n * j
          BY <2>4
    <3>3. a \in Nat /\ b \in Nat /\ a <= b /\ wanted \in Nat /\ wanted > 0
          BY <3>1, <3>2
    <3>4. Round(a, wanted) <= Round(b, wanted)
          BY <3>3, RoundGrows
    <3> QED
        BY <3>2, <3>4
  <2>6. t \in [1..m -> Ids] /\ \A i \in 1..m : t[i] = s[1 + Round(n * i, wanted)]
        BY <2>2, <2>4
  <2>7. ASSUME NEW i \in 1..m, NEW j \in 1..m, i <= j PROVE t[i] <= t[j]
    <3>1. PICK a \in 1..n, b \in 1..n : a = 1 + Round(n * i, wanted) /\ b = 1 + Round(n * j, wanted)
          BY <2>4
    <3>2. Round(n * i, wanted) \in Int /\ Round(n * j, wanted) \in Int
          BY <2>4, RoundGrows
    <3>3. a <= b
          BY <2>5, <2>7, <3>1, <3>2
    <3> QED
        BY <2>6, <3>1, <3>3
  <2> QED
      BY <2>1, <2>3, <2>6, <2>7
<1> QED
    BY <1>2, <1>3

RangesTypeOK ==
  /\ getter \in {"sequential", "random"} /\ wanted \in Nat /\ wanted > 0
  /\ table \subseteq Ids /\ kept \subseteq table /\ smallest \in Int

\* No key that stays is below the smallest that has been read.
RangesInv ==
  /\ RangesTypeOK
  /\ ranging = "smallest" =>
       getter = "sequential" /\ \A k \in kept : smallest <= k
  /\ EveryRowHasItsShard

LEMMA IdsFinite == \A S \in SUBSET Ids : S \in SUBSET Int /\ IsFiniteSet(S)
BY RangesAssumption, FS_Subset

LEMMA RandomRanges ==
  ASSUME RangesInv, NEW randomKeys \in SUBSET Ids, DatastoreKeyRanges(randomKeys)
  PROVE  RangesInv'
<1>1. /\ getter = "random" /\ ranging' = "done"
      /\ UNCHANGED <<getter, wanted, table, kept, smallest>>
      BY DEF DatastoreKeyRanges
<1>2. wanted \in Nat /\ wanted > 0
      BY DEF RangesInv, RangesTypeOK
<1>3. CASE wanted = 1 \/ randomKeys = {}
  <2>1. ranges' = <<[lo |-> NoBound, hi |-> NoBound]>>
        BY <1>3 DEF DatastoreKeyRanges, Unbounded, Between
  <2>2. DOMAIN ranges' = {1} /\ Len(ranges') = 1 /\ ranges'[1].lo = NoBound /\ ranges'[1].hi = NoBound
        BY <2>1
  <2>3. \A k : ShardsOf(k)' = {1}
        BY <2>2 DEF ShardsOf
  <2>4. \A k : ShardsOf(k)' # {} /\ Cardinality(ShardsOf(k)') = 1
        BY <2>3, FS_Singleton
  <2>5. ~(Len(ranges') > wanted)
        BY <1>2, <2>2
  <2>6. EveryRowHasItsShard'
        BY <1>1, <2>4, <2>5 DEF EveryRowHasItsShard
  <2> QED
      BY <1>1, <2>6 DEF RangesInv, RangesTypeOK
<1>4. CASE wanted # 1 /\ randomKeys # {}
  <2>1. PICK n, s : n = Cardinality(randomKeys) /\ s = Sorted(randomKeys)
        OBVIOUS
  <2>2. /\ n \in Nat /\ n > 0 /\ s \in [1..n -> Ids]
        /\ \A i, j \in 1..n : i <= j => s[i] <= s[j]
    <3>1. randomKeys \in SUBSET Int /\ IsFiniteSet(randomKeys)
          BY IdsFinite
    <3>2. n \in Nat /\ s \in [1..n -> randomKeys] /\ \A i, j \in 1..n : i <= j => s[i] <= s[j]
          BY <2>1, <3>1, SortedKeys
    <3>3. n # 0
          BY <1>4, <2>1, <3>1, FS_EmptySet
    <3> QED
        BY <3>2, <3>3
  <2>3. wanted > 1
        BY <1>2, <1>4
  <2>4. PICK m \in 1..(wanted - 1) : \E t \in [1..m -> Ids] :
          SplitKeys(s) = t /\ \A i, j \in 1..m : i <= j => t[i] <= t[j]
        BY <1>2, <2>2, <2>3, SplitsSorted
  <2>5. PICK t \in [1..m -> Ids] :
          SplitKeys(s) = t /\ \A i, j \in 1..m : i <= j => t[i] <= t[j]
        BY <2>4
  <2>6. ranges' = Splits(t)
        BY <1>4, <2>1, <2>5 DEF DatastoreKeyRanges
  <2>7. m \in Nat /\ m + 1 <= wanted
        BY <1>2
  <2>8. \A k \in Ids : ShardsOf(k)' # {} /\ (CutAtZero' \/ Cardinality(ShardsOf(k)') = 1)
        BY <2>5, <2>6, <2>7, OneShard
  <2>9. Len(ranges') = m + 1
    <3>1. t \in Seq(Ids) /\ Len(t) = m
      <4>1. t \in Seq(Ids)
            BY <2>7, <2>5, SeqDef
      <4> QED
          BY <2>7, <2>5, <4>1
    <3> QED
        BY <2>6, <2>7, <3>1 DEF Splits
  <2>10. EveryRowHasItsShard'
    <3>1. ~(Len(ranges') > wanted)
          BY <1>2, <2>7, <2>9
    <3> QED
        BY <1>1, <2>8, <3>1 DEF EveryRowHasItsShard
  <2> QED
      BY <1>1, <2>10 DEF RangesInv, RangesTypeOK
<1> QED
    BY <1>3, <1>4

\* Sequential ranges of a size, the last behind the biggest key.
RangesOf(size, count, biggest) ==
  [i \in 1..count |->
     IF i < count
     THEN [lo |-> smallest + (i - 1) * size, hi |-> smallest + i * size]
     ELSE [lo |-> biggest - size, hi |-> biggest + 1]]

Fits(size, count, biggest, d) ==
  /\ count <= wanted \/ (smallest < 0 /\ biggest < wanted)
  /\ SequentialRanges(biggest) = RangesOf(size, count, biggest)
  /\ \/ count = 1 /\ d <= size
     \/ count > 1 /\ size > 0 /\ size < d /\ size * (count - 1) < d /\ d <= size * count

\* How many sequential ranges there are, and how large.
LEMMA SequentialCount ==
  ASSUME wanted \in Nat, wanted > 0, smallest \in Int, NEW biggest \in Int,
         NEW d \in Int, d = biggest - smallest, NEW size, size = Size(biggest)
  PROVE  /\ size \in Int
         /\ \E count \in Nat \ {0} : Fits(size, count, biggest, d)
<1>1. /\ size \in Int /\ (d > 0 => size > 0) /\ (size > 0 \/ d <= size)
      /\ d <= size * wanted \/ (smallest < 0 /\ biggest < wanted)
  <2>1. CASE biggest < wanted
    <3>1. size = 1
          BY <2>1 DEF Size
    <3>2. d <= wanted \/ smallest < 0
          BY <2>1
    <3> QED
        BY <2>1, <3>1, <3>2
  <2>2. CASE ~(biggest < wanted)
    <3>1. size = CeilDiv(d, wanted)
          BY <2>2 DEF Size
    <3>2. size \in Int /\ d <= wanted * size
          BY <3>1, CeilDivBounds
    <3>3. d > 0 => size > 0
      <4>1. ~(size > 0) => wanted * size <= wanted * 0
            BY <3>2, Products
      <4> QED
          BY <3>2, <4>1
    <3>4. ~(size > 0) => wanted * size <= size
          BY <3>2
    <3> QED
        BY <3>2, <3>3, <3>4
  <2> QED
      BY <2>1, <2>2
<1>2. CASE ~(smallest + size < biggest)
  <2>1. d <= size
        BY <1>1, <1>2
  <2>2. SequentialRanges(biggest) = RangesOf(size, 1, biggest)
        BY <1>2 DEF SequentialRanges, LastRange, Between, RangesOf
  <2> QED
      BY <1>1, <2>1, <2>2 DEF Fits
<1>3. CASE smallest + size < biggest
  <2>1. size < d /\ size > 0
        BY <1>1, <1>3
  <2>2. PICK count : count = CeilDiv(d, size)
        OBVIOUS
  <2>3. count \in Int /\ size * (count - 1) < d /\ d <= size * count
        BY <1>1, <2>1, <2>2, CeilDivBounds
  <2>4. count > 1
    <3>1. size * 1 < size * count
          BY <1>1, <2>1, <2>3
    <3> QED
        BY <1>1, <2>1, <2>3, <3>1, Products
  <2>5. count <= wanted \/ (smallest < 0 /\ biggest < wanted)
    <3> SUFFICES ASSUME d <= size * wanted PROVE count <= wanted
        BY <1>1
    <3>1. size * (count - 1) < size * wanted
          BY <1>1, <2>3
    <3>2. count - 1 < wanted
          BY <1>1, <2>1, <2>3, <3>1, Products
    <3> QED
        BY <2>3, <3>2
  <2>6. SequentialRanges(biggest) = RangesOf(size, count, biggest)
        BY <1>3, <2>2 DEF SequentialRanges, LastRange, Between, RangesOf
  <2> QED
      BY <1>1, <2>1, <2>3, <2>4, <2>5, <2>6 DEF Fits
<1> QED
    BY <1>2, <1>3

\* A key is in the range its distance from the smallest selects, and in the last
\* when it is within the size of a range of the biggest.
LEMMA SequentialShards ==
  ASSUME NEW size \in Nat, size > 0, NEW count \in Nat, count > 1, NEW d \in Nat, size < d,
         smallest \in Int, NEW biggest \in Int, biggest = smallest + d,
         NEW k \in Int, smallest <= k, k <= biggest
  PROVE  /\ size * (count - 1) < d /\ d <= size * count
         /\ ranges' = RangesOf(size, count, biggest)
         => Cardinality(Containing(k)') = 1 \/ Containing(k)' = {count - 1, count}
<1>1. SUFFICES
        ASSUME /\ size * (count - 1) < d /\ d <= size * count
               /\ ranges' = RangesOf(size, count, biggest)
        PROVE  Cardinality(Containing(k)') = 1 \/ Containing(k)' = {count - 1, count}
      OBVIOUS
<1>2. /\ DOMAIN ranges' = 1..count
      /\ \A i \in 1..count : i < count =>
           ranges'[i] = [lo |-> smallest + (i - 1) * size, hi |-> smallest + i * size]
      /\ ranges'[count] = [lo |-> biggest - size, hi |-> biggest + 1]
      BY <1>1 DEF RangesOf
<1>3. PICK e \in Nat : e = k - smallest /\ e <= d
      OBVIOUS
<1>4. PICK q \in Int, r \in Int : q = e \div size /\ 0 <= r /\ r < size /\ e = size * q + r
      BY <1>3, Divided
<1>5. q >= 0
  <2>1. size * (-1) < size * q
        BY <1>3, <1>4
  <2>2. -1 < q
        BY <1>4, <2>1, Products
  <2> QED
      BY <1>4, <2>2
<1>6. PICK j \in Nat : j = q + 1 /\ j >= 1
      BY <1>4, <1>5
<1>7. size * (j - 1) <= e /\ e < size * j
      BY <1>4, <1>6
<1>8. ASSUME NEW i \in 1..count, i < count
      PROVE  i \in Containing(k)' <=> i = j
  <2>1. PICK a \in Int, b \in Int : a = size * (i - 1) /\ b = size * i /\ a >= 0 /\ b > 0
    <3>1. PICK a \in Int, b \in Int : a = size * (i - 1) /\ b = size * i
          OBVIOUS
    <3>2. i - 1 \in Int /\ i \in Int /\ 0 <= i - 1 /\ 0 < i /\ size * 0 = 0
          OBVIOUS
    <3>3. size * 0 <= size * (i - 1) /\ size * 0 < size * i
          BY <3>2, Products
    <3>4. 0 <= a /\ 0 < b
          BY <3>1, <3>2, <3>3
    <3> QED
        BY <3>1, <3>4
  <2>2. ranges'[i].lo = smallest + a /\ ranges'[i].hi = smallest + b
        BY <1>8, <1>2, <2>1
  <2>3. ranges'[i].lo # NoBound /\ ranges'[i].hi # NoBound
    <3>1. smallest + a \in Int /\ smallest + b \in Int
          BY <2>1
    <3> QED
        BY <2>2, <3>1, RangesAssumption
  <2>4. i \in Containing(k)' <=> smallest + a <= k /\ k < smallest + b
        BY <1>2, <2>2, <2>3 DEF Containing
  <2>5. i \in Containing(k)' <=> a <= e /\ e < b
        BY <1>3, <2>1, <2>4
  <2>6. i = j => a <= e /\ e < b
        BY <1>7, <2>1
  <2>7. a <= e /\ e < b => i = j
    <3> SUFFICES ASSUME a <= e, e < b PROVE i = j
        OBVIOUS
    <3>1. size * (i - 1) < size * j /\ size * (j - 1) < size * i
      <4>1. PICK x \in Int, y \in Int : x = size * j /\ y = size * (j - 1)
            OBVIOUS
      <4>2. y <= e /\ e < x /\ a <= e /\ e < b
            BY <1>7, <4>1
      <4>3. a < x /\ y < b
            BY <4>1, <4>2
      <4> QED
          BY <2>1, <4>1, <4>3
    <3>2. i - 1 < j /\ j - 1 < i
          BY <3>1, Products
    <3> QED
        BY <3>2
  <2> QED
      BY <2>5, <2>6, <2>7
<1>9. count \in Containing(k)' <=> d - size <= e
  <2>1. ranges'[count].lo = smallest + d - size /\ ranges'[count].hi = smallest + d + 1
        BY <1>2
  <2>2. ranges'[count].lo # NoBound /\ ranges'[count].hi # NoBound
        BY <2>1, RangesAssumption
  <2>3. count \in Containing(k)' <=> smallest + d - size <= k /\ k < smallest + d + 1
        BY <1>2, <2>1, <2>2 DEF Containing
  <2> QED
      BY <1>3, <2>3
<1>10. Containing(k)' \subseteq 1..count
      BY <1>2 DEF Containing
<1>11. CASE j < count /\ e < d - size
  <2>1. Containing(k)' = {j}
        BY <1>6, <1>8, <1>9, <1>10, <1>11
  <2> QED
      BY <2>1, FS_Singleton
<1>12. CASE j < count /\ d - size <= e
  <2>1. size * (count - 2) < size * j
    <3>1. PICK x \in Int, y \in Int : x = size * (count - 1) /\ y = size * j
          OBVIOUS
    <3>2. size * (count - 2) = x - size
          BY <3>1
    <3>3. x < d /\ e < y
          BY <1>7, <1>1, <3>1
    <3>4. x \in Int /\ y \in Int
          BY <3>1
    <3>5. x - size < y
          BY <1>3, <1>12, <3>3, <3>4
    <3> QED
        BY <3>1, <3>2, <3>5
  <2>2. j = count - 1
    <3>1. count - 2 < j
          BY <2>1, Products
    <3> QED
        BY <1>12, <3>1
  <2>3. count \in Containing(k)' /\ \A i \in 1..(count - 1) : i \in Containing(k)' <=> i = j
        BY <1>8, <1>9, <1>12
  <2>4. \A i \in 1..count : i = count \/ i \in 1..(count - 1)
        OBVIOUS
  <2>5. Containing(k)' = {count - 1, count}
        BY <1>6, <1>10, <1>12, <2>2, <2>3, <2>4
  <2> QED
      BY <2>5
<1>13. CASE count <= j
  <2>1. d - size <= e
    <3>1. size * (count - 1) <= size * (j - 1)
          BY <1>13, Products
    <3>2. PICK x \in Int, y \in Int : x = size * (count - 1) /\ y = size * (j - 1)
          OBVIOUS
    <3>3. size * count = x + size
          BY <3>2
    <3>4. x <= y /\ y <= e /\ d <= x + size
          BY <1>7, <1>1, <3>1, <3>2, <3>3
    <3>5. x \in Int /\ y \in Int
          BY <3>2
    <3> QED
        BY <1>3, <3>4, <3>5
  <2>2. Containing(k)' = {count}
    <3>1. count \in Containing(k)' /\ \A i \in 1..(count - 1) : i \notin Containing(k)'
          BY <1>8, <1>9, <1>13, <2>1
    <3>2. \A i \in 1..count : i = count \/ i \in 1..(count - 1)
          OBVIOUS
    <3> QED
        BY <1>10, <3>1, <3>2
  <2> QED
      BY <2>2, FS_Singleton
<1> QED
    BY <1>11, <1>12, <1>13

LEMMA SequentialKeys == RangesInv /\ SequentialIntKeyRanges => RangesInv'
<1> SUFFICES ASSUME RangesInv, SequentialIntKeyRanges PROVE RangesInv'
    OBVIOUS
<1>1. /\ ranging = "smallest" /\ getter = "sequential"
      /\ \A k \in kept : smallest <= k
      /\ UNCHANGED <<getter, wanted, table, kept, smallest>>
      BY DEF SequentialIntKeyRanges, RangesInv
<1>2. wanted \in Nat /\ wanted > 0 /\ smallest \in Int /\ kept \subseteq table
      BY DEF RangesInv, RangesTypeOK
<1>3. table \in SUBSET Int /\ IsFiniteSet(table)
      BY IdsFinite DEF RangesInv, RangesTypeOK
<1>4. CASE table = {}
  <2>1. ranging' = "failed"
        BY <1>4 DEF SequentialIntKeyRanges
  <2> QED
      BY <1>1, <2>1 DEF RangesInv, RangesTypeOK, EveryRowHasItsShard
<1>5. CASE table # {}
  <2>1. PICK biggest, d, size : /\ biggest = Greatest(table) /\ d = biggest - smallest
                                /\ size = Size(biggest)
        OBVIOUS
  <2>2. biggest \in Int /\ \A k \in table : k <= biggest
        BY <1>3, <1>5, <2>1, GreatestOf
  <2>3. ranging' = "done" /\ ranges' = SequentialRanges(biggest)
        BY <1>5, <2>1 DEF SequentialIntKeyRanges
  <2>4. d \in Int /\ biggest = smallest + d
        BY <1>2, <2>1, <2>2
  <2>5. d = biggest - smallest /\ size = Size(biggest) /\ d \in Int /\ biggest \in Int
        BY <2>1, <2>2, <2>4
  <2>6. /\ size \in Int
        /\ \E count \in Nat \ {0} : Fits(size, count, biggest, d)
        BY <1>1, <1>2, <2>5, SequentialCount
  <2>7. size \in Int
        BY <2>6
  <2>8. PICK count \in Nat \ {0} :
          /\ count <= wanted \/ (smallest < 0 /\ biggest < wanted)
          /\ ranges' = RangesOf(size, count, biggest)
          /\ \/ count = 1 /\ d <= size
             \/ count > 1 /\ size > 0 /\ size < d /\ size * (count - 1) < d /\ d <= size * count
        BY <2>3, <2>6 DEF Fits
  <2>9. /\ Len(ranges') = count /\ DOMAIN ranges' = 1..count /\ 1 \in 1..count /\ count \in 1..count
        /\ ranges'[count].lo = biggest - size /\ ranges'[count].hi = biggest + 1
        BY <1>2, <2>8 DEF RangesOf
  <2>10. ASSUME NEW k \in kept
         PROVE  Containing(k)' # {} /\ (\/ Cardinality(Containing(k)') = 1
                                        \/ Containing(k)' = {count - 1, count})
    <3>1. k \in Int /\ smallest <= k /\ k <= smallest + d /\ d \in Nat
          BY <1>1, <1>2, <1>3, <2>2, <2>4
    <3>2. CASE count = 1 /\ d <= size
      <4>1. ranges'[1].lo = biggest - size /\ ranges'[1].hi = biggest + 1
            BY <2>9, <3>2
      <4>2. ranges'[1].lo <= k /\ k < ranges'[1].hi
            BY <1>2, <2>2, <2>4, <2>7, <3>1, <3>2, <4>1
      <4>3. Containing(k)' = {1}
            BY <2>9, <3>2, <4>2 DEF Containing
      <4> QED
          BY <4>3, FS_Singleton
    <3>3. CASE count # 1
      <4>1. /\ count \in Nat /\ size \in Nat /\ count > 1 /\ size > 0 /\ size < d
            /\ size * (count - 1) < d /\ d <= size * count
            BY <1>2, <2>7, <2>8, <3>3
      <4>2. /\ smallest \in Int /\ biggest \in Int /\ biggest = smallest + d
            /\ d \in Nat /\ k \in Int /\ smallest <= k /\ k <= biggest
            BY <1>1, <1>2, <2>2, <2>4, <3>1
      <4>3. ranges' = RangesOf(size, count, biggest)
            BY <2>8
      <4>4. Cardinality(Containing(k)') = 1 \/ Containing(k)' = {count - 1, count}
            BY <4>1, <4>2, <4>3, SequentialShards, Zenon
      <4>5. Cardinality({}) = 0
            BY FS_EmptySet
      <4> QED
          BY <4>4, <4>5
    <3> QED
        BY <2>8, <3>2, <3>3
  <2>11. ASSUME NEW k \in kept
         PROVE  Containing(k)' \subseteq ShardsOf(k)' /\ (CutAtZero' \/ ShardsOf(k)' = Containing(k)')
    <3>1. k \in Int /\ smallest <= k /\ k <= biggest
          BY <1>1, <1>2, <1>3, <2>2
    <3>2. ranges'[1].lo <= k
      <4>1. CASE count = 1
            BY <1>2, <2>4, <2>7, <2>8, <2>9, <3>1, <4>1
      <4>2. CASE count # 1
        <5>1. ranges'[1].lo = smallest + (1 - 1) * size
              BY <2>8, <2>9, <4>2 DEF RangesOf
        <5> QED
            BY <1>2, <2>7, <3>1, <5>1
      <4> QED
          BY <4>1, <4>2
    <3>3. k < ranges'[count].hi
          BY <2>2, <2>9, <3>1
    <3>4. RangesAre(count)'
          BY <2>9 DEF RangesAre
    <3> QED
        BY <3>2, <3>3, <3>4, ContainedIn
  <2>12. Len(ranges') > wanted => smallest < 0 /\ ranges'[Len(ranges')].hi <= wanted
         BY <1>2, <2>2, <2>8, <2>9
  <2>13. EveryRowHasItsShard'
    <3>1. \A k \in kept : /\ ShardsOf(k)' # {}
                          /\ \/ Cardinality(ShardsOf(k)') = 1
                             \/ ShardsOf(k)' = {Len(ranges') - 1, Len(ranges')}
                             \/ CutAtZero'
          BY <2>9, <2>10, <2>11
    <3> QED
        BY <1>1, <2>12, <3>1 DEF EveryRowHasItsShard
  <2> QED
      BY <1>1, <1>2, <2>3, <2>13 DEF RangesInv, RangesTypeOK
<1> QED
    BY <1>4, <1>5

LEMMA SmallestRead == RangesInv /\ ReadSmallest => RangesInv'
<1> SUFFICES ASSUME RangesInv, ReadSmallest PROVE RangesInv'
    OBVIOUS
<1>1. getter = "sequential" /\ UNCHANGED <<getter, wanted, table, kept, ranges>>
      BY DEF ReadSmallest
<1>2. CASE table = {}
      BY <1>1, <1>2 DEF ReadSmallest, RangesInv, RangesTypeOK, EveryRowHasItsShard
<1>3. CASE table # {}
  <2>1. table \in SUBSET Int /\ IsFiniteSet(table)
        BY IdsFinite DEF RangesInv, RangesTypeOK
  <2>2. Least(table) \in table /\ \A j \in table : Least(table) <= j
        BY <1>3, <2>1, LeastOf
  <2>3. ranging' = "smallest" /\ smallest' = Least(table)
        BY <1>3 DEF ReadSmallest
  <2> QED
      BY <1>1, <2>1, <2>2, <2>3 DEF RangesInv, RangesTypeOK, EveryRowHasItsShard
<1> QED
    BY <1>2, <1>3

LEMMA TableMoves == RangesInv /\ TableChanges => RangesInv'
<1> SUFFICES ASSUME RangesInv, TableChanges PROVE RangesInv'
    OBVIOUS
<1>1. UNCHANGED <<getter, wanted, ranging, smallest, ranges>>
      BY DEF TableChanges
<1>2. kept' \subseteq kept /\ kept' \subseteq table' /\ table' \subseteq Ids
      BY DEF TableChanges, RangesInv, RangesTypeOK
<1>3. CutAtZero' = CutAtZero /\ \A k : ShardsOf(k)' = ShardsOf(k)
      BY <1>1 DEF ShardsOf, CutAtZero
<1>4. RangesTypeOK'
      BY <1>1, <1>2 DEF RangesInv, RangesTypeOK
<1>5. EveryRowHasItsShard'
      BY <1>1, <1>2, <1>3 DEF RangesInv, EveryRowHasItsShard
<1> QED
    BY <1>1, <1>2, <1>4, <1>5 DEF RangesInv

\* Every row that is there all the time has a shard, for any keys, 0 and negative
\* ones included, number of shards and changes of the table; and one only, but in
\* the cases the property names (processing.py:33-49, 77-88, deferred.py:490-495).
THEOREM RowsHaveShards == RangesSpec => []EveryRowHasItsShard
<1>1. RangesInit => RangesInv
      BY RangesAssumption DEF RangesInit, RangesInv, RangesTypeOK, EveryRowHasItsShard
<1>2. RangesInv /\ [RangesNext]_rangesVars => RangesInv'
  <2>1. RangesInv /\ UNCHANGED rangesVars => RangesInv'
        BY DEF rangesVars, RangesInv, RangesTypeOK, EveryRowHasItsShard, ShardsOf, CutAtZero
  <2> QED
      BY <2>1, SmallestRead, SequentialKeys, RandomRanges, TableMoves DEF RangesNext
<1>3. RangesInv => EveryRowHasItsShard
      BY DEF RangesInv
<1> QED
    BY <1>1, <1>2, <1>3, PTL DEF RangesSpec
-----------------------------------------------------------------------------
\* The weak lock (MemcacheLock), for any number of threads and any numbers they
\* may draw, the same one twice included.
\* An entry in the cache is somebody's who is inside: a thread that is robbed
\* leaves the thief's entry to the thief.
EntryIsOwned == cache # Empty => \E t \in Holders : cache = value[t]

WeakInv == ExcludesUnlessStolen /\ EntryIsOwned

USE DEF MovesTo, Holders, PCs

\* Nobody has called acquire() (memcache.py:26-33).
LEMMA InitWeakInv == ASSUME WeakInit PROVE WeakInv
<1>1. PICK o \in Options, v \in Values :
        opt = [t \in Threads |-> o] /\ value = [t \in Threads |-> v]
  <2>1. (CHOOSE o \in Options : TRUE) \in Options /\ (CHOOSE v \in Values : TRUE) \in Values
        BY WeakAssumption
  <2> QED
      BY <2>1 DEF WeakInit
<1>2. WeakTypeOK
  <2>1. opt \in [Threads -> Options] /\ value \in [Threads -> Values]
        BY <1>1
  <2>2. waited \in [Threads -> 0..MaxWait]
        BY WeakAssumption DEF WeakInit
  <2> QED
      BY <2>1, <2>2 DEF WeakInit, WeakTypeOK
<1>3. Holders = {} /\ cache = Empty
      BY DEF WeakInit
<1> QED
    BY <1>2, <1>3 DEF WeakInv, ExcludesUnlessStolen, EntryIsOwned

\* Calls, waits and the clock keep the types.
LEMMA NextWeakTypeOK == ASSUME WeakTypeOK, [WeakNext]_weakVars PROVE WeakTypeOK'
<1> USE WeakAssumption DEF WeakTypeOK
<1>1. ASSUME NEW t \in Threads, NEW o \in Options, NEW v \in Values, Acquire(t, o, v)
      PROVE  WeakTypeOK'
      BY <1>1 DEF Acquire
<1>2. ASSUME NEW t \in Threads, Add(t) \/ Steal(t) PROVE WeakTypeOK'
  <2>1. disturbed' \in BOOLEAN
        BY <1>2, Zenon DEF Add, Steal
  <2>2. CASE Add(t)
        BY <2>1, <2>2 DEF Add
  <2>3. CASE Steal(t)
    <3>1. /\ cache' = value[t] /\ UNCHANGED <<opt, value>>
          /\ weakAt' = [weakAt EXCEPT ![t] = "running"] /\ waited' = [waited EXCEPT ![t] = 0]
          BY <2>3 DEF Steal
    <3> QED
        BY <2>1, <3>1
  <2> QED
      BY <1>2, <2>2, <2>3
<1>3. ASSUME NEW t \in Threads, Refuse(t) \/ AddFails(t) \/ Again(t) PROVE WeakTypeOK'
      BY <1>3 DEF Refuse, AddFails, Again
<1>4. ASSUME NEW t \in Threads, Compare(t) \/ Delete(t) PROVE WeakTypeOK'
      BY <1>4 DEF Compare, Delete, Leave
<1>5. CASE Tick
  <2>1. waited' \in [Threads -> 0..MaxWait]
        BY <1>5 DEF Tick
  <2> QED
      BY <1>5, <2>1 DEF Tick
<1>6. CASE UNCHANGED weakVars
      BY <1>6 DEF weakVars
<1> QED
    BY <1>1, <1>2, <1>3, <1>4, <1>5, <1>6 DEF WeakNext, Step

\* A thread outside stays outside: neither the cache nor those inside change.
LEMMA OutsideStep ==
  ASSUME WeakInv, WeakTypeOK', NEW t \in Threads, weakAt[t] \in {"idle", "add", "wait"},
         NEW to \in {"idle", "add", "wait"}, MovesTo(t, weakAt[t], to),
         UNCHANGED <<cache, disturbed>>,
         \A s \in Threads \ {t} : value'[s] = value[s]
  PROVE  WeakInv'
<1>1. Holders' = Holders /\ \A s \in Holders : value'[s] = value[s]
      BY DEF WeakInv, ExcludesUnlessStolen, WeakTypeOK
<1> QED
    BY <1>1 DEF WeakInv, ExcludesUnlessStolen, EntryIsOwned

\* A thread enters, with its number in the cache (memcache.py:33-45).
LEMMA EnterStep ==
  ASSUME WeakInv, WeakTypeOK', NEW t \in Threads, MovesTo(t, weakAt[t], "running"),
         cache' = value[t], UNCHANGED value,
         Holders = {} \/ disturbed'
  PROVE  WeakInv'
<1>1. Holders' = Holders \cup {t}
      BY DEF WeakInv, ExcludesUnlessStolen, WeakTypeOK
<1> QED
    BY <1>1 DEF WeakInv, ExcludesUnlessStolen, EntryIsOwned

\* A thread leaves, and with it its entry or nothing (memcache.py:47-52).
LEMMA LeaveStep ==
  ASSUME WeakInv, WeakTypeOK', NEW t \in Holders, Leave(t, weakAt[t]), UNCHANGED value,
         cache' = Empty \/ (cache' = cache /\ cache # value[t])
  PROVE  WeakInv'
<1>1. Holders' = Holders \ {t}
      BY DEF WeakInv, ExcludesUnlessStolen, WeakTypeOK, Leave
<1>2. EntryIsOwned'
      BY <1>1 DEF WeakInv, EntryIsOwned
<1>3. ASSUME ~disturbed' PROVE Holders' = {}
  <2>1. CASE ~disturbed
        BY <1>1, <2>1 DEF WeakInv, ExcludesUnlessStolen
  <2>2. CASE Holders = {t}
        BY <1>1, <2>2
  <2> QED
      BY <1>3, <2>1, <2>2 DEF Leave
<1> QED
    BY <1>2, <1>3 DEF WeakInv, ExcludesUnlessStolen

\* Every step keeps the invariant.
LEMMA NextWeakInv == ASSUME WeakInv, [WeakNext]_weakVars PROVE WeakInv'
<1>0. WeakTypeOK /\ WeakTypeOK'
      BY NextWeakTypeOK DEF WeakInv, ExcludesUnlessStolen
<1>1. ASSUME NEW t \in Threads, NEW o \in Options, NEW v \in Values, Acquire(t, o, v)
      PROVE  WeakInv'
      BY <1>0, <1>1, OutsideStep DEF Acquire, WeakTypeOK
<1>2. ASSUME NEW t \in Threads, Add(t) PROVE WeakInv'
  <2>1. Holders = {} \/ disturbed
    <3>1. ASSUME ~disturbed, NEW s \in Holders PROVE FALSE
          BY <1>0, <1>2, <3>1, WeakAssumption DEF WeakInv, ExcludesUnlessStolen, WeakTypeOK, Add
    <3> QED
        BY <1>0, <3>1 DEF WeakTypeOK
  <2> QED
      BY <1>0, <1>2, <2>1, EnterStep DEF Add
<1>3. ASSUME NEW t \in Threads, Steal(t) PROVE WeakInv'
      BY <1>0, <1>3, EnterStep DEF Steal
<1>4. ASSUME NEW t \in Threads, Refuse(t) \/ AddFails(t) \/ Again(t) PROVE WeakInv'
      BY <1>0, <1>4, OutsideStep DEF Refuse, AddFails, Again
<1>5. ASSUME NEW t \in Threads, Compare(t) PROVE WeakInv'
  <2>1. CASE cache = value[t] /\ MovesTo(t, "running", "delete") /\ UNCHANGED disturbed
    <3>1. Holders' = Holders /\ UNCHANGED <<cache, value, disturbed>>
          BY <1>0, <1>5, <2>1 DEF Compare, WeakTypeOK
    <3> QED
        BY <1>0, <3>1 DEF WeakInv, ExcludesUnlessStolen, EntryIsOwned
  <2>2. CASE cache # value[t] /\ Leave(t, "running")
        BY <1>0, <1>5, <2>2, LeaveStep DEF Compare, Leave
  <2> QED
      BY <1>5, <2>1, <2>2 DEF Compare
<1>6. ASSUME NEW t \in Threads, Delete(t) PROVE WeakInv'
      BY <1>0, <1>6, LeaveStep DEF Delete, Leave
<1>7. CASE Tick \/ UNCHANGED weakVars
  <2>1. UNCHANGED <<cache, weakAt, value, disturbed>>
        BY <1>7 DEF Tick, weakVars
  <2> QED
      BY <1>0, <2>1 DEF WeakInv, ExcludesUnlessStolen, EntryIsOwned
<1> QED
    BY <1>1, <1>2, <1>3, <1>4, <1>5, <1>6, <1>7 DEF WeakNext, Step

\* Both parts of the invariant hold.
LEMMA WeakInvHolds == WeakSpec => []WeakInv
<1>1. WeakInit => WeakInv
      BY InitWeakInv
<1>2. WeakInv /\ [WeakNext]_weakVars => WeakInv'
      BY NextWeakInv
<1> QED
    BY <1>1, <1>2, PTL DEF WeakSpec

\* Except in the wake of a steal the weak lock excludes, and its holder finds
\* its own number in the cache (memcache.py:33-52).
THEOREM WeakExclusion == WeakSpec => []ExcludesUnlessStolen
<1>1. WeakInv => ExcludesUnlessStolen
      BY DEF WeakInv
<1> QED
    BY WeakInvHolds, <1>1, PTL

\* Whatever is stolen, raced for or drawn twice, the entry goes with the last
\* thread inside (memcache.py:47-52).
THEOREM NotLeftBehind == WeakSpec => []NothingLeftBehind
<1>1. WeakInv => NothingLeftBehind
      BY DEF WeakInv, EntryIsOwned, NothingLeftBehind
<1> QED
    BY WeakInvHolds, <1>1, PTL

HIDE DEF MovesTo, Holders, PCs
-----------------------------------------------------------------------------
\* One call at a time: it removes what is there, and at its end there is one
\* document or none.
LoneCallInv(m) ==
  overlap[m] = "no" =>
    /\ \A v, w \in Underway : v = w
    /\ \A w \in Underway :
         /\ saving[w].of = m /\ saving[w].content = stored[m]
         /\ saving[w].at = "remove" => saving[w].found = documents
         /\ saving[w].at = "add" => documents = {}
    /\ Underway = {} =>
         IF stored[m] = Nothing THEN DocumentsOf(m) = {}
         ELSE \E n \in 1..MaxCalls : DocumentsOf(m) = {[id |-> n, of |-> m, content |-> stored[m]]}

\* Calls for others add no document of m.
OthersInv(m) ==
  overlap[m] = "others" => /\ \A w \in Underway : saving[w].of # m
                           /\ \A doc \in DocumentsOf(m) : doc.content = stored[m]

\* Calls that overlap are saves, and whoever ends last has added a document.
SavesInv(m) ==
  overlap[m] = "saves" => /\ \A w \in Underway : saving[w].of = m /\ saving[w].content # Nothing
                          /\ Underway = {} => DocumentsOf(m) # {}

\* Only a save adds; a call has a number and a model.
StepsInv ==
  \A w \in Savers : /\ saving[w].at = "add" => saving[w].content # Nothing
                    /\ saving[w].at # "idle" => saving[w].id # 0 /\ saving[w].of \in Models

ModelInv ==
  /\ ModelTypeOK /\ StepsInv
  /\ \A m \in Models : LoneCallInv(m) /\ OthersInv(m) /\ SavesInv(m)

USE ContentsAssumption DEF Underway, TypeOfSaver, Documents, DocumentsOf, Becomes

\* What the observer says after a call (model_document.py:183-222).
LEMMA CallObserved ==
  ASSUME NEW w \in Savers, NEW m \in Models, NEW content \in Contents \cup {Nothing},
         ModelTypeOK, Call(w, m, content)
  PROVE  /\ overlap'[m] \in {"no", "saves", "more"}
         /\ overlap'[m] = "no" => Underway = {}
         /\ overlap'[m] = "saves" =>
              \A v \in Underway' : saving'[v].of = m /\ saving'[v].content # Nothing
         /\ \A n \in Models \ {m} :
              /\ overlap'[n] \in {"others", "more"}
              /\ overlap'[n] = "others" => /\ overlap[n] \in {"no", "others"}
                                           /\ \A v \in Underway : saving[v].of # n
<1>1. overlap'[m] = OwnOverlap(m) /\ \A n \in Models \ {m} : overlap'[n] = OtherOverlap(n)
      BY DEF Call, ModelTypeOK
<1>2. /\ OwnOverlap(m) \in {"no", "saves", "more"}
      /\ OwnOverlap(m) = "no" => Underway = {}
      /\ OwnOverlap(m) = "saves" =>
           \A v \in Savers : saving'[v].at # "idle" => saving'[v].of = m /\ saving'[v].content # Nothing
      BY Zenon DEF OwnOverlap
<1>3. \A n \in Models \ {m} :
        /\ OtherOverlap(n) \in {"others", "more"}
        /\ OtherOverlap(n) = "others" => /\ overlap[n] \in {"no", "others"}
                                         /\ \A v \in Underway : saving[v].of # n
      BY DEF OtherOverlap
<1> QED
    BY <1>1, <1>2, <1>3

\* The types, action by action (model_document.py:183-222).
LEMMA NextModelTypes == ModelTypeOK /\ StepsInv /\ [ModelNext]_documentVars => ModelTypeOK'
<1> SUFFICES ASSUME ModelTypeOK, StepsInv, [ModelNext]_documentVars PROVE ModelTypeOK'
    OBVIOUS
<1> USE DEF ModelTypeOK
<1>1. ASSUME NEW w \in Savers, NEW m \in Models, NEW content \in Contents \cup {Nothing},
             Call(w, m, content)
      PROVE  ModelTypeOK'
  <2>1. \A n \in Models : overlap'[n] \in {"no", "saves", "others", "more"}
        BY <1>1, CallObserved
  <2>2. overlap' \in [Models -> {"no", "saves", "others", "more"}]
        BY <1>1, <2>1 DEF Call
  <2> QED
      BY <1>1, <2>2 DEF Call
<1>2. ASSUME NEW w \in Savers, ListDocuments(w) PROVE ModelTypeOK'
  <2>1. [saving[w] EXCEPT !.at = "remove", !.found = documents] \in TypeOfSaver
        OBVIOUS
  <2> QED
      BY <1>2, <2>1 DEF ListDocuments
<1>3. ASSUME NEW w \in Savers, NEW doc \in saving[w].found, RemoveDocument(w, doc)
      PROVE  ModelTypeOK'
      BY <1>3 DEF RemoveDocument
<1>4. ASSUME NEW w \in Savers, EndRemoval(w) PROVE ModelTypeOK'
      BY <1>4 DEF EndRemoval, Resting
<1>5. ASSUME NEW w \in Savers, AddDocument(w) PROVE ModelTypeOK'
  <2>1. [id |-> saving[w].id, of |-> saving[w].of, content |-> saving[w].content] \in Documents
        BY <1>5 DEF AddDocument, StepsInv
  <2> QED
      BY <1>5, <2>1 DEF AddDocument, Resting
<1>6. ASSUME NEW w \in Savers, Interrupt(w) PROVE ModelTypeOK'
  <2>1. Resting \in TypeOfSaver
        BY DEF Resting
  <2>2. /\ saving' \in [Savers -> TypeOfSaver]
        /\ overlap' \in [Models -> {"no", "saves", "others", "more"}]
        BY <1>6, <2>1 DEF Interrupt
  <2> QED
      BY <1>6, <2>2 DEF Interrupt
<1>7. CASE UNCHANGED documentVars
      BY <1>7 DEF documentVars
<1> QED
    BY <1>1, <1>2, <1>3, <1>4, <1>5, <1>6, <1>7 DEF ModelNext

\* The rest of the invariant, action by action (model_document.py:183-222).
LEMMA NextModelInv == ModelInv /\ [ModelNext]_documentVars => ModelInv'
<1> SUFFICES ASSUME ModelInv, [ModelNext]_documentVars PROVE ModelInv'
    OBVIOUS
<1>0. ModelTypeOK /\ ModelTypeOK' /\ StepsInv
      BY NextModelTypes DEF ModelInv
<1>a. \A m \in Models : LoneCallInv(m) /\ OthersInv(m) /\ SavesInv(m)
      BY DEF ModelInv
<1> USE DEF ModelTypeOK, LoneCallInv, OthersInv, SavesInv, StepsInv
<1>1. ASSUME NEW w \in Savers, NEW m \in Models, NEW content \in Contents \cup {Nothing},
             Call(w, m, content)
      PROVE  ModelInv'
  <2>1. /\ saving[w].at = "idle" /\ saving'[w].at = "list" /\ saving'[w].content = content
        /\ saving'[w].of = m /\ saving'[w].id # 0
        /\ \A v \in Savers \ {w} : saving'[v] = saving[v]
        /\ Underway' = Underway \cup {w} /\ documents' = documents
        /\ stored'[m] = content /\ \A n \in Models \ {m} : stored'[n] = stored[n]
        BY <1>0, <1>1 DEF Call, Resting
  <2>2. StepsInv'
        BY <1>0, <2>1
  <2>3. LoneCallInv(m)' /\ OthersInv(m)' /\ SavesInv(m)'
        BY <1>0, <1>1, <2>1, CallObserved
  <2>4. ASSUME NEW n \in Models \ {m} PROVE LoneCallInv(n)' /\ OthersInv(n)' /\ SavesInv(n)'
    <3>1. overlap'[n] \in {"others", "more"}
          BY <1>0, <1>1, CallObserved
    <3>2. ASSUME overlap'[n] = "others"
          PROVE  /\ \A v \in Underway : saving[v].of # n
                 /\ \A doc \in DocumentsOf(n) : doc.content = stored[n]
      <4>1. overlap[n] \in {"no", "others"} /\ \A v \in Underway : saving[v].of # n
            BY <1>0, <1>1, <3>2, CallObserved
      <4>2. CASE overlap[n] = "no"
        <5>1. Underway = {}
              BY <1>a, <4>1, <4>2
        <5> QED
            BY <1>a, <4>2, <5>1
      <4> QED
          BY <1>a, <4>1, <4>2
    <3> QED
        BY <1>0, <2>1, <3>1, <3>2
  <2>5. ASSUME NEW n \in Models PROVE LoneCallInv(n)' /\ OthersInv(n)' /\ SavesInv(n)'
    <3>1. CASE n = m
          BY <2>3, <3>1
    <3>2. CASE n # m
          BY <2>4, <3>2
    <3> QED
        BY <3>1, <3>2
  <2> QED
      BY <1>0, <2>2, <2>5 DEF ModelInv
<1>2. ASSUME NEW w \in Savers, ListDocuments(w) PROVE ModelInv'
  <2>1. /\ w \in Underway /\ Underway' = Underway /\ saving'[w].at = "remove"
        /\ saving'[w].found = documents /\ saving'[w].content = saving[w].content
        /\ saving'[w].id = saving[w].id /\ saving'[w].of = saving[w].of
        /\ \A v \in Savers \ {w} : saving'[v] = saving[v]
        /\ UNCHANGED <<documents, stored, overlap>>
        BY <1>0, <1>2 DEF ListDocuments
  <2>2. StepsInv'
        BY <1>0, <2>1
  <2>3. ASSUME NEW m \in Models PROVE LoneCallInv(m)' /\ OthersInv(m)' /\ SavesInv(m)'
    <3>1. LoneCallInv(m)'
          BY <1>a, <2>1
    <3>2. OthersInv(m)' /\ SavesInv(m)'
          BY <1>a, <2>1
    <3> QED
        BY <3>1, <3>2
  <2> QED
      BY <1>0, <2>2, <2>3 DEF ModelInv
<1>3. ASSUME NEW w \in Savers, NEW doc \in saving[w].found, RemoveDocument(w, doc)
      PROVE  ModelInv'
  <2>1. /\ w \in Underway /\ Underway' = Underway /\ saving'[w].at = "remove"
        /\ saving[w].at = "remove" /\ saving'[w].content = saving[w].content
        /\ saving'[w].found = saving[w].found \ {doc} /\ documents' = documents \ {doc}
        /\ saving'[w].id = saving[w].id /\ saving'[w].of = saving[w].of
        /\ \A v \in Savers \ {w} : saving'[v] = saving[v]
        /\ UNCHANGED <<stored, overlap>>
        BY <1>0, <1>3 DEF RemoveDocument
  <2> QED
      BY <1>0, <1>a, <2>1 DEF ModelInv
<1>4. ASSUME NEW w \in Savers, EndRemoval(w) PROVE ModelInv'
  <2>1. /\ w \in Underway /\ saving[w].at = "remove" /\ saving[w].found = {}
        /\ \A v \in Savers \ {w} : saving'[v] = saving[v]
        /\ UNCHANGED <<documents, stored, overlap>>
        BY <1>0, <1>4 DEF EndRemoval
  <2>2. CASE saving[w].content = Nothing
    <3>1. saving'[w] = Resting /\ Underway' = Underway \ {w}
          BY <1>0, <1>4, <2>2 DEF EndRemoval, Resting
    <3> QED
        BY <1>0, <1>a, <2>1, <2>2, <3>1 DEF ModelInv, Resting
  <2>3. CASE saving[w].content # Nothing
    <3>1. /\ Underway' = Underway /\ saving'[w].at = "add" /\ saving'[w].id = saving[w].id
          /\ saving'[w].content = saving[w].content /\ saving'[w].of = saving[w].of
          BY <1>0, <1>4, <2>3 DEF EndRemoval
    <3> QED
        BY <1>0, <1>a, <2>1, <2>3, <3>1 DEF ModelInv
  <2> QED
      BY <2>2, <2>3
<1>5. ASSUME NEW w \in Savers, AddDocument(w) PROVE ModelInv'
  <2> DEFINE new == [id |-> saving[w].id, of |-> saving[w].of, content |-> saving[w].content]
  <2>1. /\ w \in Underway /\ saving[w].at = "add" /\ saving[w].id \in 1..MaxCalls
        /\ saving[w].content # Nothing /\ saving[w].of \in Models
        /\ documents' = documents \cup {new}
        /\ saving'[w] = Resting /\ Underway' = Underway \ {w}
        /\ \A v \in Savers \ {w} : saving'[v] = saving[v]
        /\ UNCHANGED <<stored, overlap>>
        BY <1>0, <1>5 DEF AddDocument, Resting
  <2>2. StepsInv'
        BY <1>0, <2>1 DEF Resting
  <2>3. ASSUME NEW m \in Models PROVE LoneCallInv(m)' /\ OthersInv(m)' /\ SavesInv(m)'
    <3>1. overlap[m] = "no" => /\ Underway' = {} /\ stored[m] # Nothing
                               /\ documents' = {[id |-> saving[w].id, of |-> m, content |-> stored[m]]}
          BY <1>a, <2>1
    <3>2. LoneCallInv(m)'
      <4>1. ASSUME overlap[m] = "no"
            PROVE  /\ Underway' = {} /\ stored'[m] # Nothing
                   /\ DocumentsOf(m)' = {[id |-> saving[w].id, of |-> m, content |-> stored'[m]]}
            BY <2>1, <3>1, <4>1
      <4> QED
          BY <2>1, <4>1
    <3>3. OthersInv(m)'
          BY <1>a, <2>1
    <3>4. SavesInv(m)'
      <4>1. overlap[m] = "saves" => new \in DocumentsOf(m)'
            BY <1>a, <2>1
      <4> QED
          BY <1>a, <2>1, <4>1
    <3> QED
        BY <3>2, <3>3, <3>4
  <2> QED
      BY <1>0, <2>2, <2>3 DEF ModelInv
<1>6. ASSUME NEW w \in Savers, Interrupt(w) PROVE ModelInv'
  <2>1. /\ w \in Underway /\ saving'[w] = Resting /\ saving[w].of \in Models
        /\ overlap'[saving[w].of] = "more"
        /\ \A n \in Models \ {saving[w].of} : overlap'[n] = overlap[n]
        /\ Underway' = Underway \ {w} /\ \A v \in Savers \ {w} : saving'[v] = saving[v]
        /\ UNCHANGED <<stored, documents>>
    <3>1. /\ w \in Underway /\ saving[w].of \in Models
          /\ saving' = [saving EXCEPT ![w] = Resting]
          /\ overlap' = [overlap EXCEPT ![saving[w].of] = "more"]
          /\ UNCHANGED <<stored, documents>>
          BY <1>0, <1>6 DEF Interrupt
    <3>2. saving'[w] = Resting /\ \A v \in Savers \ {w} : saving'[v] = saving[v]
          BY <1>0, <3>1
    <3>3. /\ overlap'[saving[w].of] = "more"
          /\ \A n \in Models \ {saving[w].of} : overlap'[n] = overlap[n]
          BY <1>0, <3>1
    <3>4. Underway' = Underway \ {w}
          BY <3>2 DEF Resting
    <3> QED
        BY <3>1, <3>2, <3>3, <3>4
  <2> QED
      BY <1>0, <1>a, <2>1 DEF ModelInv, Resting
<1>7. CASE UNCHANGED documentVars
      BY <1>0, <1>a, <1>7 DEF documentVars, ModelInv
<1> QED
    BY <1>1, <1>2, <1>3, <1>4, <1>5, <1>6, <1>7 DEF ModelNext

\* A saved instance is found, and by what it says, whatever overlapped before the
\* last call for it that was alone; calls for other models' instances can take it
\* from the results but never add it (model_document.py:175-220).
THEOREM SearchFinds == ModelSpec => []SearchFindsStored
<1>1. ModelInit => ModelInv
      BY DEF ModelInit, ModelInv, ModelTypeOK, LoneCallInv, OthersInv, SavesInv, StepsInv, Resting
<1>2. ModelInv => SearchFindsStored
  <2> SUFFICES ASSUME ModelInv, Underway = {}, NEW m \in Models
               PROVE  /\ overlap[m] = "no" =>
                           \A content \in Contents : stored[m] = content => Search(m, content)
                      /\ overlap[m] \in {"no", "others"} =>
                           /\ \A content \in Contents : Search(m, content) => stored[m] = content
                           /\ stored[m] = Nothing => DocumentsOf(m) = {}
                      /\ overlap[m] = "saves" /\ stored[m] # Nothing => DocumentsOf(m) # {}
      BY DEF ModelInv, SearchFindsStored
  <2>1. CASE overlap[m] = "no" /\ stored[m] # Nothing
    <3>1. PICK n \in 1..MaxCalls : DocumentsOf(m) = {[id |-> n, of |-> m, content |-> stored[m]]}
          BY <2>1 DEF ModelInv, LoneCallInv
    <3>2. [id |-> n, of |-> m, content |-> stored[m]] \in DocumentsOf(m)
          BY <3>1
    <3>3. \A doc \in DocumentsOf(m) : doc.content = stored[m]
          BY <3>1
    <3> QED
        BY <2>1, <3>2, <3>3 DEF Search
  <2>2. CASE overlap[m] = "no" /\ stored[m] = Nothing
        BY <2>2 DEF ModelInv, LoneCallInv, Search
  <2>3. CASE overlap[m] = "others"
    <3>1. \A doc \in DocumentsOf(m) : doc.content = stored[m] /\ doc.content \in Contents
          BY <2>3 DEF ModelInv, OthersInv, ModelTypeOK
    <3> QED
        BY <2>3, <3>1 DEF Search
  <2>4. CASE overlap[m] \notin {"no", "others"}
        BY <2>4 DEF ModelInv, SavesInv
  <2> QED
      BY <2>1, <2>2, <2>3, <2>4
<1> QED
    BY <1>1, <1>2, NextModelInv, PTL DEF ModelSpec
=============================================================================
