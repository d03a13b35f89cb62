--------------------------- MODULE TaskEnvironment ---------------------------
(***************************************************************************)
(* What a request can know of the task it runs for.  The middleware copies *)
(* App Engine's headers into an object local to the thread                 *)
(* (tasks/middleware.py); decorators decide by it who may enter a view     *)
(* (tasks/decorators.py), and the index of the shard that _process_shard   *)
(* works on is kept the same way (tasks/deferred.py).  Threads serve one   *)
(* request after the other.                                                *)
(***************************************************************************)
CONSTANTS
  Workers,        \* threads
  ShardNumbers,
  NoShard

VARIABLES
  taskEnv,    \* _TASK_ENV of each thread: is there a task name, is it a cron?
  shardIndex, \* _local.shard_index of each thread
  serving     \* the request each thread serves, and where it is with it

taskEnvVars == <<taskEnv, shardIndex, serving>>

Unset == [task |-> FALSE, cron |-> FALSE]
\* by: who sends the request; "instance" is an address 0.1.0.x.  safe: is it of a
\* method that CsrfViewMiddleware does not check, or with a valid token?
Senders == {"task", "cron", "superuser", "user", "instance"}
Views == {"task_only", "task_or_superuser_only", "csrf_exempt_if_task", "internal_only", "shard"}
Free == [at |-> "free", by |-> "user", safe |-> FALSE, view |-> "task_only", shard |-> NoShard]

TaskEnvInit ==
  /\ taskEnv = [w \in Workers |-> Unset]
  /\ shardIndex = [w \in Workers |-> NoShard]
  /\ serving = [w \in Workers |-> Free]

Headers(by) == [task |-> by = "task", cron |-> by = "cron"]
Moves(w, to) == serving' = [serving EXCEPT ![w].at = to]

\* Mutated form of Arrive: the object is shared by all threads.
ArriveShared(w, by, safe, view, shard) ==
  /\ serving[w].at = "free"
  /\ (view = "shard") = (shard # NoShard)
  /\ serving' = [serving EXCEPT ![w] =
                   [at |-> "entered", by |-> by, safe |-> safe, view |-> view, shard |-> shard]]
  /\ taskEnv' = [v \in Workers |-> Headers(by)]
  /\ UNCHANGED shardIndex
\* The middleware, before the view.
Arrive(w, by, safe, view, shard) ==
  /\ serving[w].at = "free"
  /\ (view = "shard") = (shard # NoShard)
  /\ serving' = [serving EXCEPT ![w] =
                   [at |-> "entered", by |-> by, safe |-> safe, view |-> view, shard |-> shard]]
  /\ taskEnv' = [taskEnv EXCEPT ![w] = Headers(by)]
  /\ UNCHANGED shardIndex

\* is_in_task() or is_in_cron().
InTask(w) == taskEnv[w].task \/ taskEnv[w].cron

\* The attribute csrf_exempt: constant on deferred_handler, computed for each
\* request by csrf_exempt_if_task.
CsrfExempt(w) == \/ serving[w].view = "shard"
                 \/ serving[w].view = "csrf_exempt_if_task" /\ InTask(w)
\* CsrfViewMiddleware, before any decorator of the view.
PassesCsrf(w) == serving[w].safe \/ CsrfExempt(w)

\* csrf_exempt_if_task itself turns nobody away.
Admitted(w) ==
  \/ serving[w].view = "csrf_exempt_if_task"
  \/ serving[w].view \in {"task_only", "shard"} /\ InTask(w)
  \/ serving[w].view = "task_or_superuser_only" /\ (serving[w].by = "superuser" \/ InTask(w))
  \/ serving[w].view = "internal_only" /\ serving[w].by = "instance"

\* The view runs, or the request is answered with 403.
Decorated(w) ==
  /\ serving[w].at = "entered"
  /\ Moves(w, IF PassesCsrf(w) /\ Admitted(w) THEN "inside" ELSE "answered")
  /\ UNCHANGED <<taskEnv, shardIndex>>

\* Mutated form of StartShard: an index that is set is kept.
StartShardOnce(w) ==
  /\ serving[w].at = "inside" /\ serving[w].view = "shard"
  /\ shardIndex' = [shardIndex EXCEPT ![w] = IF @ = NoShard THEN serving[w].shard ELSE @]
  /\ \/ Moves(w, "answered") \/ Moves(w, "iterating")
  /\ UNCHANGED taskEnv
\* _process_shard: the index is set; the marker has vanished or is not ready,
\* which leaves it set, or the iteration begins.
StartShard(w) ==
  /\ serving[w].at = "inside" /\ serving[w].view = "shard"
  /\ shardIndex' = [shardIndex EXCEPT ![w] = serving[w].shard]
  /\ \/ Moves(w, "answered") \/ Moves(w, "iterating")
  /\ UNCHANGED taskEnv
\* However the iteration ends, the index is cleared.
EndShard(w) ==
  /\ serving[w].at = "iterating"
  /\ shardIndex' = [shardIndex EXCEPT ![w] = NoShard]
  /\ Moves(w, "answered")
  /\ UNCHANGED taskEnv

\* Any other view returns or raises.
Return(w) ==
  /\ serving[w].at = "inside" /\ serving[w].view # "shard"
  /\ Moves(w, "answered")
  /\ UNCHANGED <<taskEnv, shardIndex>>

\* The middleware, after the view.
Depart(w) ==
  /\ serving[w].at = "answered"
  /\ taskEnv' = [taskEnv EXCEPT ![w] = Unset]
  /\ serving' = [serving EXCEPT ![w] = Free]
  /\ UNCHANGED shardIndex

TaskEnvNext == \E w \in Workers :
  \/ \E by \in Senders, safe \in BOOLEAN, view \in Views, shard \in ShardNumbers \cup {NoShard} :
       Arrive(w, by, safe, view, shard)
  \/ Decorated(w) \/ StartShard(w) \/ EndShard(w) \/ Return(w) \/ Depart(w)

TaskEnvSpec == TaskEnvInit /\ [][TaskEnvNext]_taskEnvVars
-----------------------------------------------------------------------------
Inside(w) == serving[w].at \in {"inside", "iterating"}

\* A view for tasks runs for requests of Cloud Tasks and cron only - one for
\* superusers as well also for theirs -, and so does csrf_exempt_if_task for
\* requests that need the exemption, whatever other threads serve and have served
\* (middleware.py:10-32, decorators.py:9-53).
OnlyTasksEnter ==
  \A w \in Workers :
    LET q == serving[w]
    IN Inside(w) =>
         /\ q.view \in {"task_only", "shard"} => q.by \in {"task", "cron"}
         /\ q.view = "csrf_exempt_if_task" => q.safe \/ q.by \in {"task", "cron"}
         /\ q.view = "task_or_superuser_only" => q.by \in {"task", "cron", "superuser"}

\* A callback reads the index of its own shard, whatever index an earlier task of
\* the same thread has left behind (deferred.py:351-374, 460).
IndexIsOwn ==
  \A w \in Workers : serving[w].at = "iterating" => shardIndex[w] = serving[w].shard
=============================================================================
