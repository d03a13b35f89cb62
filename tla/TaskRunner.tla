----------------------------- MODULE TaskRunner -----------------------------
(***************************************************************************)
(* process_task_queues of tasks/test.py: a test runs what is queued, in    *)
(* paused queues, until nothing is left.  It works through a list of the   *)
(* queued tasks and lists them again when that is used up.  A task may     *)
(* fail at any run, and a task that runs may queue others.                 *)
(***************************************************************************)
EXTENDS Naturals, Sequences, FiniteSets, SequencesExt

CONSTANTS
  Jobs,          \* tasks
  FirstJobs,     \* those queued at first
  MaxTaskRetries \* max_task_retry_count

VARIABLES
  behaviour,   \* failure_behaviour
  queued,      \* the tasks in the queues
  unqueued,    \* those that have not been queued yet
  tasks,       \* the list
  failures,    \* task_failure_counts
  runner       \* "running", "returned" or "raised"

runnerVars == <<behaviour, queued, unqueued, tasks, failures, runner>>

\* list_tasks of all queues.
Listings(jobs) == SetToSeqs(jobs)

Init ==
  /\ behaviour \in {"DO_NOTHING", "RETRY_TASK", "RAISE_ERROR"}
  /\ queued = FirstJobs /\ unqueued = Jobs \ FirstJobs
  /\ tasks \in Listings(FirstJobs)
  /\ failures = [j \in Jobs |-> 0]
  /\ runner = "running"

Job == Head(tasks)
Running == runner = "running" /\ tasks # <<>>

\* Mutated form of Relisted: the tasks are listed once only.
RelistedNever(rest, jobs) == {rest}
\* The list, when it is used up.
Relisted(rest, jobs) == IF rest = <<>> THEN Listings(jobs) ELSE {rest}

\* run_task() succeeds: the task leaves its queue, having queued others.
RunSucceeds ==
  /\ Running
  /\ \E new \in SUBSET unqueued :
       /\ unqueued' = unqueued \ new
       /\ queued' = (queued \ {Job}) \cup new
  /\ tasks' \in Relisted(Tail(tasks), queued')
  /\ UNCHANGED <<behaviour, failures, runner>>

\* It fails and goes to the end of the list, unless it has failed too often.
RetryTask ==
  /\ Running /\ behaviour = "RETRY_TASK"
  /\ failures' = [failures EXCEPT ![Job] = @ + 1]
  /\ IF failures'[Job] >= MaxTaskRetries
     THEN runner' = "raised" /\ tasks' = Tail(tasks)
     ELSE UNCHANGED runner /\ tasks' = Append(Tail(tasks), Job)
  /\ UNCHANGED <<behaviour, queued, unqueued>>

\* It fails: TaskFailedError.
RaiseError ==
  /\ Running /\ behaviour = "RAISE_ERROR"
  /\ runner' = "raised" /\ tasks' = Tail(tasks)
  /\ UNCHANGED <<behaviour, queued, unqueued, failures>>

\* It fails, and stays queued.
IgnoreFailure ==
  /\ Running /\ behaviour = "DO_NOTHING"
  /\ tasks' \in Relisted(Tail(tasks), queued)
  /\ UNCHANGED <<behaviour, queued, unqueued, failures, runner>>

\* The loop ends.
Return ==
  /\ runner = "running" /\ tasks = <<>>
  /\ runner' = "returned"
  /\ UNCHANGED <<behaviour, queued, unqueued, tasks, failures>>

Loop == RunSucceeds \/ RetryTask \/ RaiseError \/ IgnoreFailure \/ Return
Next == Loop
-----------------------------------------------------------------------------
\* process_task_queues returns only when nothing is queued any more, neither tasks
\* that other tasks have queued nor tasks that have failed, and it does end, by
\* an error if a task keeps failing (test.py:96-140) - unless failures are
\* ignored: then a task that always fails is listed for ever.
RunnerDrains ==
  /\ [](runner = "returned" => queued = {})
  /\ behaviour = "DO_NOTHING" \/ <>(runner # "running")
=============================================================================
