# A TLA+ development of djangae

djangae runs Django on Google App Engine: functions deferred to Cloud Tasks,
iterations over a whole Datastore kind, locks, full text search, login by Google
accounts, and some helpers around them. There are no threads of its own in it; its
difficulty lies in *many instances at once* - requests and tasks that run the same few
lines against the same entity or cache entry, are killed between two of them, or are
run again by Cloud Tasks.

Paths below are relative to `src/djangae/` unless they start with `docs/` or `tests/`,
which are under `src/` as well (`tests/` is `src/djangae/tests/`).

* [1. Inventory](#1-inventory)
* [2. Plan](#2-plan)
* [3. Modules and the code they model](#3-modules-and-the-code-they-model)
* [4. Runs](#4-runs)
* [5. Fairness](#5-fairness)
* [6. What is proved](#6-what-is-proved)
* [7. Disagreements between code and documentation](#7-disagreements-between-code-and-documentation)
* [8. Assumptions about code outside the repository](#8-assumptions-about-code-outside-the-repository)
* [9. What is not modelled](#9-what-is-not-modelled)

## 1. Inventory

`PROJECT.json` lists every component with its files, and under "hazards" each line at
which something can go wrong that a test would hardly reach, with the properties that
would show it.

| component | state | operations | who touches the state at once | correct means |
|---|---|---|---|---|
| STRONG lock (`contrib/locking/models.py`, `views.py`) | one `DatastoreLock` entity per identifier, with a timestamp | `acquire(wait, steal_after_ms, max_wait_ms)`, `release()`, the cleanup task | callers on any instance, and the cleanup task between its query and its deletes | one thread inside at a time; a lock is taken over only when old enough; an orphan disappears; a caller with a limit gets an answer |
| decorator / context manager (`contrib/locking/lock.py`) | `self.lock` of a `LocknessMonster` | `__enter__`, `__exit__`, `__call__` | with `@lock(...)`, one object is entered by all threads of the process | who has acquired releases, and releases its own |
| WEAK lock (`contrib/locking/memcache.py`) | one cache entry with the owner's random number | `acquire`, `release`, each of several cache calls | callers on any instance | excludes until somebody steals; leaves no entry behind |
| `defer()` (`tasks/deferred.py` 1-338, `tasks/handlers.py`, `tasks/models.py`) | a `DeferredTask` entity, the task in Cloud Tasks, the hook of the caller's transaction | `defer`, `_schedule_task`, `_run_from_datastore`, `deferred_handler` | the caller and the handler, which may run before the caller has returned | queued only when the transaction has committed; run, if queued; no entity left |
| deferred iteration (`tasks/deferred.py` 341-541, `models.py`) | the `DeferIterationMarker` entity with its two counters and `is_ready`; tasks in the queue, each with the key it resumes from | `_generate_shards`, `make_shard`, `_process_shard`, `mark_shard_complete`, finalize | the generator, one task per shard, repeated deliveries of each | each instance goes through the callback; finalize runs once, last, for certain |
| key ranges (`processing.py`) | none | `datastore_key_ranges`, `sequential_int_key_ranges` | - | disjoint ranges that cover all keys |
| `retry()` and batching (`utils.py`) | attempts, waiting time | `retry`, `retry_on_error`, `do_with_retry`, `get_in_batches`, ... | - | bounded attempts; the last error comes out |
| full text search (`contrib/search/`) | `DocumentRecord` with text and revision, one `TokenFieldIndex` per word, document and revision | `Index.add`, `remove`, `search`, the decorators for models | writers of the same document, deferred deletions of old tokens, queries | a document is found by the words of its text and no others |
| Google authentication (`contrib/googleauth/`) | users, OAuth sessions, the request's session | IAP and OAuth backends, middleware, the two OAuth views | first requests of one person, logins of one session | one account per person; a login ends where it began |
| pagination (`contrib/pagination/`, `core/paginator.py`) | cached page markers | `page()`, marker lookup | pages read while the table changes | no page skips instances the cache knows |
| secrets (`contrib/secrets/`) | the stored secrets | `get`, `create_or_update`, per backend | processes that start together | all see one secret |
| task environment (`tasks/environment.py`, `middleware.py`) | thread-local values of the task's headers | set and cleared per request | threads that are reused | a request sees its own task |
| queue set-up and local runner (`tasks/__init__.py`, `tasks/test.py`) | the queues | create queues; run all tasks in a test | - | the loop ends |
| local sandbox (`sandbox.py`) | emulator processes | start, wait, stop | the emulators | starts or reports |

Interactions. The decorator calls `acquire`/`release` of either lock. Search queues
its deletions with `defer_iteration_with_finalize`; so does the cleanup of locks with
a plain `defer`. The iteration queues each shard by `defer` inside a Datastore
transaction and relies on the hook that `defer` puts on the commit; `retry()` wraps
transaction and hook together. `deferred_handler` turns exceptions into the answers
that make Cloud Tasks deliver again, or not.

The behaviours that are hard: interleaved transactions on one entity (locks, marker,
records), instances killed between two writes, tasks that are delivered again after
they have done their work, an exception that arrives after the effect it seems to deny
(`create_task`), values read before and used after a commit, and objects shared by
threads without locking it (the decorator).

## 2. Plan

Order, and where it stands:

1. `MutexService`, `DatastoreLock`, its proofs - *done*. Abstract service, detailed
   lock, refinement.
2. `LocknessMonster`, `MemcacheLock` - *done*; the first against the same service, the
   second with its proofs.
3. `DeferIteration` - *done*; the largest state machine of djangae, with the answers
   of the handler to a callback that gives up; all its safety properties are proved.
4. `Defer` - *done*, with the handler and its proofs.
5. `SearchIndex` - *done* for `Index`, with its proofs.
6. `GoogleAccounts`, `GoogleLogin` - *done*; the second extends the first. All their
   safety properties are proved.
7. `Pagination` - *done*, with the proofs of its three invariants.
8. `KeyRanges`, `Secrets`, `TaskEnvironment`, `TaskRunner`, `Batches`, `Sandbox` -
   *done*: one small module per component. The safety properties of all but
   `TaskRunner`, which has only a liveness property, are proved, and so is the
   refinement of `LocknessMonster`.
9. `ModelDocument` - *done*: saves and deletes of a searchable instance, over the
   single steps that `SearchIndex` justifies; its property is proved.
10. `IterationService`, an abstract specification (every instance at least once, then
    finalize) that `DeferIteration` implements until the first fault - *left*; its
    content is what `FinalizeComesLast` and `EventuallyFinalized` say now.

Every safety property that a passing run checks is now stated by a theorem; what the
runs alone show is liveness (section 6). Item 10 is the refinement that is left.

## 3. Modules and the code they model

Every module has one action per step of the code that other actors can see: a
Datastore transaction's read, its commit, a single cache call, a call of
`create_task`. What happens between two such steps in one process is one action.
`PROJECT.json` "map" gives the lines of each definition. Operators whose comment
begins "Mutated form of" are not part of any specification; they are plausible errors
in the definition below them, kept to confirm that the properties would notice.

**`MutexService`** - what `lock.py:54` promises: holders (at most one), and whether an
orphaned lock exists. It is the abstract specification of the STRONG lock and of the
decorator.

**`DatastoreLock`** - `models.py:16-86` and `views.py:33-43`. `row` is the entity,
`pc` where a thread is in `acquire()`, `stamp` the timestamp it has put into its
pending or committed write. `StageWrite`/`FindHeld` are the body of `_trans`,
`Commit`/`CommitFails` the end of its transaction, `Retry`/`GiveUp` the loop with its
break, `Release` the delete by key, `CleanupSelect`/`CleanupDelete` the query of the
cleanup task and its delete. `conflicted` stands for the Datastore's conflict
detection. Time: instead of a clock and timestamps the module keeps the differences
the code computes (now - timestamp, now - start_time); `Tick` grows them all; they
saturate at `MaxAge`, above every limit, so there is no bound on how long a behaviour
lasts. `MaxHold` is the user's side: how long a section may take.

**`LocknessMonster`** - `lock.py:53-94`, statement by statement: `self.lock = ...`,
the test, the release and `self.lock = None` are separate actions, since another
thread may enter the same object in between. `InstanceOf` says who shares an object.
Acquire and release of the lock itself are atomic here, which `DatastoreLock`
justifies.

**`MemcacheLock`** - `memcache.py:21-52`, one action per cache call. `disturbed` is an
observer: has somebody stolen from a thread inside, with the place never empty since?

**`DeferIteration`** - `deferred.py:341-541`. `marker` is a function from marker
numbers to entities (a generator that runs twice makes two), `queue` counts the
deliveries Cloud Tasks owes of each task, `work` is the local state of each worker:
task, shard, position, `first_iteration`, failed attempts of the current `retry()`.
The shape of the key ranges is a constant. Callbacks return, raise or time out freely.
Crashes, second deliveries, failures of `create_task` before or after it has queued
the task, failures of marker transactions and callbacks that give up for good
("giveUp": `PermanentTaskFailure`, which the handler answers with 200) are drawn from
`FaultKinds`, at most `MaxFaults` of them. Finalize may raise and is delivered again.
`called` counts each instance's callbacks up to 2, all that the properties
distinguish. `MakeAttempts`, `MarkAttempts` stand for the 5 and 6 of the code, and
`OutOfAttempts` for the end of `retry()` (`utils.py:106-180`), whose waiting is left
out.

**`KeyRanges`** - `processing.py` and the filters of `deferred.py:479-495`. Sequential
ranges are computed from the smallest and the biggest key, which two queries read
(`ReadSmallest`, then the ranges): rows come and go between them. Random ranges are
computed from any sample of the keys. Keys may be 0 or negative, as
`tests/test_processing.py` has them. `ShardsOf` applies the ranges as the shards'
queries do, which leave out a bound of 0. `EveryRowHasItsShard` gives every row a shard;
that it is the only one, which `RangesAssumption` of `DeferIteration` asks for, is true
of random ranges that do not meet at 0 (`CutAtZero`), and of sequential ones if besides
the last two do not overlap.

**`Defer`** - `deferred.py:187-338`, `handlers.py:13-30`, one call of `defer()`. A
call is a record: too large for Cloud Tasks or not, `_small_task`, `_transactional`,
made inside an atomic block or not. `txn`, `entity`, `queued`, `worker` are the
caller's transaction, the `DeferredTask` entity, the task and its handler.

**`SearchIndex`** - `index.py`, the models and the document query. A text is a set of
words; a revision is a number; a document has one record. `Add` is the read of
`update_or_create`, `QueueCleanup` the `defer_iteration_with_finalize` that is not
transactional, `WriteToken` one independent transaction for one word, `CommitAdd` the
end of the transaction. `remove()` has the same `QueueCleanup` and then
`DeleteRecord`. `Clean` is the deferred deletion, token by token. `spoilt` is an
observer that marks documents for which an add has failed or a removal has overlapped
an update.

**`ModelDocument`** - `model_document.py:123-222`, for instances of several models that
have one pk, and several requests. A call of `save()` writes the row, lists the
documents whose data has the pk - of whatever model: the query at 192-194 names neither
model nor index, and `Index.remove` does not ask - removes them one by one and adds
one; `delete()` does all but the last; nothing holds the steps together. Each model is
taken to have an index of its own, as `ModelDocument.index` gives it by default.
`Index.add` and `Index.remove` are single steps: each document has an
id of its own and is never updated, so of the races in `SearchIndex` none is left.
`overlap` is an observer: what has happened since the last call for a model's instance
that began alone.

**`GoogleAccounts`** - `backends/iap.py`, `backends/oauth2.py` and the unique fields
of the user model. A request looks an account up in a transaction (`FindAccount`,
`CreateAccount`, `Reject`) and commits later (`Commit`, `CommitFails`); `conflicted`
is the Datastore's conflict detection, `Repeats` the unique fields. A person's address
may pass on to another (`Move`), which is why the backends look for ids first. A user
name is a local part and a number; the draw of an unused one keeps whatever was drawn,
as the code does (it compares with the method `username.lower`).

**`GoogleLogin`** - `middleware.py`, `decorators.py`, `views.py`, on top of
`GoogleAccounts`. One session, several tabs: each tab is a page being visited, the
login view, Google's consent page or the callback. What the tabs share is in `session`
(user, backend, state, return address, scopes asked for). A request is atomic, since
Django reads the session at its first use and saves it as a whole. `settings` are the
two configurations that change the control flow. Only the session of the OAuth backend
authenticates a request (`RequestUser`): `IAPBackend` has no `get_user` of its own, and
the one it inherits (`backends/base.py:21`) answers None, so a session that IAP has
opened is anonymous at every request and is authenticated again by the headers. If they
name another person by then, `login()` (`LogIn`) flushes the session and with it the
state and the return address of a dance; a request without headers leaves it as it is.
An error in a request leaves the session unsaved (`Unsaved`). The user opens at most
`MaxOpened` pages; expiry of tokens, deleted records, changed IAP headers, logouts and errors of
Google are disturbances, at most `MaxDisturbances`.

**`Pagination`** - `paginator.py`, `decorators.py`. A reader's `page()` is a sequence
of actions, one per cache call or query. An instance's ordering field is computed from
its strings character by character, negated ones mirrored, since the properties are
about that order. `overtaken`, `shared` and `beyond` are observers that name the three
cases of section 7 in which the code's markers or counts are wrong. A row is a state of
an instance: its pk, its fields, and the suffix its computed fields end with, which is
the pk, or random digits if the instance was inserted before it had one. `Save` inserts
an instance or replaces the state it had, and may move it: another ordering field, or
the digits give way to the pk. `Fields` is the computed field of each row under each
paginator. `FieldAssumption` says that it is a string, and different for different
instances, since the pk is its last part, or digits assumed to be nobody else's.
`FieldsKeepOrder` says that fields are ordered as requested. It asks for no more than
`decorators.py:28-33` gives: values are compared as the strings they become, and where
several fields are ordered nothing is asked of a negated value and one that it begins,
whose mirrored strings come in the other order (section 7). Both are assumptions of
the module that TLC evaluates on every row of the instance, among them such a pair.

**`Secrets`** - the three backends' `get()`, between whose reads and writes another
process may run or this one may die. **`TaskEnvironment`** - the middleware, the
decorators and the shard index of threads that serve one request after another.
`csrf_exempt_if_task` refuses nobody: it makes the view exempt from Django's CSRF check
for tasks and cron, and `safe` says of a request that it passes that check by itself
(a GET, or a POST with a valid token).
**`TaskRunner`** - the loop of `process_task_queues`, list by list, with its three
failure behaviours. **`Batches`** - `get_in_batches` and `DatastorePaginator`, which
read by offset while rows come and go. **`Sandbox`** - two programs that choose ports,
launch emulators there and wait for their answers.

`MC*` modules only define constants for TLC, except two. `MCGoogle` begins some
behaviours with an account whose address has passed on. `MCHelpers` puts ten small
components side by side, one chosen at the start of each behaviour; the others stand
still, and its fairness and properties are those of the modules. It extends the
modules (only `TaskRunner` is an INSTANCE), so the properties its run checks are the
very definitions the theorems name; that is why the small components' definitions
carry the component in their names (`MonsterSpec`, `SecretsNext`, `rangesVars`).

`DatastoreLock_proofs`, `DeferIteration_proofs`, `Defer_proofs`, `SearchIndex_proofs`,
`Pagination_proofs`, `GoogleLogin_proofs` (with the theorems about `GoogleAccounts`)
and `Helpers_proofs` (`LocknessMonster`, `MemcacheLock`, `ModelDocument` and the small
components of plan item 8) hold the theorems (section 6). `Ranks` holds the lemmas
about least numbers and ranks in finite orders that two of them share.

## 4. Runs

A bound named in a cfg is a constant of the module. Symmetry is used only in runs
without liveness properties.

| run | instance | shows |
|---|---|---|
| `lock_crash` | three threads, any of them killed anywhere, four kinds of caller, `MaxHold = CleanupAge = steal = 2` | `IInv`: exclusion and the strengthening the proof uses; `ImplementsMutex`: refinement of `MutexService`. Timing is tight: a section may last exactly as long as a thief waits, so an off-by-one in the comparison is found |
| `lock_live` | two threads, kills, one cleanup task, `MaxHold = 3` above every limit | nothing is assumed of the sections' length. `StealsOnlyOldLocks` at each commit; `BoundedWaitersReturn`; `OrphansReaped` |
| `lock_stale_release` | three threads, one may overstay | *violated*: `JoinsOnlyIgnoredHolders` (section 7) |
| `monster_leak` | three threads, one decorator | *violated*: `LockHasHolder` |
| `iteration_faulty` | two shards of two and one instances, two workers, two faults of any kind | while no fault has happened: `FinalizeComesLast`, `NoInstanceTwice`, `CountersExact`, `QuiescentMeansFinalized`; with faults too: `ResumePointSafe`, `KeptOnlyWhileUnfinished` |
| `iteration_live` | a shard of two instances and an empty one, marker kept or deleted | `EventuallyFinalized`, `FinishedForGood` |
| `iteration_crash` | one crash | *violated*: `FinalizeAfterAll` |
| `defer_large` | every kind of call, no fault | *violated*: `LargeTaskDeferred` |
| `search` | two writers, one document, texts over two words, three revisions, one killed writer | `Findable`, `FoundOnlyByItsWords`, `ReplacedVersionsGoAway` |
| `pagination` | a walker and another reader, three orderings with pages of two and three, five rows, one of them with random digits, one change of the table (an insert, a re-save that replaces the digits or an ordering field, or a deletion), one expired marker | `WalkSeesEverything`, `MarkersEndTheirPage`, `CountWithinTable` |
| `google` | accounts: two people, two requests by either backend, an address that passes on. Login: two tabs, two opened pages, two views, one disturbance | `LinksArePermanent`, `OneAccountEach`; `EndsWhereItBegan`, `SessionNamesItsPerson`, `LoneTabArrives` |
| `helpers` | ten components, one per behaviour: one `defer()` call of every kind with two faults; three threads at a WEAK lock with two numbers to draw; two threads through one decorator and two `with` statements; three processes and the secrets; two threads of tasks; three jobs; six rows; two programs with two emulators and two ports; six keys on both sides of 0 and up to four shards; two requests that save and delete the instances of two models with one pk, three calls | `QueuedOnlyAfterCommit`, `NoEntityLeft`, `CommittedCallRuns`; `ExcludesUnlessStolen`, `NothingLeftBehind`, `ThievesGetIn`; `ImplementsMutex` of the decorator; `SecretsAgree`; `OnlyTasksEnter`, `IndexIsOwn`; `RunnerDrains`; `BatchesSeeEverything`; `AnsweredByOwn`, `StartEnds`; `EveryRowHasItsShard`; `SearchFindsStored` |

Why the bounds are enough for the questions asked. Locks: the races are between a
holder, a thief and a third who profits; three threads give each a role, and ages need
to be told apart only up to one beyond the largest limit. Decorator: two threads
share, one does not, one does not wait. Iteration: with two shards one can finish
while the other has not begun; the first has a first and a later instance, which the
code treats differently; two workers execute shard against shard, or shard against
generator; two faults let one undo what the other did, and with two attempts a
`retry()` can succeed at its second and fail for good. Search: two words let an update
keep one and replace one; three revisions let an update race with an update and be
followed by another; a document's tokens have nothing to do with those of others, so
one document is enough. Accounts: a race needs two requests, of one person or of the
old and the new owner of an address; three addresses, two of which share a local part,
make user names collide. Login: the tabs interfere only through the session, so two
tabs are enough to overwrite and to be overwritten. Pagination: five rows make three
pages of two, the last not full, or two of three, so a marker can be found two pages
back and a lookahead can start from a skipped page; one first name is a prefix of
another, two instances differ in the suffix only, and a re-save moves one of them from
a page already shown to a later one, where it is shown again. Key ranges: six
keys on both sides of 0 include dense, sparse, single and empty tables, divided evenly or
not. Secrets:
two creators and one reader. Sandbox: two programs that both find the first port free.

Deadlock is checked in the lock runs, where every thread can always go on. In the
others a finished call, or the end of the revisions, leaves nothing to do and the cfg
says so.

## 5. Fairness

* Locks: weak fairness of each thread's own steps, of `Tick` and of the cleanup task's
  two steps. Threads on App Engine are scheduled or killed (a kill is an action of its
  own and not fair); the cron entry that `docs/locking.md` asks for runs the cleanup
  again and again. A failing commit is an alternative that fairness does not forbid:
  `BoundedWaitersReturn` holds even if every commit fails. `Acquire` is not fair:
  nobody has to call.
* WEAK lock: the same, without cleanup. Thieves get in by weak fairness alone.
* Iteration: each worker's next step is weakly fair. Delivery of a task is strongly
  fair, since the workers that could take it may be busy in between; that is the
  at-least-once delivery of Cloud Tasks. Each callback returns in the end if it is
  tried again and again, which `deferred.py:434` says it relies on ("until the
  developer deploys a fix"). Nothing makes the callback not raise or time out.
* Defer: the caller's steps, delivery and answer are weakly fair, and the function
  succeeds if it is tried for ever.
* Search: a writer that has begun goes on unless it is killed, and each queued
  deletion comes to its end, as `EventuallyFinalized` shows of iterations.
* Finalize: some run of it is strongly fair, that is, it succeeds in the end if it is
  delivered again and again.
* Login: a tab that has been sent somewhere goes there (weak fairness of each tab).
  People, clocks and disturbances are not fair.
* Local runner and sandbox: the loop and each program's start go on, and an emulator
  that has been launched listens or ends. The other small components have safety
  properties only.

## 6. What is proved

In `DatastoreLock_proofs`, for all threads, cleanup tasks, argument records and limits
that satisfy the named assumptions of `DatastoreLock` (limits are natural numbers
below `MaxAge`, a section takes at least one tick):

* `TypeCorrect`: `Spec => []TypeOK`, unconditionally.
* `StealsAreLegal`: `Spec => StealsOnlyOldLocks`, unconditionally.
* `InductiveInvariant`, `Exclusion`: under `Timely` and `NoReapRace`, `[]IInv`, and so
  at most one thread is inside.
* `Implementation`: under the same conditions `Spec => Service!Spec`.

`Timely` says that no section lasts longer than the age at which a thief or the
cleanup task may take its lock: what `lock.py:61-62` asks of the user. `NoReapRace`
says that no instance is killed or that no cleanup runs. It is needed: the cleanup
task may select the lock of a killed thread; that lock is then stolen by a live one,
and the deletion by key removes the thief's. Without `Timely` exclusion fails by
design.

The argument. Exclusion alone is not inductive, since a commit is decided earlier,
when the entity is read. `IInv` adds three parts. `HolderOwnsRow`: a thread inside
owns the entity, with its own timestamp - so the entity is never older than its
section, hence (Timely) too young to be stolen. `PendingWriteLegal`: an open
transaction that has not been touched by another's write is still allowed to make its
write - so a commit finds the entity absent or old, hence nobody inside
(`NoCommitWhileRunning`). `NothingToReap`: without kills there is no lock without a
holder - so the cleanup task finds nothing (`NoReapWhileTimely`). `NextIInv` goes
through the actions; those of threads outside that leave the entity alone share one
step. `PendingWriteLegal` needs neither condition; with the types it is inductive by
itself (`NextPendingWriteLegal`), which is all `StealsAreLegal` needs. `StepIsService`
then maps each action to an action of `MutexService` or to a stutter.

In `Helpers_proofs`, of `MemcacheLock`, for all threads, numbers and options and any `MaxWait`
(`WeakAssumption`: there is a number and an option, and no number is the empty entry):
`WeakExclusion` and `NotLeftBehind`, two conjuncts of the same story. The invariant adds
`EntryIsOwned`: whatever is in the cache is the number of a thread that is inside or
about to compare it - so the last thread inside finds its own number, even when two
have drawn the same.

In `DeferIteration_proofs`, for any number of workers, shards, instances, attempts and
faults of every kind, under `CountsAssumption` and `RangesAssumption`:

* `ResumesBehindProcessed`: `Spec => []ResumePointSafe`. The invariant `ResumeInv`
  says of every task, in the queue or in hand, that the instances of its shard before
  the key it resumes from have been through the callback. Counts of callbacks only
  grow (`ReachedMore`), so it survives whatever another worker does; second deliveries
  are harmless because it is about tasks and not about their number.
* `DeletedWhenFinished`: `Spec => []KeptOnlyWhileUnfinished`. `MarkerInv` has
  `complete < count` for each live ready marker that is to be deleted. Repeated
  increments of `count` (retries after a commit) only widen the gap; increments of
  `complete` are tested in the transaction that makes them, so equality cannot be
  jumped over. No shard is completed before the marker is ready, hence no comparison
  with a `count` that is still growing.
* Until the first fault (`Undisturbed`; callbacks may time out and raise all the same,
  and so may finalize): `FinalizeLast`, `OnceEach`, `RestFinalized`, `CountersTrue`
  and the action property `StaysFinished`. All follow from one invariant, `Faultless`
  (`FaultlessHolds`). `GeneratorInv`: there is one marker, and one task or worker that
  generates. `TasksInv`: each queued task is owed one delivery, and what a worker holds
  is what its task asks for. `ShardsInv`: a shard that has been queued and is not
  complete waits in one place, the queue or a worker's hand, and exactly the instances
  before the key it waits at have been called, once. `CountInv`: the marker's counters
  differ by the number of shards that are busy - so the completion that makes them
  equal is the last one. `FinalizeInv`: finalize is under way only when no shard is
  pending or busy, and then it is. None of the five is inductive without the others.
  Each action is looked at for the one shard it concerns (`MoveStep`); the others stay
  where they are (`ShardKept`). `OnceEach` needs the disjoint ranges of
  `RangesAssumption`: with sequential keys an instance may be in the last two ranges, or
  in two that meet at 0 (`KeyRanges`), and is then called once for each.

In `Defer_proofs`, for all calls and faults: `QueuedAfterCommit` and `EntityDeleted`.
`HookInv` follows the hook of the transaction: a task exists only if the commit has
run it, or the caller asked for it at once. `EntityInv` follows the `DeferredTask`
entity to each way out of `_schedule_task`.

In `SearchIndex_proofs`, for any writers, documents, texts and revisions:
`FoundByItsWords` and `NotFoundOtherwise`. Neither property is inductive, since both
speak of documents at rest. `StillIndexed` says of a document at any time that the
record's version has all its tokens and is not being deleted, or a writer is about to
replace it; `WordsWritten` that what a writer has not still to do it has done;
`TokensAccounted` that each token of an unspoilt document belongs to the record, to a
writer or to a queued deletion; `OldDiscarded` that who replaces a version has queued
its deletion; and `VersionsInv` that revisions are never drawn twice, so that a
deletion queued long ago cannot meet the tokens of a newer text.

In `Helpers_proofs`, of `ModelDocument`, for any models, requests and contents:
`SearchFinds`. The invariant says of each model where a call that is alone has got to
(`LoneCallInv`: what it has listed is all there is, and after the removals nothing is),
that calls for others leave no document but true ones (`OthersInv`), and that
overlapping saves have someone still to add a document, or have one (`SavesInv`).

In `GoogleLogin_proofs`, for any people (for `OneEach`: finitely many), accounts,
addresses, requests, tabs and scopes:

* `LinksPermanent`. A request decides at its lookup what it will write;
  `WritesKeepLinks` says that the write keeps the links the account has *now*, unless
  the account has been written since the lookup - and then the commit fails.
* `OneEach`. The property counts the addresses people have had; `HeldInv` turns that
  into "as long as nobody has had a second one, everybody has the first". `SettledInv`
  then says that an account, and what a request is about to write, has the address of
  the persons it is linked to; the unique fields do the rest.
* `SessionNamesPerson`. A session is bound to a person when the callback or the
  middleware logs in (`LogInNames`, `LoggedInOK`): the account is linked to the person
  the backend has just seen. It stays true because no backend takes a link away
  (`AuthenticatedKeeps`, `StoredKeeps`) and nothing else that the middleware does to a
  session gives it a user (`LoginInv`).
* `ReturnsWhereItBegan`, an action property. `DanceInv` relates the session to the tabs:
  the state in the session is that of the tab that began last, and the return address
  beside it is where that tab wants to go.

In `Pagination_proofs`, for any finite set of instances, any paginators, readahead,
readers, inserts, re-saves, deletions and expiries, under `PageAssumption`,
`FieldAssumption` and (`WalkComplete` only) `FieldsKeepOrder`:

* `MarkersTrue`: `Spec => []MarkersEndTheirPage`, and `CountBounded`:
  `Spec => []CountWithinTable`. `StillInv` speaks of behaviours in which the table has
  not changed: every marker, the marker each request has found, what it has read and
  what it has still to store belong to a place of the sorted table where the page they
  are meant for ends (`Ends`). Skipping pages adds whole pages to such a place
  (`Skip`), a query from a marker reads a tail of the sorted table (`SortedTail`), and
  the lookahead is a page further for each marker (`PagesAhead`). If a lookahead has
  started from a skipped page the places may be too far on, never too near (the
  parameter `o` of `Ends`). That much is needed even then, for the count:
  `CountWithinTable` does not excuse `overtaken`.
* `WalkComplete`: `Spec => []WalkSeesEverything`: the requested order, nothing missed
  that stayed as it was, and an instance shown again only in another place, if it was
  saved or deleted meanwhile. The property
  has two halves. As long as the table has not changed, `StillInv` says that the walker
  has seen the table up to the end of its page. As long as the walker is alone and no
  marker has expired, the table may change: `OwnInv` then says that what it has seen is
  ascending, that the marker of its page is the field of the last instance seen, that
  what it has read since follows it without a gap, that an instance which was there
  throughout has been seen or comes after everything seen, and that of such an instance
  no other state has been seen or read (`OneState`). `FieldsKeepOrder` is used at
  the end only, to get from the order of the fields to the requested one; without it
  the walk is complete and ascending by the field. `WalkerAsks` (the walker asks for
  the page after its last one) and a bound on the pages asked for complete the
  invariant `IInv`.

  Strings are ordered strictly and totally (`LessTransitive`, `LessTotal`). Rows are
  ordered strictly (`AfterOrders`), two states of one instance may have the same field;
  those of a table, which holds one state of each, totally (`TableOrders`). That the
  Datastore's order of a finite table is a list with one place for each instance
  (`SortedLists`) comes from ranks, again without an induction.

In `Helpers_proofs`, of the other small components:

* `DecoratorExcludes`: `MonsterSpec => ImplementsMutex`, for any threads and objects
  they share. `MonsterInv`: at most one thread has an acquired lock, and it exists.
  That `self.lock` is overwritten costs releases, never exclusion.
* `TaskViewsGuarded`, `OwnIndex`: `EnvInv` relates each thread's request to the
  thread's environment, which is the request's own whatever the thread did before.
* `SecretsShared`, under `SecretsAssumption` (creators are processes, and processes are
  not answers). `SecInv` has one part for the Datastore, whose answers agree even if
  calls overlap, and one for calls that do not overlap (`AloneInv`).
* `OwnAnswers`, under `SandboxAssumption` (a non-empty sequence of emulators; port
  numbers). `ApartInv`: as long as no port was chosen beside a rival, one program at a
  time is at work on an emulator, and nobody else's process has or will get its port.
* `BatchesComplete`, for tables and batches of any size, under `BatchAssumption` (rows
  are numbered, and finitely many at first). `SeenInv`: what has been yielded is what
  comes before the offset. The order of a table is given by ranks (`Smaller` counts
  the rows before one), so that reading a batch needs no induction: a row is in the
  batch if its rank is in the interval.
* `RowsHaveShards`, for any keys, numbers of shards and changes of the table, under
  `RangesAssumption` of `KeyRanges` (keys are integers and finitely many, at least one
  shard is asked for: `_shards`, 5 by default; None is no number).
  The invariant adds that no row that stays is below the smallest key that was read.
  Sequential ranges: `SequentialCount` gives their number and size, `SequentialShards`
  finds the ranges a key lies in by division. The shards are those ranges and more only
  if a bound between ranges is 0 (`ContainedIn`). Random ranges: the keys
  taken from the sample ascend (`SplitsSorted`, through the monotony of Python's
  `round`), and ascending bounds send each key to one place (`OnePlace`).

Induction over numbers is replaced by least elements (`LeastNatural`, from the
library's theorem about well-founded orders) and by ranks.

Only model-checked: liveness (fairness and ENABLED are beyond the proof system used),
which is all there is to say of `TaskRunner`; and that the constants of a run satisfy
the assumptions - TLC evaluates them, and that a computed field has the form
`FieldAssumption` names is an induction over the fields of an ordering, so it is
assumed of any instance and computed of the one the run checks.

## 7. Disagreements between code and documentation

Shown by a run whose property is violated:

1. `lock_stale_release` - `release()` (`models.py:86`) deletes by key without looking
   at the timestamp. A holder that has been overtaken deletes its thief's lock, and a
   caller that may not steal enters beside the thief. (`docs/locking.md:49`:
   "required".)
2. `monster_leak` - `self.lock = None # Just for neatness` (`lock.py:91`) wipes the
   lock of the next thread when the object decorates a function; that thread does not
   release and all calls block or are skipped until the cleanup.
3. `iteration_crash` - a `_process_shard` that is delivered again after its completion
   was committed counts itself twice; finalize runs before another shard has been
   processed (`deferred.py:415`, `docs/deferred.md:80`).
4. `defer_large` - the small body goes into `task['body']`, not into
   `task['app_engine_http_request']['body']` (`deferred.py:220`, `242`): large tasks
   raise. `_run_from_datastore` can therefore never be queued.

Present in the models, and excused in the properties by name (`Undisturbed`, `spoilt`,
`disturbed`, `failures = 0`, `overtaken`, `beyond`, `raced`, `rivals`, ...), without a
run of their own:

* `memcache.py:40` compares the caller's own waiting time with `steal_after_ms`, not
  the age of the lock as `docs/locking.md:44` says.
* `deferred.py:430`, `518`: `create_task` raising in the hook, after the commit, makes
  `retry()` repeat the whole transaction; the counter is incremented twice, or the
  deleted marker is not found and finalize is never queued.
* `deferred.py:421`: `marker.delete()` clears the object's key before the commit. If
  the commit fails, the retry finds no marker and gives up silently.
* `deferred.py:235`: an `InvalidArgument` that is not about the size leaves the
  `DeferredTask` entity behind (compare the comment at 246).
* `index.py:34-46`: the deletion of the old tokens is queued before the transaction of
  `add()` commits. If it fails, the current text loses its tokens.
* `model_document.py:203-220`: overlapping saves of an instance may leave two
  documents, or one that says what the older row said; a save that ends halfway leaves
  none. The next call on its own puts it right (`overlap`).
* `model_document.py:192-194`: the documents to remove are selected by `instance_id`
  alone. Saving or deleting an instance removes the documents of other models'
  instances with the same pk (`tests/test_searchable.py` has two models with id 1),
  which are then not found ("others" in `overlap`).
* `model_document.py`: `register()` asks
  `isinstance(default_manager, SearchManagerBase)` of a class, so a model registered
  twice is indexed twice at each save.
* `index.py:49-70`: a removal that overlaps an update of the same document deletes the
  new record but queues the deletion of the old tokens only. The new ones stay for
  ever; a document added again under that id is found by their words
  (`models.py:46-47` says "we clear up in a background task").
* `deferred.py:447`: a callback that raises `PermanentTaskFailure` on its first
  instance ends its shard with an answer of success; finalize never runs.
* `deferred.py:472`: a generator that dies between two shards leaves a marker that
  never becomes ready; the shard tasks already queued defer themselves for ever.
* `deferred.py:359`, `374`: two early returns leave the shard index of the task in the
  thread. No later callback sees it (`IndexIsOwn`), other code might.
* `deferred.py:491-494`: `if start:` and `if end:` take a key 0 for no bound: the shards
  on both sides of a 0 process each other's instances as well.
* `processing.py:32-49`: keys that begin below 0 and end below the number of shards asked
  for give more ranges than asked for; the last two sequential ranges may overlap, and instances in both go through the callback
  twice; with no rows the function raises `TypeError`; rows added meanwhile at the end
  have no shard.
* `paginator.py:193`: the lookahead slices `results[top:]` although `results` begins
  at `bottom`: the markers stored after a skipped page belong to other pages
  (`overtaken`).
* `paginator.py`: a page beyond the end is empty and raises the known count
  (`beyond`), where `docs/pagination.md` expects `EmptyPage`. `_update_known_count`
  reads, compares and writes in three steps. Cache keys leave out `per_page`. The
  result of `object_list.order_by("pk")` (line 115) is discarded.
* `contrib/pagination/decorators.py:86-93`: of a single negated ordering the field has
  the plain ordering's name but mirrored content, if it is the first declared under
  that name; both orders are then reversed. The model is of classes that declare the
  plain one first, as `docs/pagination.md:83-88` and the tests do.
* `contrib/pagination/decorators.py:30-33`: if a mirrored string is a proper prefix of
  another it still comes first, where the negated field wants it last (with one field
  only, whose plain order is read backwards, it does not); numbers are ordered as
  strings.
* `contrib/pagination/decorators.py:36`: an instance inserted with an automatic key has
  no pk yet, and gets random digits that the next save replaces by the pk. That save
  moves it among the instances with equal fields although nothing else changes, so that
  a walk may show it twice or, moved back among pages already shown, not at all;
  `WalkSeesEverything` promises nothing of an instance saved meanwhile but that it is
  not shown again in the same place. The digits could also be another's key: then
  two instances can have one field, and the page boundary between them loses one. The
  model excludes that (`FieldAssumption`).
* `middleware.py:129-131` (a logged-in user whose headers still name him goes on) is
  never reached: `IAPBackend` inherits a `get_user` that answers None
  (`backends/base.py:21-22`), so every request under IAP is authenticated anew, with a
  lookup and a write of the account, and a session whose headers have gone stays but
  authenticates nobody.
* `middleware.py`: `auth_middleware_exempt` is read from `request.resolver_match`,
  which Django sets only after `process_request`. With
  `GOOGLEAUTH_LINK_OAUTH_SESSION_EXPIRY` an expired session redirects the login page
  to itself (`LoneTabArrives` excludes it by `settings`).
* `views.py`: a callback whose state does not match goes to the return address of the
  other tab's login; two tabs can take the state from each other for ever; the scopes
  a late callback stores may be fewer than those stored.
* `oauth2.py:56-66`: an account found by an address that has passed on is linked to
  the new owner of the address; `iap.py:107-115` refuses it.
  `_generate_unused_username` compares with the method `username.lower`, so any draw
  passes.
* `secrets/filesystem.py`: two processes that start together may get different
  secrets, a reader may find the file empty, and a creator that dies leaves it so;
  with `gsm.py` two creators keep their own (`raced`, `died`).
* `tasks/environment.py`: the queue's name is None, not 'default', once a request has
  ended.
* `tasks/test.py`: with DO_NOTHING a task that always fails is listed for ever.
* `sandbox.py:69`: `continue` skips the test of the timeout when the connection is
  refused or answers an error: the wait never ends. A port that is found free may be
  taken by another program before the emulator binds it (`rivals`).

## 8. Assumptions about code outside the repository

* Datastore: a transaction commits only if the entities it has read have not been
  written since, and may fail otherwise; an independent transaction commits by itself.
  A failed commit has no effect.
* `queryset.delete()` of the Datastore backend queries first, then deletes by key.
* Django: `on_commit` hooks run in order after the commit, at once outside an atomic
  block, not at all after a rollback; an exception of a hook reaches the caller of the
  block.
* Cloud Tasks: a task that was accepted is delivered until it is answered with
  success, and now and then once more; `create_task` may raise although the task was
  accepted.
* The cache: `add` is atomic, entries do not expire by themselves within the time
  considered.
* A cache entry may expire where a module says so (`Pagination`), at any moment.
* Google's consent page ends in the callback, with a person or an error, or not at
  all.
* A Google id belongs to one person for ever; an address does not.
* An emulator answers on its port some time after it was launched, or ends.
* The errors of a marker transaction are among those `retry()` catches.
* `uuid4()` does not repeat. (Numbers drawn by the WEAK lock do.)

## 9. What is not modelled

* `_run_from_datastore`: no task that names it can be queued (section 7, 4).
* Pickling, the wiping of related caches, routing and headers of tasks: data.
* Evictions by memcached, and the cache that is local to an instance (the code warns
  of it): with either, a WEAK lock promises nothing.
* Waiting times of `retry()`, `retry_on_error`, `memoized`, `chunks` (`utils.py`): no
  state other actors see.
* `Index.add` of several documents in one transaction; tokenizing, ranking and field
  types of search; the parsing of a query string: data.
* Group and permission fields of the user models, validation of tokens, the encoding
  of the OAuth state: data.
* `ensure_required_queues_exist` (`tasks/__init__.py:49-91`): idempotent calls of a
  client library at start-up.
* Backup, Cloud Storage, Secret Manager's own behaviour: calls of a client library
  without state of djangae.
* `contrib/security`, `contrib/sleuth`, `checks.py`, settings and logging: wrappers,
  configuration and formatting; no state that several steps share.
