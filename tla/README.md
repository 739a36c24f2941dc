# Dynamic annotation controller: TLA+ models, checks and proofs

The program is a Kubernetes operator. Users write `AnnotationScheduleRule`
objects: a schedule (a datetime window or a cron expression), a label selector,
resource types and annotations. At the scheduled times the operator applies the
annotations to the matching workloads or removes them.

## 1. Inventory

| Component | State it keeps | Operations | Interacts with |
|---|---|---|---|
| Schedule parser, `internal/scheduler/parser.go` | none | validation, `CalculateNextExecution`, `GetExecutionAction`, `GetSchedulePhase` | called by the time scheduler |
| Time scheduler, `internal/scheduler/scheduler.go` | task map under `s.mu`, channel `taskQueue` (1000), semaphore, `started`, `stopCh`, `doneCh` | `ScheduleRule`, `UnscheduleRule`, `Start`, `Stop`, loop goroutine (30 s ticker), worker goroutines | called by the reconciler, calls the task executor |
| Reconciler, `internal/controller/..._controller.go` 626-1439 | none of its own; the rule object, its finalizer and its status in the API server | `Reconcile`: fetch, finalizer, validation, scheduling, status, deletion with cleanup | informer, API server, scheduler, resource manager |
| Task executor, same file 150-623 | none; the rule's status | `ExecuteTask`: apply or remove with retries, then the status update | called by scheduler workers; resource manager, API server |
| Resource manager, `internal/resource/manager.go` | annotations and tracking annotations on the workloads | `GetMatchingResources`, `ApplyAnnotations`, `RemoveAnnotations`; the same for annotation groups | called by executor and reconciler at the same time; cache, rate limiter, API server |
| Resource cache, `internal/resource/cache.go` | query results with a TTL | get, store, invalidate, expire, evict | resource manager |
| Error handler, `internal/errors/handler.go` | retry configuration | categories, delays, `RetryWithBackoff` | reconciler, executor |
| State recovery, `internal/errors/recovery.go` | none | after start: list rules, validate, mark conditions | API server |
| Orphan cleanup, `internal/resource/cleanup.go` | a ticker and, within a pass, the list of rules and of workloads | a pass: list rules, list workloads by type, delete the tracking annotations of rules that are not on the list | API server; runs beside the manager's calls |
| Rate limiter, `internal/resource/ratelimiter.go` | a global token bucket, a map of limiters by namespace with `lastUsed` | wait, look up, create, clean up unused ones | callers of the resource manager |
| Template engine, security validator, audit logger, configuration, `cmd/main.go` | configuration | string substitution, key/value checks, log lines, flags | reconciler, executor |

What is hard in this code: the loop, the workers and the reconciler share the
task map and work on copies of tasks; the reconciler and the workers read rules
through an informer that lags and write whole objects back; several goroutines
and other clients write annotations to the same workload; a cache in front of
the informer adds a second kind of staleness; any API request may conflict or
fail; the process may restart and loses every task; the times a rule compares
are start, end, last execution and a one-minute tolerance.

What makes each component right:

- parser: next execution, action and phase fit together at every time and for
  every last execution;
- scheduler: nothing early, nothing due forgotten (also at a full queue), no
  worker stuck, a shutdown that comes to its end;
- resource manager: concurrent writes are not lost, a rule removes only what it
  applied, success is reported only for what has landed, every call returns;
- annotation groups: what a group sets can be removed again, a strategy that
  keeps existing values keeps them, an atomic group stops, and a success is one
  on every object;
- orphan cleanup: only the tracking of rules that are gone goes, all of it goes
  at last, and nothing else on the object changes;
- rate limiter: a namespace stays within its rate although goroutines race to
  create its limiters and the cleanup deletes them; no request waits for ever;
- reconciler and executor: a task belongs to a living rule, no rule is
  forgotten, no status or deletion is overwritten, deletion completes.

`PROJECT.json` lists the hazards line by line with the properties aimed at them.

## 2. Modules

```
ScheduleParser <- TimeScheduler <- RuleController                    (EXTENDS)
ResourceStore  <- ResourceManager <- AnnotationGroups
                                  <- OrphanCleanup
RateLimiter
AnnotationStore          abstract; instantiated in ResourceManager as Promise
TaskAgenda               abstract; instantiated in TimeScheduler as Agenda
RuleLifecycle            abstract; instantiated in RuleController as Lifecycle

MCTimeScheduler, MCResourceManager, MCAnnotationGroups, MCMaintenance
(OrphanCleanup and RateLimiter), MCRuleController

TimeSchedulerProofs      <- RuleControllerProofs
ResourceManagerProofs    <- ResourceManagerRefinement <- AnnotationGroupsProofs
                                                      <- OrphanCleanupProofs
RateLimiterProofs
```

**ScheduleParser** — the parser's functions as operators. A time is a natural
number of clock ticks, `NoTime` is nil. A cron expression is abstracted to its
period: it fires at the multiples. `CronNext` stands for robfig/cron.
`Tolerance` is the minute of `checkAndQueueTasks`. The module has no state of
its own: what its operators promise each other is stated and checked where they
are used, in `TimeScheduler`, for every rule that may be passed to it and at
every reading of the clock. `ValidateScheduleForCreation` is called by its test
only and left out.

**TimeScheduler** — one variable per field of `timeScheduler` (`tasks`,
`taskQueue`, `started`, `stopCh`, `sem`), a program counter for the loop and one
per worker. A critical section that does not block inside is one action. `Stop`
is two: it keeps `s.mu` while it waits for `doneCh`, and `mu = "Stop"` in
between. `checkAndQueueTasks` is `CheckTasks` (under the read lock) and one
`QueueTask` per task (outside it). `executeTaskWithSemaphore` is
`AcquireSemaphore` or `AbandonTask`, `ExecuteReturn`, `DeleteTask`. A select
with several ready cases is nondeterministic, as in Go. Everything a task copies
from its rule besides the schedule is one value of `Contents`.

**TaskAgenda** — what the scheduler promises its callers, without loop, queue,
channels, mutex and semaphore: an agenda with at most one task per rule; tasks
handed out no earlier than they are due less the tolerance, and none after the
scheduler is closed; executions that end by taking their rule off the agenda.
`TimeScheduler` implements it under this mapping: `agenda` is `tasks`, `given`
the tasks in the loop's batch, in the queue or with a worker that waits for its
token (`Waiting`), `running` the task a worker executes or is about to delete,
`closed` is `stopCh /\ ~started`. `RestartSpec` adds the step that
starts over with an empty agenda; `RuleController` implements that one.

**ResourceStore** — the workloads in the API server with resource versions, the
informer's copies, and the entry of the `ResourceCache` for the query. The API
server and the informer are external: an update is accepted only with the
current version, and one that changes nothing keeps the version. A tracking
annotation is the set of keys it lists: keys cannot contain blanks or brackets,
so the printed list and its parsing keep exactly that set. That the API server
accepts the tracking key itself is taken as given, as the code takes it.

**ResourceManager** — `ApplyAnnotations` and `RemoveAnnotations` of the plain
annotations path, run by any number of goroutines. Each API request and each
cache access is an action; what happens between them works on local copies. A
query that the cache does not answer lists one resource type after the other,
and other processes run between two lists; a type that cannot be listed is left
out. (`TypeOf` assigns each workload its type.)
`applied`, `removable` and `removed` are the changes to one object. An update
that is not accepted ends in `RetryConflict` (refetch and reapply, bounded) or
`UpdateFails`; the latter also stands for every other error. An update may also
be accepted and its answer lost.

**AnnotationStore** — what those calls promise, without informer, cache,
versions, copies or retries: a call finds its targets, and on each of them its
operation happens at one instant, on the object as it is at that instant, or
does not happen; a call that has not failed has dealt with every target. A
change whose answer is lost counts as a failure (`PerformUnseen`).
`ResourceManager` implements it under this mapping: `content` is the
annotations in `store`, `active` is `pc # "idle"`, `targets` is the domain of
the snapshot once the call is in its loop; the rest keeps its name.

**AnnotationGroups** — `ApplyAnnotationGroups` and `RemoveAnnotationGroups`
beside the plain calls, on the same store and cache. Each goroutine is one
record `work[p]` with its locals. A call goes through its groups, for each
through the resources of its one query, for each through the operations by
falling priority (`sort.Slice` is not stable, so equal ones come in any order),
and ends in `updateResourceWithRetry`: `GroupUpdate`, `GroupRefetch`,
`GroupUpdateFails`. `GroupRefetch` is faithful to a peculiarity: the refetched
object replaces the changed copy, and the next attempt writes it unchanged. Any
operation may be refused (`OperationFails`): its key, its template or its value.
The strategies `priority` and `timestamp` both override, so that two remain.

**OrphanCleanup** — the goroutine of `StartCleanupRoutine`: the list of rules,
the list of workloads of each type, one update per workload from the listed
copy. A rule ID is the sequence of its parts between hyphens, since that is what
the cleanup splits a tracking key at; `recoveredRuleID` is what it gets back.
Its lists are read one after the other while users create and delete rules and
the manager writes; a stale list of an informer is a list read earlier.

**RateLimiter** — `getOrCreateNamespaceLimiters` step by step (lookup under the
read lock, the mark of the last use, the second check and the creation under the
write lock), `waitGlobal` and `waitNamespace`, the background cleanup.
`rate.Limiter` is external: a bucket of tokens. `used` records what a namespace
has drawn from limiters that were not deleted. Time passes in two actions:
`Refill`, one token's worth, and `MaxAgePasses`, the hour after which a limiter
counts as unused.

**RuleController** — reconciler and executor around `TimeScheduler`, whose
actions it conjoins with its own. Versions of a rule are abstracted to one bit
per copy ("this is the current version"), cleared by every write. Each path of
`Reconcile` is a sequence of actions that is broken wherever another process can
run: after the fetch, after the call into the scheduler, after the cleanup,
before each update. `safeReconcile` and the panic it recovers from are part of
it. The executor's status update is `statusGet` and then `statusUpdate`. An
attempt can fail at either request: `statusUpdateRetry` is any error that
`RetryWithBackoff` retries (a conflict, a timeout, a network error, a rate
limit), `statusUpdateFails` one that it does not or the last attempt. In
`statusUpdateUnanswered` the server stores the status and the answer is lost:
the retry reads the rule again and counts the execution once more. A lost answer
that is not retried ends like `statusUpdate`. The reconciler's updates can lose
their answers too: `ensureFinalizer` and `updateRuleStatus` end in a requeue
either way, and `removeFinalizer` may leave a request behind. What an execution
does to workloads is abstracted to "the rule's content is on some workload"
(`annotated`): the detail is `ResourceManager`'s. Conditions and messages are
left out; the writes that only touch them are `TouchRule`. `Restart` loses
memory and lists the rules again. `Injected` distinguishes the two ways the
scheduler is wired: the controller builds and starts its own, or `cmd/main.go`
hands one in.

**RuleLifecycle** — what the controller promises the users of rules, without
work queue, informer, copies and versions: a rule is absent, new, held by the
finalizer or ending; it can be deleted at once only while new, goes at last only
without a task, and gets a task only while held or ending; an execution is for a
name and there are `MaxTries` tries to record it, each of which counts it at
most once, on the rule that has the name by then; a restart forgets tasks and
executions. `RuleController` implements it: `tries` is `MaxRetries + 1` less the
attempts made, `life` is `lifeOf` of the object in the API server, `spec` and
`count` are its spec and `status.executions`, `scheduled` the rules with a task
in the map, `executing` the rule of a worker's task until its status update is
over.

The definitions named `X_something` next to an `X` are variants of `X` with a
plausible programming error; they are used to make sure that the properties
notice such errors, and appear in no specification.

## 3. Runs

| Run | Question and answer |
|---|---|
| `scheduler` | Loop, two workers, two rules, callers, Stop and cancellation in every order over a queue of one place: `TypeOK`, `NotEarly`, `SemaphoreNeverBlocks`, `TasksNotLost` hold, `DueTaskRuns`: what is due is executed although sends are dropped, `ShutdownCompletes`: after Stop or a cancellation loop and workers end and Stop returns, unless Stop has met the deadlock described below, and `KeepsAgenda`: every behaviour is one of `TaskAgenda`. Of the parser, for every rule that callers may pass and at every time: `ActionDefined` (a next execution comes with an action), `PhaseAgrees` (phase and next execution agree). |
| `manager_safety` | Two goroutines, two rules sharing a key, a foreign writer, a lagging informer, lost answers: `CopyIsCurrent`, `NoLostUpdate`, `RemovesOnlyOwn`, `ApplyLands` hold, and `KeepsPromise`: every behaviour is one of `AnnotationStore`. |
| `manager_calls` | A goroutine with plain calls and one with calls for groups, two resources, partial lists, conflicts, errors, lost answers. Groups: `GroupPreserves` (a group touches its keys and its rule's tracking only), `SkipKeepsValues`, `GroupTracksAll` (what was set stays tracked), `AtomicStops`, `GroupSuccessMeansAll`, `FirstAttemptLands` (an object counted without a conflict shows every operation that has its key for itself), `GroupCallsReturn` hold. Plain calls: `SuccessMeansAll`, `CallsReturn` hold. Both: `CallsWindDown` (each step of a call leaves it less to do). |
| `maintenance` | The orphan cleanup beside the manager's calls: `CleanupPreserves` (it deletes tracking annotations as a whole and nothing else) and `OrphansGo` hold. Two goroutines at the limiter, with its cleanup: `RateBounded` and `WaitReturns` hold. |
| `controller_safety` | Users create, edit, delete and create again valid, invalid and refused rules, with a foreign write, retries and lost answers of the status update: `ScheduledHasFinalizer`, `RuleNotForgotten`, `NoLostWrite` hold, and `KeepsLifecycle`: every behaviour is one of `RuleLifecycle`. |
| `controller_liveness` | Conflicts, API errors, failed cleanups, a restart: `CronKeepsGoing` and `DeletionCompletes` hold, and `AgendaAcrossRestarts`: with reconciler and executor as its callers the scheduler keeps `TaskAgenda` through restarts. |
| `manager_stale_cache` | *Violated*: a list taken before an apply's update is stored after its `InvalidateCache`; a remove that is called after the apply has returned is served from it and succeeds without removing (`RemoveEffective`, which speaks of removes that overlap no apply). |
| `group_priority` | *Violated*: of two operations of a group on one key the one of higher priority is applied first, so that the lower one has the last word (`HigherWins`). |
| `group_conflict` | *Violated*: after a conflict a group's update writes the refetched object back as it is and counts it as affected (`GroupLands`). |
| `orphan_cleanup` | *Violated*: the prefix of a tracking key takes up one of the two parts that the parser skips, so the recovered ID has lost its first part, and the tracking of rules that exist is deleted (`OnlyOrphansGo`). |
| `controller_cleanup_race` | *Violated*: a task already queued or running when its rule is deleted applies its annotations after the cleanup (`CleanedUp`). |
| `controller_finish` | *Violated*: the end of a window is scheduled only if the recorded execution equals the start time; otherwise the annotations stay (`FinishTimeRemoves`). |

The violated properties each state a sentence of the requirements or of a
comment, quoted at the definition and in the findings of `PROJECT.json`.

Further disagreements met while modelling. They show in the models or follow
from reading a single path, and have no run of their own.

Scheduler and parser:

- `Stop` holds the mutex while it waits for `doneCh` (`scheduler.go:225`); if
  the loop is about to take the read lock it never closes the channel, and both
  wait for ever. The model has this state, and `ShutdownCompletes` names it
  (`mu = "Stop"` with `loop = "check"`) as the one way a shutdown may not
  complete.
- An execution begins up to a minute early; for a cron rule the next firing
  after that moment is the same one, which is executed again (`parser.go:186`).
  No property forbids it.
- A start time that has passed without an execution, over a restart for
  instance, is not made up for.
- A tick queues a task again while it is queued or executed: it may be executed
  twice, also by two workers at once, and the later write of `LastExecutionTime`
  may carry the earlier time. `NotEarly` and `DueTaskRuns` hold in spite of
  this; no property forbids it.
- A worker deletes by rule ID and may hit a task scheduled in the meantime.
  `TasksNotLost` and `TaskAgenda` permit that; the next reconcile schedules the
  task again, which is what `CronKeepsGoing` shows.
- `cmd/main.go:350` hands a scheduler to the reconciler, which only starts one
  it has built itself (`annotationschedulerule_controller.go:1406`): with
  `Injected = TRUE` no task is ever executed.

Resource manager:

- The second group of a call works on the copies of the query, which the first
  group's own updates have made old: it always conflicts on the objects the
  first group changed, and after the conflict writes them back unchanged.
- A group that fails on one object leaves those before it changed, although the
  API says the operations of an atomic group succeed or fail together
  (`annotationschedulerule_types.go:89`; the comment at `manager.go:753`
  says that a rollback could be added).
- Calls for groups never invalidate the cache after their updates.
- A plain apply replaces the tracking annotation; keys dropped from the rule in
  the meantime stay on the workload and are no longer tracked
  (`manager.go:525`). The abstract `Applied` says it too: the rule owns just
  what the last call said.
- The errors of the plain calls are counted, not wrapped (`manager.go:488`): the
  executor's retry does not recognise a conflict or a timeout in them and gives
  up at once, where the requirements ask for a retry with backoff.
- A resource type that cannot be listed is logged and left out, and the
  shortened list is cached (`manager.go:135`).

Reconciler, recovery, limiter:

- The API says of `ExecutionCount` that it "tracks the total number of
  executions" (`annotationschedulerule_types.go:154`). A status update that is
  stored and whose answer is lost is retried from a new `Get` and counts its
  execution again (`statusUpdateUnanswered`), up to `MaxRetries + 1` times. What
  holds is the bound, in `KeepsLifecycle`.
- `fetchRule` returns a nil rule without an error for a deleted rule, and
  `doReconcile` dereferences it; the recovered panic requeues the request for
  ever (`fetchRuleNotFound`, `safeReconcile`).
- The phase `completed` is never written: the scheduler has no task for a rule
  without a next execution, and `GetNextExecutionTime` reports that as an error
  before the branch is reached (`processNextExecutionTimeError`).
- A rule that once failed validation keeps the phase `failed` after it has been
  corrected, since only an empty or pending phase becomes active.
- If the status update of an invalid rule fails, nothing retries it
  (`validationStatusError`).
- The cleanup of a deleted rule looks at `spec.annotations` only; annotations of
  groups stay (`cleanedUp`).
- State recovery rejects a rule that has groups and no plain annotations
  (`recovery.go:198`).
- The jitter of the retry delay is always minus a tenth: `2*t%2 - 1` is -1 for
  every `t` (`handler.go:219`).
- A goroutine that has looked a limiter up may go on using it after the cleanup
  has deleted it, beside those that use its successor: for that moment a
  namespace has up to twice its burst. `RateBounded` counts the limiters in the
  map and says so.

### Bounds

- Queue capacity 1 and two rules: the queue is full whenever one task waits.
- Two workers, two goroutines: enough for every race between a pair; the
  properties relate pairs. The proofs do not depend on it.
- `MaxTime` 1 to 3 with schedules whose times lie inside: before, at and after
  every boundary. `Tolerance` is 1 or 2 ticks; 2 lets an execution be early. In
  the scheduler's run the window is 1 to 3 and the period 2, so that both occur
  before, between and at their boundaries.
- `MaxCalls` bounds the calls of the interface: 2 of them compete for the queue
  or for an object. `MaxUser` bounds the writes of all other clients to rules; 3
  are needed to create a rule, delete it and create it again.
- `MaxVersion` bounds other clients' writes to a workload, `MaxTouches` those
  writes to a rule, of `MaxUser`, that touch none of its modelled fields; one is
  enough to make any copy stale at any point. `MaxRestarts` 1.
- `MaxRetries` of the manager is the code's 3. Of the status update it is 1
  instead of 5 in `controller_safety`, where a retry, a lost answer and the
  exhaustion all occur, and 0 in `controller_liveness`, where a status update
  that fails is enough: its retries only delay what the run asks for.
- `manager_calls`: two resources, so that one of them can fail alone; two groups
  in a call, so that the second meets the first's writes; no foreign writer and
  no lag, since the plain goroutine makes every copy stale. `Lag` is on in
  `manager_safety`.
- `maintenance`: one workload, the rules `a/web` and `team-a/web`, of which the
  second's recovered ID is the first's, so that both errors of the recovery
  occur; three edits let a rule be created, deleted and the other be created.
  Two callers, one namespace, bursts 2 and 1: the callers compete for the
  global bucket and for the namespace's last token; two limiters are created.
  Cleanup and limiter share no state and a behaviour is of one of them (`part`):
  their product would show nothing more.
- `MaxRuns` bounds the executions; the clock, the loop and the reconciler go on.

`CHECK_DEADLOCK FALSE` is set where the system may come to rest: the manager and
the maintenance when no calls are left, the scheduler after Stop. The
controller's runs check for deadlock.

### Fairness

- Scheduler: weak fairness of the loop, of each worker and of the return of
  `Stop`: the Go scheduler runs what can run, the ticker keeps firing, and
  `ExecuteTask`, with its bounded retries, returns. Strong fairness of the
  loop's exit: the closed channel stays ready while the ticker is ready at
  times, and a select chooses among its ready cases at random. No fairness on
  callers.
- Manager, plain and groups: weak fairness of each goroutine inside a call: API
  requests return, with whatever answer.
- Orphan cleanup: weak fairness of the routine (its ticker fires, requests
  return); strong fairness of the successful list of each type and of the
  accepted update of each workload: neither fails for ever at every pass. No
  fairness on users.
- Rate limiter: weak fairness of `Refill` and of the goroutines; strong fairness
  of `waitGlobal` and `waitNamespace`, since `rate.Limiter` hands out
  reservations in the order of arrival and starves no waiter.
- Controller: weak fairness of the reconciler, the scheduler's goroutines, the
  informer and the clock. Strong fairness of serving each queued request
  (controller-runtime's queue starves none) and of the successful outcome of
  the finalizer updates and the cleanup: the API server and the workloads do
  not refuse the same request for ever, and requeues come back at intervals. No
  fairness on users, foreign writers and restarts. In `MCFairSpec` the fairness
  of the workers is within the bound `MaxRuns`.

## 4. Proofs

Checked by TLAPS for every value of the constants that satisfies the named
assumptions, so for any number of rules, workers, resources, goroutines, groups
and namespaces, any queue capacity and any times. The assumptions
(`TimeAssumption`, `SchedulerAssumption`, `NoTaskAssumption`, `StoreAssumption`,
`ManagerAssumption`, `GroupAssumption`, `CleanupAssumption`,
`LimiterAssumption`, `ControllerAssumption`) say what the constants are: bounds
are numbers, capacities are positive, the values that stand for "none" are not
among the others.

`TimeSchedulerProofs`: `TypeCorrect`, `SemaphoreCorrect`, `NotEarlyCorrect`,
`TasksNotLostCorrect`, `ActionDefinedCorrect`, `PhaseAgreesCorrect`, `AgendaKept`.
The inductive invariant of the first two is `TypeOK` with two facts: no worker runs before `Start`, which positions all of them, and the
tokens taken are exactly the workers between acquire and release
(`SemaphoreBalanced`), without which `sem` could become negative. A
worker about to acquire is then not counted, so `sem` is below the number of
workers. `NotEarly` follows a task along the pipeline: whatever is in the batch,
the queue or a worker is in the set of ripe tasks, and that set only grows with
the clock. The two theorems on the parser follow from the types of what callers
pass (`RuleInputType`) and a lemma on its operators each (`NextHasAction`,
`PhaseAndNext`), for every schedule, last execution and time.

`AgendaKept` is the refinement of `TaskAgenda`. Its invariant `AgendaInv` joins
the types, `LoopEnded` (nothing is handed out once closed) and `HandInv`:
only the sending loop has a batch, and a worker past the receive has a task.
Every step of a caller, the loop or a worker is one abstract step or a stutter;
a task moves from the batch through the queue to a worker within `given`, and a
dropped send is the abstract `Drop`.

`ResourceManagerProofs`: `TypeCorrect`, `CopyCorrect`, `NoLostUpdateCorrect`,
`RemovesOnlyOwnCorrect`, `RemoveTakesBack`, `DisjointCallsCommute`. The
inductive invariant is

    Inv == TypeOK /\ LoopInv /\ VersionsCoherent /\ CopyIsCurrent

`LoopInv` ties program counter, call and lists together; `VersionsCoherent` says
that every copy held by the informer, the cache or a goroutine is older than the
object or equal to it. From it follows that a copy the API server accepts is the
operation applied to the object as it is now (`CopyIsCurrent`), although it was
computed from a copy read earlier. The two action properties are then statements
about `applied` and `removed` alone. The last two theorems are about them too: a
remove takes back an apply of the same rule and keys, and the updates of calls
for different rules with different keys give the same object in either order.

`ResourceManagerRefinement`: `PromiseKept`, `SuccessMeansAllCorrect`,
`ApplyLandsCorrect`. The initial state maps to the abstract one; every step maps
to one abstract action or to a stutter. `CopyIsCurrent` is what makes an accepted
update the abstract `Perform`: the abstract effect is computed from the object
at that instant, the code's from a copy. A second invariant, that a call without
a failure has counted what it visited, makes its return the abstract `Return`.

`AnnotationGroupsProofs`: `GroupTypeCorrect`, `GroupPreservesCorrect`,
`SkipKeepsValuesCorrect`, `GroupTracksAllCorrect`, `AtomicStopsCorrect`,
`GroupSuccessMeansAllCorrect`, `FirstAttemptLandsCorrect`,
`CallsWindDownCorrect`, `PlainCallsBesideGroups`. The manager's `Inv` is carried
along, since both kinds of calls write one store. `Within(a, b, g, c)` says that
`a` is `b` with changes a group `g` of call `c` may make; it is reflexive and
kept by every operation, so that a copy with the object's current version is
within the group's limits of the object, however many operations or refetches it
went through. `Stopped` and `CountedAll` are the loop's invariants.

For `FirstAttemptLands` the invariant `SayInv` follows the operations of one
visit: the copy shows each operation that has been applied and shares its key
with no other (`SaidSoFar`). Until the first conflict nothing but operations
changes the copy, and none undoes what another said on its own key, so that at
the update it shows them all.

`CallsWindDown` is the part of `CallsReturn` and `GroupCallsReturn` that needs
no fairness: after each step of a call fewer groups, or fewer resources of the
same group, or fewer operations or attempts at the same resource are left, which
cannot go on for ever since each of them is finite. It rests on a visited
resource being on the list (`Tally`, `LocalsOK`), so that visiting shortens it,
and on locals being a goroutine's own (`OthersLocals`, `OwnLocals`).

`PlainCallsBesideGroups` says that the plain calls keep `CopyIsCurrent`,
`NoLostUpdate`, `RemovesOnlyOwn`, `ApplyLands` and `SuccessMeansAll` in the
composition. For them a group's step is a step of the environment: it leaves
their locals alone, raises versions, and keeps the manager's invariant
(`StepBesideOthers`).

`OrphanCleanupProofs`: `CleanupTypeCorrect`, `CleanupPreservesCorrect`,
`PlainCallsBesideCleanup`. The
cleaner's listed copies are one more place of `VersionsCoherent`
(`CleanerCoherent`): a copy that still has the object's version is the object,
so that an accepted update is the clean-up of the object as it is. The cleaner's
writes raise versions like any others and leave the manager's invariant intact;
`PlainCallsBesideCleanup` draws the conclusion for the plain calls, as
`PlainCallsBesideGroups` does for groups.

`RateLimiterProofs`: `LimiterTypeCorrect`, `RateBoundedCorrect`. The invariant
says whose limiters a waiting goroutine holds (`HoldersInv`), that namespaces
share none (`OwnersInv`), and that what a namespace has used is missing in its
bucket, while a limiter that counts as unused has used nothing (`BucketsInv`).
The last part is why the cleanup cannot hand out a fresh burst.

`RuleControllerProofs`: `CtlTypeCorrect`, `ScheduledHasFinalizerCorrect`,
`RuleNotForgottenCorrect`, `NoLostWriteCorrect`, `KeepsLifecycleCorrect`,
`AgendaAcrossRestartsCorrect`, from the inductive `CtlInv`.
Between restarts every step is a step of the scheduler or leaves it alone, so
that the invariant of `TimeSchedulerProofs` carries over. Of the new parts,
`CopyInv` says that the reconciler's copy is current or the informer already
knows it is not, because its event is under way or has enqueued the rule again;
with it a reconcile that worked on an old copy leaves a request or an event
behind (`RuleNotForgotten`). `FinalizerInv` says that a cached copy with the
finalizer and no deletion, however old, implies that the object has the
finalizer: removing it takes a current copy that shows the deletion, so the
informer has by then dropped every copy without it. A fresh copy equals the
object, so an accepted write of a whole object undoes nothing (`NoLostWrite`).

`KeepsLifecycleCorrect` is the refinement of `RuleLifecycle`. A write of one
object changes the abstract state of that rule only (`StoredLife`), and one that
keeps life, spec and count is a stutter (`StoredUnseen`): so are the writes of a
phase or a next execution time, whatever copy they came from. A lemma for each
group of actions then names the abstract step: the users' (`ClientLife`), the
reconciler's (`FetchLife`, `SilentLife`, `WriteStatusLife`, `WritingLife`) and
the executor's (`ExecutorLife`). `FinalizerInv` is why a task is entered only
for a rule that is held; a fresh copy is why an attempt of a status update that
is stored counts exactly one execution, whether its answer arrives
(`statusUpdate`) or not (`statusUpdateUnanswered`).
`AgendaAcrossRestartsCorrect` carries `AgendaInv` over to the whole, where a
step is the scheduler's, leaves it alone, or is the restart.

Only model-checked: the liveness properties (`DueTaskRuns`, `ShutdownCompletes`,
`CallsReturn`, `GroupCallsReturn`, `OrphansGo`, `WaitReturns`, `CronKeepsGoing`,
`DeletionCompletes`), as the prover does neither fairness nor `ENABLED`. Every
invariant and every action property of the runs that pass is proved.

## 5. Not modelled

- Template engine, security validator: string matching without state; the
  validator's verdict is the Boolean `valid` of a rule, and the nondeterministic
  `OperationFails` where a key, a template or a value of a group is refused.
- Audit logger, log lines, events, configuration, flags, TLS, health checks:
  output and I/O. Generated deepcopy code.
- Error categories and delays of the error handler: the delay is a duration and
  time between attempts is already arbitrary in the models. What matters, the
  bound on the attempts and that conflicts and passing errors are retried, is in
  the executor.
- Of state recovery, the validation and the conditions it writes; the writes are
  those of `TouchRule`, and recovery schedules nothing.
- Eviction, statistics and key construction of the cache: to a
  caller an evicted entry is like an expired one, and `ExpireCache` may happen at
  any time.
- Manual retry of single API requests in the reconciler: with the same copy a
  conflict stays a conflict, so one attempt stands for all.
- Liveness, recursive definitions and induction over data are out of the
  prover's reach; no module needs a recursive definition.

## 6. Plan

Done: parser, scheduler, resource manager with plain annotations and groups,
orphan cleanup, rate limiter, reconciler and executor; the abstract store and
the refinement; the abstract agenda and life cycle with theirs; proofs of every
safety property that holds.

What is left is small:

1. Error categories, retry decision and delay as operators with the bounds they
   promise (no delay above the maximum, no growth past it).
2. A cache of several queries with its eviction, where the entry evicted is the
   one least recently stored.
3. Workload effects in `RuleController` through `AnnotationStore` in place of
   `annotated`: `CleanedUp` would then be a statement about annotations.
4. Winding down for the reconciler, as `CallsWindDown` has it for calls: what is
   left of a reconcile and of a status update with its retries.
5. A refinement of `AnnotationStore` by the groups up to their first conflict,
   and by the plain calls beside them: today the composition theorems state the
   properties one by one.
