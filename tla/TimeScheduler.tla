---------------------------- MODULE TimeScheduler ----------------------------
(***************************************************************************)
(* The in-memory scheduler of internal/scheduler/scheduler.go: the task    *)
(* map guarded by s.mu, the loop that moves due tasks into the bounded     *)
(* channel taskQueue, the worker goroutines that execute them, and the     *)
(* Start and Stop of the whole.                                            *)
(*                                                                         *)
(* A critical section of s.mu that does not block inside is one action,    *)
(* enabled while the mutex is free.  Stop is the exception: it keeps the   *)
(* lock while it waits for doneCh, so it is two actions and `mu` says      *)
(* whether it is between them.  A program counter per goroutine marks the  *)
(* points where another goroutine can run in between.                      *)
(***************************************************************************)
EXTENDS ScheduleParser, Sequences, FiniteSets

CONSTANTS
    Rules,       \* rule IDs ("namespace/name")
    Workers,     \* the goroutines Start launches: one per maxConcurrency
    Schedules,   \* the schedules the callers put in their rules
    Contents,    \* what a task copies from the rule besides the schedule:
                 \* annotations, groups, selector, targets, variables, policy
    QueueCap,    \* capacity of taskQueue (1000 in the code)
    MaxTime,     \* bound on the clock
    NoTask       \* absence of a task

ASSUME SchedulerAssumption ==
    /\ IsFiniteSet(Workers) /\ Workers # {}
    /\ Schedules \subseteq ScheduleConfig
    /\ QueueCap \in Nat \ {0}
    /\ MaxTime \in Nat

\* scheduler.ScheduledTask
ScheduledTask ==
    [ruleID : Rules, action : Actions, executeAt : Nat, content : Contents]

ASSUME NoTaskAssumption == NoTask \notin ScheduledTask

VARIABLES
    now,         \* the wall clock
    tasks,       \* ruleID -> pending task
    taskQueue,   \* the buffered channel
    mu,          \* "free", or "Stop" while Stop holds it and waits
    started,     \* s.started
    stopCh,      \* TRUE once stopCh is closed
    ctxDone,     \* TRUE once the context given to Start is cancelled
    loop,        \* where schedulerLoop is; "done" = it closed doneCh
    batch,       \* tasksToExecute: due tasks it has still to send
    worker,      \* where each taskWorker is
    job,         \* the task each worker has received
    sem          \* tokens in workerSemaphore

schedVars == <<tasks, taskQueue, mu, started, stopCh, ctxDone, loop, batch,
               worker, job, sem>>
vars == <<now, schedVars>>

LoopStates == {"off", "select", "check", "queue", "done"}
WorkerStates == {"off", "select", "acquire", "execute", "delete", "exited"}

TypeOK ==
    /\ now \in Nat
    /\ tasks \in [Rules -> ScheduledTask \cup {NoTask}]
    /\ taskQueue \in Seq(ScheduledTask)
    /\ mu \in {"free", "Stop"}
    /\ started \in BOOLEAN /\ stopCh \in BOOLEAN /\ ctxDone \in BOOLEAN
    /\ loop \in LoopStates
    /\ batch \in SUBSET ScheduledTask
    /\ worker \in [Workers -> WorkerStates]
    /\ job \in [Workers -> ScheduledTask \cup {NoTask}]
    /\ sem \in Nat

\* NewTimeScheduler
Init ==
    /\ now = 0
    /\ tasks = [r \in Rules |-> NoTask]
    /\ taskQueue = <<>>
    /\ mu = "free"
    /\ started = FALSE /\ stopCh = FALSE /\ ctxDone = FALSE
    /\ loop = "off"
    /\ batch = {}
    /\ worker = [w \in Workers |-> "off"]
    /\ job = [w \in Workers |-> NoTask]
    /\ sem = 0

-----------------------------------------------------------------------------
(* The calls of the TimeScheduler interface.                               *)

\* The fields of the AnnotationScheduleRule that ScheduleRule reads.
RuleInput ==
    [ruleID : Rules, schedule : Schedules, content : Contents,
     lastExecution : {NoTime} \cup 0..now]

newTask(rule, next) ==
    [ruleID    |-> rule.ruleID,
     action    |-> GetExecutionAction(rule.schedule, rule.lastExecution),
     executeAt |-> next,
     content   |-> rule.content]

\* A schedule that validation refuses, or a next execution without an
\* action, is an error that leaves the map as it was; no next execution
\* removes the rule.
ScheduleRule(rule) ==
    LET next == CalculateNextExecution(rule.schedule, rule.lastExecution, now)
    IN  /\ mu = "free"
        /\ ValidateSchedule(rule.schedule)
        /\ \/ /\ next = NoTime
              /\ tasks' = [tasks EXCEPT ![rule.ruleID] = NoTask]
           \/ /\ next # NoTime
              /\ GetExecutionAction(rule.schedule, rule.lastExecution) # ""
              /\ tasks' = [tasks EXCEPT ![rule.ruleID] = newTask(rule, next)]
        /\ UNCHANGED <<now, taskQueue, mu, started, stopCh, ctxDone, loop,
                       batch, worker, job, sem>>

UnscheduleRule(r) ==
    /\ mu = "free"
    /\ tasks' = [tasks EXCEPT ![r] = NoTask]
    /\ UNCHANGED <<now, taskQueue, mu, started, stopCh, ctxDone, loop, batch,
                   worker, job, sem>>

\* Every scheduler the program builds is started once: a started one answers
\* with an error, and no caller starts one again after Stop.
Start ==
    /\ mu = "free"
    /\ ~started /\ loop = "off"
    /\ started' = TRUE
    /\ loop' = "select"
    /\ worker' = [w \in Workers |-> "select"]
    /\ UNCHANGED <<now, tasks, taskQueue, mu, stopCh, ctxDone, batch, job, sem>>

\* Stop up to the receive from doneCh, holding s.mu ...
Stop ==
    /\ mu = "free"
    /\ started
    /\ mu' = "Stop"
    /\ stopCh' = TRUE
    /\ UNCHANGED <<now, tasks, taskQueue, started, ctxDone, loop, batch,
                   worker, job, sem>>

\* ... and its return once schedulerLoop has closed doneCh.
StopReturn ==
    /\ mu = "Stop"
    /\ loop = "done"
    /\ started' = FALSE
    /\ mu' = "free"
    /\ UNCHANGED <<now, tasks, taskQueue, stopCh, ctxDone, loop, batch,
                   worker, job, sem>>

-----------------------------------------------------------------------------
(* schedulerLoop                                                           *)

\* The select takes the ticker: checkAndQueueTasks is called.
LoopTick ==
    /\ loop = "select"
    /\ loop' = "check"
    /\ UNCHANGED <<now, tasks, taskQueue, mu, started, stopCh, ctxDone, batch,
                   worker, job, sem>>

LoopExit ==
    /\ loop = "select"
    /\ stopCh \/ ctxDone
    /\ loop' = "done"
    /\ UNCHANGED <<now, tasks, taskQueue, mu, started, stopCh, ctxDone, batch,
                   worker, job, sem>>

\* Mutants of dueTasks: a forgotten due test; a window around the due time.
dueTasks_all == {tasks[r] : r \in {q \in Rules : tasks[q] # NoTask}}

dueTasks_window ==
    {tasks[r] : r \in {q \in Rules : /\ tasks[q] # NoTask
                                     /\ tasks[q].executeAt < now + Tolerance
                                     /\ now < tasks[q].executeAt + Tolerance}}

dueTasks == {tasks[r] : r \in {q \in Rules : /\ tasks[q] # NoTask
                                             /\ ReadyAt(tasks[q].executeAt, now)}}

\* The section of checkAndQueueTasks under RLock.
CheckTasks ==
    /\ loop = "check"
    /\ mu = "free"
    /\ batch' = dueTasks
    /\ loop' = IF batch' = {} THEN "select" ELSE "queue"
    /\ UNCHANGED <<now, tasks, taskQueue, mu, started, stopCh, ctxDone,
                   worker, job, sem>>

\* Mutant of QueueTask: the task leaves the map when it is sent.
QueueTask_forget(t) ==
    /\ loop = "queue"
    /\ t \in batch
    /\ taskQueue' = IF Len(taskQueue) < QueueCap THEN Append(taskQueue, t)
                                                 ELSE taskQueue
    /\ tasks' = [tasks EXCEPT ![t.ruleID] = NoTask]
    /\ batch' = batch \ {t}
    /\ loop' = IF batch' = {} THEN "select" ELSE "queue"
    /\ UNCHANGED <<now, mu, started, stopCh, ctxDone, worker, job, sem>>

\* One non-blocking send; a full queue drops the task.  Map iteration order
\* is arbitrary, so any task of the batch may come next.
QueueTask(t) ==
    /\ loop = "queue"
    /\ t \in batch
    /\ taskQueue' = IF Len(taskQueue) < QueueCap THEN Append(taskQueue, t)
                                                 ELSE taskQueue
    /\ batch' = batch \ {t}
    /\ loop' = IF batch' = {} THEN "select" ELSE "queue"
    /\ UNCHANGED <<now, tasks, mu, started, stopCh, ctxDone, worker, job, sem>>

-----------------------------------------------------------------------------
(* taskWorker and executeTaskWithSemaphore                                 *)

WorkerTake(w) ==
    /\ worker[w] = "select"
    /\ taskQueue # <<>>
    /\ job' = [job EXCEPT ![w] = Head(taskQueue)]
    /\ taskQueue' = Tail(taskQueue)
    /\ worker' = [worker EXCEPT ![w] = "acquire"]
    /\ UNCHANGED <<now, tasks, mu, started, stopCh, ctxDone, loop, batch, sem>>

\* Mutant of WorkerExit: the worker watches its context only.
WorkerExit_ctx(w) ==
    /\ worker[w] = "select"
    /\ ctxDone
    /\ worker' = [worker EXCEPT ![w] = "exited"]
    /\ UNCHANGED <<now, tasks, taskQueue, mu, started, stopCh, ctxDone, loop,
                   batch, job, sem>>

WorkerExit(w) ==
    /\ worker[w] = "select"
    /\ stopCh \/ ctxDone
    /\ worker' = [worker EXCEPT ![w] = "exited"]
    /\ UNCHANGED <<now, tasks, taskQueue, mu, started, stopCh, ctxDone, loop,
                   batch, job, sem>>

\* A token is available: the worker calls executor.ExecuteTask.
AcquireSemaphore(w) ==
    /\ worker[w] = "acquire"
    /\ sem < Cardinality(Workers)
    /\ sem' = sem + 1
    /\ worker' = [worker EXCEPT ![w] = "execute"]
    /\ UNCHANGED <<now, tasks, taskQueue, mu, started, stopCh, ctxDone, loop,
                   batch, job>>

\* Mutant of AbandonTask: it releases a token it has not acquired.
AbandonTask_release(w) ==
    /\ worker[w] = "acquire"
    /\ stopCh \/ ctxDone
    /\ worker' = [worker EXCEPT ![w] = "select"]
    /\ job' = [job EXCEPT ![w] = NoTask]
    /\ sem' = sem - 1
    /\ UNCHANGED <<now, tasks, taskQueue, mu, started, stopCh, ctxDone, loop,
                   batch>>

\* The select sees the shutdown first: the received task is abandoned.
AbandonTask(w) ==
    /\ worker[w] = "acquire"
    /\ stopCh \/ ctxDone
    /\ worker' = [worker EXCEPT ![w] = "select"]
    /\ job' = [job EXCEPT ![w] = NoTask]
    /\ UNCHANGED <<now, tasks, taskQueue, mu, started, stopCh, ctxDone, loop,
                   batch, sem>>

\* ExecuteTask returns; success and failure are only logged.
ExecuteReturn(w) ==
    /\ worker[w] = "execute"
    /\ worker' = [worker EXCEPT ![w] = "delete"]
    /\ UNCHANGED <<now, tasks, taskQueue, mu, started, stopCh, ctxDone, loop,
                   batch, job, sem>>

\* Mutants of DeleteTask: the task stays in the map; the deferred release is
\* missing.
DeleteTask_keep(w) ==
    /\ worker[w] = "delete"
    /\ mu = "free"
    /\ job' = [job EXCEPT ![w] = NoTask]
    /\ sem' = sem - 1
    /\ worker' = [worker EXCEPT ![w] = "select"]
    /\ UNCHANGED <<now, tasks, taskQueue, mu, started, stopCh, ctxDone, loop,
                   batch>>

DeleteTask_leak(w) ==
    /\ worker[w] = "delete"
    /\ mu = "free"
    /\ tasks' = [tasks EXCEPT ![job[w].ruleID] = NoTask]
    /\ job' = [job EXCEPT ![w] = NoTask]
    /\ worker' = [worker EXCEPT ![w] = "select"]
    /\ UNCHANGED <<now, taskQueue, mu, started, stopCh, ctxDone, loop, batch,
                   sem>>

\* delete(s.tasks, task.RuleID) under s.mu, then the deferred release.
DeleteTask(w) ==
    /\ worker[w] = "delete"
    /\ mu = "free"
    /\ tasks' = [tasks EXCEPT ![job[w].ruleID] = NoTask]
    /\ job' = [job EXCEPT ![w] = NoTask]
    /\ sem' = sem - 1
    /\ worker' = [worker EXCEPT ![w] = "select"]
    /\ UNCHANGED <<now, taskQueue, mu, started, stopCh, ctxDone, loop, batch>>

-----------------------------------------------------------------------------
(* The environment and the specification.                                  *)

AdvanceClock ==
    /\ now < MaxTime
    /\ now' = now + 1
    /\ UNCHANGED schedVars

CancelContext ==
    /\ started /\ ~ctxDone
    /\ ctxDone' = TRUE
    /\ UNCHANGED <<now, tasks, taskQueue, mu, started, stopCh, loop, batch,
                   worker, job, sem>>

ClientNext ==
    \/ \E rule \in RuleInput : ScheduleRule(rule)
    \/ \E r \in Rules : UnscheduleRule(r)
    \/ Start \/ Stop

LoopNext == LoopTick \/ LoopExit \/ CheckTasks \/ \E t \in batch : QueueTask(t)

WorkerNext(w) ==
    \/ WorkerTake(w) \/ WorkerExit(w) \/ AcquireSemaphore(w) \/ AbandonTask(w)
    \/ ExecuteReturn(w) \/ DeleteTask(w)

SchedulerNext ==
    \/ StopReturn
    \/ LoopNext
    \/ \E w \in Workers : WorkerNext(w)

EnvNext == AdvanceClock \/ CancelContext

Next == ClientNext \/ SchedulerNext \/ EnvNext

Spec == Init /\ [][Next]_vars

\* Goroutines that can run do run: the ticker keeps firing, the select of an
\* idle goroutine takes some ready case, and ExecuteTask, whose retries are
\* bounded, returns.  A closed channel stays ready while the ticker is ready
\* at times: the loop's select, which picks among the ready cases at random,
\* does not prefer the ticker for ever.
Fairness ==
    /\ WF_vars(StopReturn)
    /\ WF_vars(LoopNext) /\ SF_vars(LoopExit)
    /\ \A w \in Workers : WF_vars(WorkerNext(w))

-----------------------------------------------------------------------------
(* Safety.                                                                 *)

Due(r) == tasks[r] # NoTask /\ ReadyAt(tasks[r].executeAt, now)

\* Tasks that have left the map for execution.
InFlight ==
    batch \cup {taskQueue[i] : i \in 1..Len(taskQueue)}
          \cup ({job[w] : w \in Workers} \ {NoTask})

\* No task is on its way to execution, wherever it waits, before its time
\* less the tolerance (checkAndQueueTasks, "with 1 minute tolerance").
NotEarly == \A t \in InFlight : t.executeAt < now + Tolerance

\* A worker that has received a task never waits for a token: there is one
\* per worker, and every path of executeTaskWithSemaphore returns it.
SemaphoreNeverBlocks ==
    \A w \in Workers : worker[w] = "acquire" => sem < Cardinality(Workers)

\* The workers between acquire and deferred release hold the tokens.
SemaphoreBalanced ==
    sem = Cardinality({w \in Workers : worker[w] \in {"execute", "delete"}})

\* Whenever CalculateNextExecution has a time, GetExecutionAction has an
\* action for it: ScheduleRule never fails between the two.
ActionDefined ==
    \A rule \in RuleInput :
       /\ ValidateSchedule(rule.schedule)
       /\ CalculateNextExecution(rule.schedule, rule.lastExecution, now) # NoTime
       => GetExecutionAction(rule.schedule, rule.lastExecution) # ""

\* GetSchedulePhase and CalculateNextExecution agree on every rule: a
\* completed schedule has no next execution, and one that is to start and has
\* not been executed has its start.
PhaseAgrees ==
    \A rule \in RuleInput :
       LET phase == GetSchedulePhase(rule.schedule, now)
           next == CalculateNextExecution(rule.schedule, rule.lastExecution, now)
       IN  /\ phase = "completed" => next = NoTime
           /\ phase = "pending" /\ rule.lastExecution = NoTime =>
                 next = rule.schedule.startTime

\* A task leaves the map only through a call on the interface or because a
\* worker has executed a task of the same rule; in particular a task dropped
\* at a full queue stays for the next tick.
TasksNotLost ==
    [][\A r \in Rules :
          tasks[r] # NoTask /\ tasks'[r] = NoTask =>
             \/ \E w \in Workers : worker[w] = "delete" /\ job[w].ruleID = r
             \/ UNCHANGED <<loop, batch, taskQueue, worker, job>>]_vars

\* The tasks that wait for a token or a worker.
Waiting ==
    batch \cup {taskQueue[i] : i \in 1..Len(taskQueue)}
          \cup {job[w] : w \in {v \in Workers : worker[v] = "acquire"}}

\* With the loop, the queue, the mutex and the semaphore out of sight, every
\* behaviour is one that TaskAgenda promises: only due tasks of the map are
\* handed out, none once Stop has returned, and what is executed was handed
\* out and leaves the map with its rule.
Agenda == INSTANCE TaskAgenda WITH
    Tasks   <- ScheduledTask,
    agenda  <- tasks,
    given   <- Waiting,
    running <- [w \in Workers |->
                  IF worker[w] \in {"execute", "delete"} THEN job[w] ELSE NoTask],
    closed  <- stopCh /\ ~started

KeepsAgenda == Agenda!Spec

-----------------------------------------------------------------------------
(* Liveness, for finitely many calls of the interface (see the MC module). *)

Executing(r) ==
    \E w \in Workers : worker[w] = "execute" /\ job[w].ruleID = r

\* A due task of a running scheduler is executed, dropped sends included,
\* unless a call replaces it or the scheduler is shut down.
DueTaskRuns ==
    \A r \in Rules :
       started /\ Due(r) ~> ~Due(r) \/ Executing(r) \/ stopCh \/ ctxDone

\* A shutdown comes to its end, loop and workers gone and Stop returned, from
\* wherever each goroutine was, with tasks queued or running; or Stop met the
\* loop past its select, where it waits for the mutex that Stop holds while
\* Stop waits for the loop (the deadlock of the README).
ShutdownCompletes ==
    stopCh \/ ctxDone ~>
       \/ mu = "Stop" /\ loop = "check"
       \/ /\ mu = "free" /\ loop = "done"
          /\ \A w \in Workers : worker[w] = "exited"
=============================================================================
