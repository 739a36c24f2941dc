--------------------------- MODULE RuleController ---------------------------
(***************************************************************************)
(* The reconciler and the task executor of                                 *)
(* internal/controller/annotationschedulerule_controller.go, around the    *)
(* scheduler of TimeScheduler: rules live in the API server, the           *)
(* reconciler and the workers read them through an informer, schedule and  *)
(* execute their tasks, and write their status.                            *)
(*                                                                         *)
(* Resource versions are abstracted to one bit per copy: "it is the        *)
(* current version".  A write to the object clears the bit of every copy,  *)
(* and an update with a copy whose bit is clear is a conflict.  Retrying   *)
(* it with the same copy, as RetryWithBackoff does for the reconciler,     *)
(* meets the same conflict, so one attempt stands for all of them.         *)
(*                                                                         *)
(* What an execution does to the workloads is the subject of               *)
(* ResourceManager; here `annotated` says whose annotations are on some    *)
(* workload.  Conditions and messages of the status are left out.          *)
(***************************************************************************)
EXTENDS TimeScheduler

CONSTANTS
    RuleSpecs,      \* the specs users give to rules
    GroupContents,  \* the contents that use annotationGroups
    Injected,       \* TRUE: the scheduler is built by cmd/main.go, which never
                    \* starts it; FALSE: SetupWithManager builds and starts it
    MaxRetries,     \* RetryConfig.MaxRetries (5 by default)
    NoRule          \* absence of a rule object or of a request

\* valid stands for the checks of validateRule on everything but the schedule.
RuleSpec == [schedule : Schedules, content : Contents, valid : BOOLEAN]

Phases == {"", "pending", "active", "completed", "failed"}

RuleStatus ==
    [last : OptTime, next : OptTime, phase : Phases,
     executions : Nat, successful : Nat, failed : Nat]

RuleObject ==
    [spec : RuleSpec, deleting : BOOLEAN, finalizer : BOOLEAN,
     status : RuleStatus]

ASSUME ControllerAssumption ==
    /\ RuleSpecs \subseteq RuleSpec
    /\ GroupContents \subseteq Contents
    /\ Injected \in BOOLEAN
    /\ MaxRetries \in Nat
    /\ NoRule \notin RuleObject /\ NoRule \notin Rules

VARIABLES
    obj,         \* the rules in the API server
    cached,      \* the informer's copies
    fresh,       \* fresh[r]: cached[r] is the current version
    annotated,   \* annotated[r]: the contents of r that are on some workload
    pending,     \* rules with a request in the controller's work queue
    rec,         \* where Reconcile is
    req,         \* the request it works on
    rule,        \* its copy of the rule
    ruleFresh,   \* that copy is the current version
    step,        \* where each worker is inside ExecuteTask
    began,       \* startTime of ExecuteTask
    success,     \* err == nil
    copy,        \* the rule fetched for the status update
    copyFresh,   \* that copy is the current version
    attempt      \* attempt of RetryWithBackoff around the status update

apiVars == <<obj, cached, fresh, annotated>>
recVars == <<pending, rec, req, rule, ruleFresh>>
execVars == <<step, began, success, copy, copyFresh, attempt>>
ctlVars == <<apiVars, recVars, execVars>>
allVars == <<vars, ctlVars>>

RecStates == {"idle", "panic", "finalizer", "invalid", "schedule", "unscheduled",
              "next", "status", "delete", "cleanup", "unfinalize"}

CtlTypeOK ==
    /\ TypeOK
    /\ obj \in [Rules -> RuleObject \cup {NoRule}]
    /\ cached \in [Rules -> RuleObject \cup {NoRule}]
    /\ fresh \in [Rules -> BOOLEAN]
    /\ annotated \in [Rules -> SUBSET Contents]
    /\ pending \subseteq Rules
    /\ rec \in RecStates
    /\ req \in Rules \cup {NoRule}
    /\ rule \in RuleObject \cup {NoRule}
    /\ ruleFresh \in BOOLEAN
    /\ step \in [Workers -> {"off", "run", "get", "put"}]
    /\ began \in [Workers -> Nat]
    /\ success \in [Workers -> BOOLEAN]
    /\ copy \in [Workers -> RuleObject \cup {NoRule}]
    /\ copyFresh \in [Workers -> BOOLEAN]
    /\ attempt \in [Workers -> 0..MaxRetries]

CtlInit ==
    /\ Init
    /\ obj = [r \in Rules |-> NoRule]
    /\ cached = obj
    /\ fresh = [r \in Rules |-> TRUE]
    /\ annotated = [r \in Rules |-> {}]
    /\ pending = {}
    /\ rec = "idle" /\ req = NoRule /\ rule = NoRule /\ ruleFresh = FALSE
    /\ step = [w \in Workers |-> "off"]
    /\ began = [w \in Workers |-> 0]
    /\ success = [w \in Workers |-> FALSE]
    /\ copy = [w \in Workers |-> NoRule]
    /\ copyFresh = [w \in Workers |-> FALSE]
    /\ attempt = [w \in Workers |-> 0]

-----------------------------------------------------------------------------
(* The API server and the informer (external).                             *)

\* The API server now has o for r: every other copy of it is outdated.
Stored(r, o) ==
    /\ obj' = [obj EXCEPT ![r] = o]
    /\ fresh' = [fresh EXCEPT ![r] = FALSE]
    /\ ruleFresh' = (ruleFresh /\ req # r)
    /\ copyFresh' = [w \in Workers |->
          copyFresh[w] /\ ~(job[w] # NoTask /\ job[w].ruleID = r)]

\* A write that leaves the object as it was keeps its version.
Unwritten == UNCHANGED <<obj, fresh, copyFresh>>

NewStatus ==
    [last |-> NoTime, next |-> NoTime, phase |-> "",
     executions |-> 0, successful |-> 0, failed |-> 0]

CreateRule(r, s) ==
    /\ obj[r] = NoRule
    /\ Stored(r, [spec |-> s, deleting |-> FALSE, finalizer |-> FALSE,
                  status |-> NewStatus])
    /\ UNCHANGED <<vars, cached, annotated, pending, rec, req, rule,
                   step, began, success, copy, attempt>>

EditRule(r, s) ==
    /\ obj[r] # NoRule /\ obj[r].spec # s
    /\ Stored(r, [obj[r] EXCEPT !.spec = s])
    /\ UNCHANGED <<vars, cached, annotated, pending, rec, req, rule,
                   step, began, success, copy, attempt>>

\* A rule with the finalizer is only marked.
DeleteRule(r) ==
    /\ obj[r] # NoRule /\ ~obj[r].deleting
    /\ Stored(r, IF obj[r].finalizer THEN [obj[r] EXCEPT !.deleting = TRUE]
                                     ELSE NoRule)
    /\ UNCHANGED <<vars, cached, annotated, pending, rec, req, rule,
                   step, began, success, copy, attempt>>

\* A write to fields outside the model: another client's, or the conditions
\* RecoverControllerState adds to every rule after a restart.
TouchRule(r) ==
    /\ obj[r] # NoRule
    /\ fresh[r]
    /\ Stored(r, obj[r])
    /\ UNCHANGED <<vars, cached, annotated, pending, rec, req, rule,
                   step, began, success, copy, attempt>>

\* The watch event reaches the informer, which enqueues a request.
SyncInformer(r) ==
    /\ ~fresh[r]
    /\ cached' = [cached EXCEPT ![r] = obj[r]]
    /\ fresh' = [fresh EXCEPT ![r] = TRUE]
    /\ pending' = pending \cup {r}
    /\ UNCHANGED <<vars, obj, annotated, rec, req, rule, ruleFresh, execVars>>
-----------------------------------------------------------------------------
(* Reconcile.  controller-runtime runs it for one request at a time.  A    *)
(* request that ends in an error or asks for a requeue, at once or after a *)
(* delay, is in the work queue again.  A fetch that fails for another      *)
(* reason than a missing rule changes nothing and requeues the request.    *)

Return ==
    /\ rec' = "idle" /\ req' = NoRule /\ rule' = NoRule /\ ruleFresh' = FALSE

Requeue == pending' = pending \cup {req}

validateScheduleConfig(s) ==
    \/ /\ s.type = "datetime"
       /\ s.startTime # NoTime \/ s.endTime # NoTime
       /\ s.startTime # NoTime /\ s.endTime # NoTime => s.endTime >= s.startTime
    \/ /\ s.type = "cron"
       /\ s.cronExpression # NoCron
       /\ s.action \in Actions

validateRule(o) == o.spec.valid /\ validateScheduleConfig(o.spec.schedule)

\* fetchRule found the rule; the branch that doReconcile takes.  Without
\* finalizers of others, an object that is being deleted has this one.
fetchRule(r) ==
    /\ rec = "idle" /\ r \in pending
    /\ cached[r] # NoRule
    /\ pending' = pending \ {r}
    /\ req' = r
    /\ rule' = cached[r]
    /\ ruleFresh' = fresh[r]
    /\ rec' = IF cached[r].deleting THEN "delete"
              ELSE IF ~cached[r].finalizer THEN "finalizer"
              ELSE IF ~validateRule(cached[r]) THEN "invalid"
              ELSE "schedule"
    /\ UNCHANGED <<vars, apiVars, execVars>>

\* fetchRule did not find the rule: it unschedules it and returns a nil rule
\* without an error, which doReconcile dereferences; safeReconcile turns the
\* panic into an error, which requeues the request.
fetchRuleNotFound(r) ==
    /\ rec = "idle" /\ r \in pending
    /\ cached[r] = NoRule
    /\ UnscheduleRule(r)
    /\ pending' = pending \ {r}
    /\ req' = r
    /\ rec' = "panic"
    /\ UNCHANGED <<apiVars, rule, ruleFresh, execVars>>

safeReconcile ==
    /\ rec = "panic"
    /\ Return /\ Requeue
    /\ UNCHANGED <<vars, apiVars, execVars>>

ensureFinalizer ==
    /\ rec = "finalizer"
    /\ ruleFresh
    /\ Stored(req, [rule EXCEPT !.finalizer = TRUE, !.status = obj[req].status])
    /\ Return /\ Requeue
    /\ UNCHANGED <<vars, cached, annotated, step, began, success, copy, attempt>>

\* Status().Update of the reconciler's copy.  The conditions carry the time
\* of the write: within the same second it may change nothing.
WriteStatus(status) ==
    LET o == [obj[req] EXCEPT !.status = status]
    IN  /\ ruleFresh
        /\ Stored(req, o) \/ (o = obj[req] /\ Unwritten)

\* The status update of a rule that validateRule refuses.
validateAndUpdateRuleOnFailure ==
    /\ rec = "invalid"
    /\ WriteStatus([rule.status EXCEPT !.phase = "failed"])
    /\ Return
    /\ UNCHANGED <<vars, cached, annotated, pending, step, began, success, copy,
                   attempt>>

\* That update fails: the error is logged and the request is not requeued.
validationStatusError ==
    /\ rec = "invalid"
    /\ Return
    /\ UNCHANGED <<vars, apiVars, pending, execVars>>

scheduleInput ==
    [ruleID |-> req, schedule |-> rule.spec.schedule,
     content |-> rule.spec.content, lastExecution |-> rule.status.last]

scheduleRule ==
    /\ rec = "schedule"
    /\ ScheduleRule(scheduleInput)
    /\ rec' = "next"
    /\ UNCHANGED <<apiVars, pending, req, rule, ruleFresh, execVars>>

\* ScheduleRule refuses a schedule that validateRule has let through.
scheduleRuleError ==
    /\ rec = "schedule"
    /\ mu = "free"
    /\ ~ValidateSchedule(rule.spec.schedule)
    /\ rec' = "unscheduled"
    /\ UNCHANGED <<vars, apiVars, pending, req, rule, ruleFresh, execVars>>

updateFailedStatus ==
    /\ rec = "unscheduled"
    /\ WriteStatus([rule.status EXCEPT !.phase = "failed"])
    /\ Return /\ Requeue
    /\ UNCHANGED <<vars, cached, annotated, step, began, success, copy, attempt>>

\* GetNextExecutionTime, then updateRuleActiveStatus on the copy.
processNextExecutionTime ==
    /\ rec = "next"
    /\ mu = "free"
    /\ tasks[req] # NoTask
    /\ rule' = [rule EXCEPT
                  !.status.next = tasks[req].executeAt,
                  !.status.phase = IF rule.status.phase \in {"", "pending"}
                                   THEN "active" ELSE rule.status.phase]
    /\ rec' = "status"
    /\ UNCHANGED <<vars, apiVars, pending, req, ruleFresh, execVars>>

\* GetNextExecutionTime has no task for the rule, which is an error.
processNextExecutionTimeError ==
    /\ rec = "next"
    /\ mu = "free"
    /\ tasks[req] = NoTask
    /\ Return /\ Requeue
    /\ UNCHANGED <<vars, apiVars, execVars>>

\* Mutants of updateRuleStatus: the update ignores the version; the request
\* is not requeued after ten minutes.
updateRuleStatus_force ==
    /\ rec = "status"
    /\ obj[req] # NoRule
    /\ Stored(req, [obj[req] EXCEPT !.status = rule.status])
    /\ Return /\ Requeue
    /\ UNCHANGED <<vars, cached, annotated, step, began, success, copy, attempt>>

updateRuleStatus_norequeue ==
    /\ rec = "status"
    /\ WriteStatus(rule.status)
    /\ Return
    /\ UNCHANGED <<vars, cached, annotated, pending, step, began, success, copy,
                   attempt>>

\* updateRuleStatusWithErrorHandling, then the requeue after ten minutes.
updateRuleStatus ==
    /\ rec = "status"
    /\ WriteStatus(rule.status)
    /\ Return /\ Requeue
    /\ UNCHANGED <<vars, cached, annotated, step, began, success, copy, attempt>>

\* Mutant of handleDeletion: the rule is not unscheduled.
handleDeletion_scheduled ==
    /\ rec = "delete"
    /\ rec' = "cleanup"
    /\ UNCHANGED <<vars, apiVars, pending, req, rule, ruleFresh, execVars>>

handleDeletion ==
    /\ rec = "delete"
    /\ UnscheduleRule(req)
    /\ rec' = "cleanup"
    /\ UNCHANGED <<apiVars, pending, req, rule, ruleFresh, execVars>>

\* The keys of spec.annotations; a rule with groups has none.
cleanedUp ==
    IF rule.spec.content \in GroupContents
      THEN annotated
      ELSE [annotated EXCEPT ![req] = @ \ {rule.spec.content}]

cleanupRuleAnnotations ==
    /\ rec = "cleanup"
    /\ annotated' = cleanedUp
    /\ rec' = "unfinalize"
    /\ UNCHANGED <<vars, obj, cached, fresh, pending, req, rule, ruleFresh,
                   execVars>>

\* Mutant of cleanupRuleAnnotationsError: the request is not requeued.
cleanupRuleAnnotationsError_dropped ==
    /\ rec = "cleanup"
    /\ rule.spec.content \notin GroupContents
    /\ annotated' \in {annotated, cleanedUp}
    /\ Return
    /\ UNCHANGED <<vars, obj, cached, fresh, pending, execVars>>

\* RemoveAnnotations returns an error, perhaps after it has done its work.
cleanupRuleAnnotationsError ==
    /\ rec = "cleanup"
    /\ rule.spec.content \notin GroupContents
    /\ annotated' \in {annotated, cleanedUp}
    /\ Return /\ Requeue
    /\ UNCHANGED <<vars, obj, cached, fresh, execVars>>

\* The API server deletes an object that has lost its last finalizer.  If its
\* answer is lost, the request is requeued.
removeFinalizer ==
    /\ rec = "unfinalize"
    /\ ruleFresh
    /\ Stored(req, NoRule)
    /\ Return
    /\ Requeue \/ UNCHANGED pending
    /\ UNCHANGED <<vars, cached, annotated, step, began, success, copy, attempt>>

\* An update the API server refuses, for a conflict or any other reason: the
\* request is requeued with an error or after a delay.  (So it is when only
\* the answer to an accepted update is lost, as after the actions above.)
updateError ==
    /\ rec \in {"finalizer", "unscheduled", "status", "unfinalize"}
    /\ Return /\ Requeue
    /\ UNCHANGED <<vars, apiVars, execVars>>

-----------------------------------------------------------------------------
(* ExecuteTask, in the worker goroutines of the scheduler.                 *)

ExecuteTask(w) ==
    /\ AcquireSemaphore(w)
    /\ step' = [step EXCEPT ![w] = "run"]
    /\ began' = [began EXCEPT ![w] = now]
    /\ UNCHANGED <<apiVars, recVars, success, copy, copyFresh, attempt>>

\* The action has returned, successfully or not.
executed(w, ok) ==
    /\ worker[w] = "execute" /\ step[w] = "run"
    /\ success' = [success EXCEPT ![w] = ok]
    /\ step' = [step EXCEPT ![w] = "get"]
    /\ UNCHANGED <<vars, obj, cached, fresh, recVars, began, copy, copyFresh,
                   attempt>>

\* An apply, with its retries, may find no workload; one that fails may have
\* reached some.
executeApplyAction(w, ok) ==
    LET t == job[w]
        with == [annotated EXCEPT ![t.ruleID] = @ \cup {t.content}]
    IN  /\ executed(w, ok)
        /\ t.action = "apply"
        /\ annotated' \in {annotated, with}

\* A remove that fails may have done its work.
executeRemoveAction(w, ok) ==
    LET t == job[w]
        without == [annotated EXCEPT ![t.ruleID] = @ \ {t.content}]
    IN  /\ executed(w, ok)
        /\ t.action = "remove"
        /\ annotated' \in IF ok THEN {without} ELSE {annotated, without}

\* updateRuleStatusAfterExecution: the Get of one attempt ...
statusGet(w) ==
    /\ step[w] = "get"
    /\ cached[job[w].ruleID] # NoRule
    /\ copy' = [copy EXCEPT ![w] = cached[job[w].ruleID]]
    /\ copyFresh' = [copyFresh EXCEPT ![w] = fresh[job[w].ruleID]]
    /\ step' = [step EXCEPT ![w] = "put"]
    /\ UNCHANGED <<vars, apiVars, recVars, began, success, attempt>>

\* ... ExecuteTask is over ...
ExecuteTaskReturn(w) ==
    /\ ExecuteReturn(w)
    /\ step' = [step EXCEPT ![w] = "off"]
    /\ began' = [began EXCEPT ![w] = 0]
    /\ success' = [success EXCEPT ![w] = FALSE]
    /\ copy' = [copy EXCEPT ![w] = NoRule]
    /\ attempt' = [attempt EXCEPT ![w] = 0]

\* Mutant of executedStatus: the counter is incremented at every attempt.
executedStatus_attempts(w) ==
    LET s == copy[w].status
    IN  [s EXCEPT !.last = began[w],
                  !.executions = @ + 1 + attempt[w],
                  !.successful = IF success[w] THEN @ + 1 ELSE @,
                  !.failed = IF success[w] THEN @ ELSE @ + 1]

executedStatus(w) ==
    LET s == copy[w].status
    IN  [s EXCEPT !.last = began[w],
                  !.executions = @ + 1,
                  !.successful = IF success[w] THEN @ + 1 ELSE @,
                  !.failed = IF success[w] THEN @ ELSE @ + 1]

\* ... with the status written ...
statusUpdate(w) ==
    LET r == job[w].ruleID
    IN  /\ step[w] = "put"
        /\ copyFresh[w]
        /\ Stored(r, [obj[r] EXCEPT !.status = executedStatus(w)])
        /\ ExecuteTaskReturn(w)
        /\ UNCHANGED <<cached, annotated, pending, rec, req, rule>>

\* Mutant of statusUpdateFails: the worker's function returns with the error
\* and does not delete the task.
statusUpdateFails_early(w) ==
    /\ step[w] \in {"get", "put"}
    /\ worker' = [worker EXCEPT ![w] = "select"]
    /\ job' = [job EXCEPT ![w] = NoTask]
    /\ sem' = sem - 1
    /\ step' = [step EXCEPT ![w] = "off"]
    /\ began' = [began EXCEPT ![w] = 0]
    /\ success' = [success EXCEPT ![w] = FALSE]
    /\ copy' = [copy EXCEPT ![w] = NoRule]
    /\ attempt' = [attempt EXCEPT ![w] = 0]
    /\ copyFresh' = [copyFresh EXCEPT ![w] = FALSE]
    /\ UNCHANGED <<now, tasks, taskQueue, mu, started, stopCh, ctxDone, loop, batch,
                   apiVars, recVars>>

\* ... or after a NotFound, an error that is not retried, or the last attempt.
statusUpdateFails(w) ==
    /\ step[w] \in {"get", "put"}
    /\ ExecuteTaskReturn(w)
    /\ copyFresh' = [copyFresh EXCEPT ![w] = FALSE]
    /\ UNCHANGED <<apiVars, recVars>>

\* Mutant of Retried: the attempts are not bounded.
Retried_unbounded(w) ==
    /\ step' = [step EXCEPT ![w] = "get"]
    /\ copy' = [copy EXCEPT ![w] = NoRule]
    /\ attempt' = [attempt EXCEPT ![w] = @ + 1]

\* The next attempt starts over from the Get.
Retried(w) ==
    /\ attempt[w] < MaxRetries
    /\ step' = [step EXCEPT ![w] = "get"]
    /\ copy' = [copy EXCEPT ![w] = NoRule]
    /\ attempt' = [attempt EXCEPT ![w] = @ + 1]

\* A conflict is retried, and so is a timeout, a network error or a rate limit,
\* of the Get as well.
statusUpdateRetry(w) ==
    /\ step[w] \in {"get", "put"}
    /\ Retried(w)
    /\ copyFresh' = [copyFresh EXCEPT ![w] = FALSE]
    /\ UNCHANGED <<vars, apiVars, recVars, began, success>>

\* The status is written and the answer is lost: the next attempt counts the
\* execution once more.  (Without a retry the end is that of statusUpdate.)
statusUpdateUnanswered(w) ==
    LET r == job[w].ruleID
    IN  /\ step[w] = "put"
        /\ copyFresh[w]
        /\ Stored(r, [obj[r] EXCEPT !.status = executedStatus(w)])
        /\ Retried(w)
        /\ UNCHANGED <<vars, cached, annotated, pending, rec, req, rule, began, success>>

-----------------------------------------------------------------------------

\* SetupWithManager starts the scheduler it builds, and only that one.
StartScheduler ==
    /\ ~Injected
    /\ Start
    /\ UNCHANGED ctlVars

\* The process ends and a new one starts: memory is lost, the informer lists
\* the rules and enqueues every one of them.
Restart ==
    /\ tasks' = [r \in Rules |-> NoTask]
    /\ taskQueue' = <<>>
    /\ mu' = "free"
    /\ started' = FALSE /\ stopCh' = FALSE /\ ctxDone' = FALSE
    /\ loop' = "off"
    /\ batch' = {}
    /\ worker' = [w \in Workers |-> "off"]
    /\ job' = [w \in Workers |-> NoTask]
    /\ sem' = 0
    /\ cached' = obj
    /\ fresh' = [r \in Rules |-> TRUE]
    /\ pending' = {r \in Rules : obj[r] # NoRule}
    /\ Return
    /\ step' = [w \in Workers |-> "off"]
    /\ began' = [w \in Workers |-> 0]
    /\ success' = [w \in Workers |-> FALSE]
    /\ copy' = [w \in Workers |-> NoRule]
    /\ copyFresh' = [w \in Workers |-> FALSE]
    /\ attempt' = [w \in Workers |-> 0]
    /\ UNCHANGED <<now, obj, annotated>>

ReconcileNext ==
    \/ \E r \in Rules : fetchRule(r) \/ fetchRuleNotFound(r)
    \/ safeReconcile
    \/ ensureFinalizer \/ validateAndUpdateRuleOnFailure \/ validationStatusError
    \/ scheduleRule \/ scheduleRuleError \/ updateFailedStatus
    \/ processNextExecutionTime \/ processNextExecutionTimeError
    \/ updateRuleStatus \/ handleDeletion
    \/ cleanupRuleAnnotations \/ cleanupRuleAnnotationsError
    \/ removeFinalizer \/ updateError

ExecutorNext(w) ==
    \/ ExecuteTask(w)
    \/ \E ok \in BOOLEAN : executeApplyAction(w, ok) \/ executeRemoveAction(w, ok)
    \/ statusGet(w) \/ statusUpdate(w) \/ statusUpdateFails(w)
    \/ statusUpdateRetry(w) \/ statusUpdateUnanswered(w)

\* The scheduler's own goroutines, outside ExecuteTask.
LoopStep ==
    /\ LoopTick \/ CheckTasks \/ (\E t \in batch : QueueTask(t))
    /\ UNCHANGED ctlVars

WorkerStep(w) == (WorkerTake(w) \/ DeleteTask(w)) /\ UNCHANGED ctlVars

UserNext ==
    \E r \in Rules :
       \/ \E s \in RuleSpecs : CreateRule(r, s) \/ EditRule(r, s)
       \/ DeleteRule(r)

ControllerNext ==
    \/ ReconcileNext
    \/ \E w \in Workers : ExecutorNext(w) \/ WorkerStep(w)
    \/ LoopStep \/ StartScheduler
    \/ \E r \in Rules : SyncInformer(r)
    \/ AdvanceClock /\ UNCHANGED ctlVars

CtlNext ==
    \/ ControllerNext \/ UserNext \/ Restart
    \/ \E r \in Rules : TouchRule(r)

CtlSpec == CtlInit /\ [][CtlNext]_allVars

\* Time passes, goroutines run, watch events arrive, and the work queue serves every
\* request.  The API server does not refuse a request for ever: a step that
\* is possible again and again is taken at last.
CtlFairness ==
    /\ \A r \in Rules : SF_allVars(fetchRule(r) \/ fetchRuleNotFound(r))
    /\ WF_allVars(ReconcileNext)
    /\ SF_allVars(ensureFinalizer)
    /\ SF_allVars(cleanupRuleAnnotations)
    /\ SF_allVars(removeFinalizer)
    /\ WF_allVars(LoopStep)
    /\ WF_allVars(StartScheduler)
    /\ \A r \in Rules : WF_allVars(SyncInformer(r))
    /\ WF_allVars(AdvanceClock /\ UNCHANGED ctlVars)

WorkerFairness ==
    \A w \in Workers : WF_allVars(ExecutorNext(w) \/ WorkerStep(w))

FairSpec == CtlSpec /\ CtlFairness /\ WorkerFairness

-----------------------------------------------------------------------------
(* Properties.                                                             *)

\* A copy that counts as current is the object; what the reconciler works on
\* was read through the informer.
FreshIsCurrent ==
    /\ \A r \in Rules : fresh[r] => cached[r] = obj[r]
    /\ \A w \in Workers :
          copyFresh[w] => /\ step[w] = "put"
                          /\ copy[w] = obj[job[w].ruleID]
                          /\ copy[w] # NoRule

\* A task in the scheduler belongs to a rule that exists and carries the
\* finalizer, whatever stale copy the reconciler scheduled it from: a rule
\* cannot vanish and leave its task behind.
ScheduledHasFinalizer ==
    \A r \in Rules :
       tasks[r] # NoTask => obj[r] # NoRule /\ obj[r].finalizer

\* The controller forgets no rule: through errors, conflicts and restarts a
\* rule has a request in the queue or in work, or a watch event to come; only
\* one that validateRule refuses may rest until it is edited.
RuleNotForgotten ==
    \A r \in Rules :
       obj[r] # NoRule =>
          r \in pending \/ req = r \/ ~fresh[r] \/ ~validateRule(obj[r])

\* With reconciler and executor as its callers, and through any number of
\* restarts, the scheduler keeps what TaskAgenda promises.
AgendaAcrossRestarts == Agenda!RestartSpec

\* Where a rule is in its life.
lifeOf(o) ==
    IF o = NoRule THEN "absent" ELSE
    IF o.deleting THEN "ending" ELSE
    IF o.finalizer THEN "held" ELSE "new"

Lives == [r \in Rules |-> lifeOf(obj[r])]
Wanted == [r \in Rules |-> IF obj[r] = NoRule THEN NoRule ELSE obj[r].spec]
Counts == [r \in Rules |-> IF obj[r] = NoRule THEN 0 ELSE obj[r].status.executions]
Scheduled == {r \in Rules : tasks[r] # NoTask}
InWork == [w \in Workers |-> IF step[w] = "off" THEN NoRule ELSE job[w].ruleID]
TriesLeft == [w \in Workers |-> MaxRetries + 1 - attempt[w]]

Lifecycle ==
    INSTANCE RuleLifecycle
    WITH Specs <- RuleSpecs, None <- NoRule, MaxTries <- MaxRetries + 1,
         life <- Lives, spec <- Wanted, count <- Counts,
         scheduled <- Scheduled, executing <- InWork, tries <- TriesLeft

\* Conflicts, stale copies and restarts never show: rules come and go as
\* RuleLifecycle says, and each attempt to record an execution counts it at
\* most once, on the rule that exists by then.  (Lost answers do show: an
\* execution may be counted MaxRetries + 1 times.)
KeepsLifecycle == Lifecycle!Spec

\* No write of the controller undoes a write it has not seen: executions stay
\* counted, a deletion stays requested, and the user's spec stays, although
\* reconciler and workers write whole objects from their copies.
NoLostWrite ==
    [][\A r \in Rules :
          obj[r] # NoRule /\ obj'[r] # NoRule =>
             /\ obj'[r].status.executions >= obj[r].status.executions
             /\ obj[r].deleting => obj'[r].deleting
             /\ obj[r].finalizer => obj'[r].finalizer
             /\ obj'[r].spec # obj[r].spec => UNCHANGED <<rec, step>>]_allVars

\* Deletion completes, conflicts and failed cleanups included.
DeletionCompletes ==
    \A r \in Rules :
       obj[r] # NoRule /\ obj[r].deleting ~> obj[r] = NoRule

Schedulable(r) ==
    /\ obj[r] # NoRule /\ ~obj[r].deleting
    /\ validateRule(obj[r]) /\ ValidateSchedule(obj[r].spec.schedule)

\* A cron rule does not fall out of the scheduler: whenever a worker has
\* deleted its task, a later reconcile schedules the next one, even when that
\* deletion hit a task scheduled in the meantime.
CronKeepsGoing ==
    \A r \in Rules :
       Schedulable(r) /\ obj[r].spec.schedule.type = "cron" ~>
          tasks[r] # NoTask \/ ~Schedulable(r)

-----------------------------------------------------------------------------
(* What documentation and comments say and the code does not do.           *)

\* "WHEN a rule is deleted THEN the controller SHALL remove all annotations
\* that were applied by that rule" (requirements.md:40).
CleanedUp == \A r \in Rules : obj[r] = NoRule => annotated[r] = {}

\* "WHEN the finish time of an ISO datetime rule is reached THEN the
\* controller SHALL remove the specified annotations" (requirements.md:38).
FinishTimeRemoves ==
    \A r \in Rules :
       /\ Schedulable(r) /\ obj[r].spec.schedule.endTime # NoTime
       /\ now >= obj[r].spec.schedule.endTime
       ~> ~Schedulable(r) \/ obj[r].spec.content \notin annotated[r]
=============================================================================
