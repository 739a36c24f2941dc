------------------------ MODULE RuleControllerProofs ------------------------
(***************************************************************************)
(* Proofs of the safety properties of RuleController, for every number of  *)
(* rules and workers and through any number of restarts.                   *)
(*                                                                         *)
(* Between restarts the controller is a client of the scheduler as any     *)
(* other: its steps are steps of TimeScheduler, whose invariants therefore *)
(* hold here too.  What is new is how far copies can be trusted.           *)
(***************************************************************************)
EXTENDS RuleController, TimeSchedulerProofs

-----------------------------------------------------------------------------
(* The inductive invariant.                                                *)

\* An execution is recorded with the time it began, which is never ahead of
\* the clock: ScheduleRule is only called as TimeScheduler expects.
Dated(o) == o = NoRule \/ (o \in RuleObject /\ o.status.last \in {NoTime} \cup 0..now)

DatesInv ==
    /\ \A r \in Rules : Dated(obj[r]) /\ Dated(cached[r])
    /\ Dated(rule)
    /\ \A w \in Workers : Dated(copy[w]) /\ began[w] \in 0..now

\* A worker is inside ExecuteTask exactly while the scheduler has it execute.
WorkersInv ==
    \A w \in Workers :
       /\ worker[w] \in {"acquire", "execute", "delete"} => job[w] # NoTask
       /\ worker[w] = "execute" <=> step[w] # "off"
       /\ step[w] = "put" => copy[w] # NoRule

\* The reconciler has a request and a copy of its rule where it needs them.
RequestInv ==
    /\ rec = "idle" <=> req = NoRule
    /\ rec \notin {"idle", "panic"} => rule # NoRule
    /\ rec \in {"idle", "panic"} => ~ruleFresh
    /\ rec \in {"delete", "cleanup", "unfinalize"} => rule.deleting
    /\ rec = "invalid" => ~validateRule(rule)

\* What a current copy of the reconciler has in common with the object; it
\* may itself have moved on in next and phase.
SameRule(o, p) ==
    /\ o.spec = p.spec /\ o.deleting = p.deleting /\ o.finalizer = p.finalizer
    /\ o.status.executions = p.status.executions

\* The copy of the request's rule is current, or the informer knows that it
\* is not: its event is under way or has enqueued the rule again.
CopyInv ==
    req # NoRule /\ rec # "panic" =>
       IF ruleFresh THEN fresh[req] /\ obj[req] # NoRule /\ SameRule(rule, obj[req])
                    ELSE ~fresh[req] \/ req \in pending

Finalized(r) == obj[r] # NoRule /\ obj[r].finalizer

\* However old a copy is: if it shows the finalizer and no deletion, then the
\* object has the finalizer.
FinalizerInv ==
    /\ \A r \in Rules :
          cached[r] # NoRule /\ cached[r].finalizer /\ ~cached[r].deleting
             => Finalized(r)
    /\ rec \in {"invalid", "schedule", "unscheduled", "next", "status"}
          => Finalized(req)
    /\ rec \in {"cleanup", "unfinalize"} => tasks[req] = NoTask

CtlInv ==
    /\ CtlTypeOK /\ SemaphoreBalanced /\ NoneBeforeStart
    /\ DatesInv /\ WorkersInv /\ RequestInv
    /\ FreshIsCurrent /\ CopyInv /\ FinalizerInv
    /\ ScheduledHasFinalizer /\ RuleNotForgotten

-----------------------------------------------------------------------------
(* The controller as a client of the scheduler.                            *)

\* What the reconciler passes to ScheduleRule is a rule of the scheduler's
\* interface, executed in the past if at all.
LEMMA ScheduleInputType ==
    ASSUME CtlInv, rec = "schedule"
    PROVE  scheduleInput \in RuleInput
<1>1. rule # NoRule /\ req # NoRule /\ req \in Rules
    BY DEF CtlInv, RequestInv, CtlTypeOK
<1>2. rule \in RuleObject /\ rule.status.last \in {NoTime} \cup 0..now
    BY <1>1 DEF CtlInv, DatesInv, Dated, CtlTypeOK
<1>3. rule.spec.schedule \in Schedules /\ rule.spec.content \in Contents
    BY <1>2 DEF RuleObject, RuleSpec
<1> QED
    BY <1>1, <1>2, <1>3 DEF scheduleInput, RuleInput

\* Every step but a restart is a step of the scheduler or leaves it alone.
LEMMA SchedulerSteps ==
    ASSUME CtlInv, [CtlNext]_allVars, ~Restart
    PROVE  [Next]_vars
<1>1. CASE \E r \in Rules :
             \/ \E s \in RuleSpecs : CreateRule(r, s) \/ EditRule(r, s)
             \/ DeleteRule(r) \/ TouchRule(r) \/ SyncInformer(r) \/ fetchRule(r)
    BY <1>1 DEF CreateRule, EditRule, DeleteRule, TouchRule, SyncInformer, fetchRule
<1>2. CASE \E r \in Rules : fetchRuleNotFound(r)
    BY <1>2 DEF fetchRuleNotFound, Next, ClientNext
<1>3. CASE scheduleRule
    BY <1>3, ScheduleInputType DEF scheduleRule, Next, ClientNext
<1>4. CASE handleDeletion
  <2>1. req \in Rules
    BY <1>4 DEF handleDeletion, CtlInv, RequestInv, CtlTypeOK
  <2> QED
    BY <1>4, <2>1 DEF handleDeletion, Next, ClientNext
<1>5. CASE \/ safeReconcile \/ ensureFinalizer \/ validateAndUpdateRuleOnFailure
           \/ validationStatusError \/ scheduleRuleError \/ updateFailedStatus
           \/ processNextExecutionTime \/ processNextExecutionTimeError
           \/ updateRuleStatus \/ cleanupRuleAnnotations
           \/ cleanupRuleAnnotationsError \/ removeFinalizer \/ updateError
    BY <1>5 DEF safeReconcile, ensureFinalizer, validateAndUpdateRuleOnFailure,
       validationStatusError, scheduleRuleError, updateFailedStatus,
       processNextExecutionTime, processNextExecutionTimeError, updateRuleStatus,
       cleanupRuleAnnotations, cleanupRuleAnnotationsError, removeFinalizer,
       updateError
<1>6. ASSUME NEW w \in Workers, ExecutorNext(w) PROVE [Next]_vars
    BY <1>6
    DEF ExecutorNext, ExecuteTask, executeApplyAction, executeRemoveAction, executed,
        statusGet, statusUpdate, statusUpdateFails, statusUpdateRetry, Retried,
        statusUpdateUnanswered, ExecuteTaskReturn, Next, SchedulerNext, WorkerNext
<1>7. ASSUME NEW w \in Workers, WorkerStep(w) PROVE [Next]_vars
    BY <1>7 DEF WorkerStep, Next, SchedulerNext, WorkerNext
<1>8. CASE LoopStep \/ StartScheduler \/ AdvanceClock \/ UNCHANGED allVars
    BY <1>8 DEF LoopStep, StartScheduler, allVars, Next, ClientNext, SchedulerNext,
       LoopNext, EnvNext
<1> QED
    BY <1>1, <1>2, <1>3, <1>4, <1>5, <1>6, <1>7, <1>8
    DEF CtlNext, ControllerNext, UserNext, ReconcileNext

\* A restart leaves the scheduler as NewTimeScheduler makes it.
LEMMA RestartScheduler ==
    ASSUME now \in Nat, Restart
    PROVE  TypeInv'
<1>1. TypeOK'
  <2>1. <<>> \in Seq(ScheduledTask)
    BY EmptySeq
  <2> QED
    BY <2>1, Zenon DEF Restart, TypeOK, LoopStates, WorkerStates
<1>2. {w \in Workers : worker[w] \in {"execute", "delete"}}' = {}
    BY DEF Restart
<1> QED
    BY <1>1, <1>2, FS_EmptySet DEF Restart, TypeInv, SemaphoreBalanced, NoneBeforeStart

LEMMA SchedulerInvStep ==
    ASSUME CtlInv, [CtlNext]_allVars
    PROVE  TypeInv'
<1>1. TypeInv /\ now \in Nat
    BY DEF CtlInv, CtlTypeOK, TypeInv, TypeOK
<1>2. CASE Restart
    BY <1>1, <1>2, RestartScheduler
<1>3. CASE ~Restart
    BY <1>1, <1>3, SchedulerSteps, TypeStep
<1> QED
    BY <1>2, <1>3

-----------------------------------------------------------------------------
(* Grouping of the actions: those of the clients and the reconciler leave  *)
(* the workers alone, those of the executor and the scheduler the          *)
(* reconciler.                                                             *)

ClientStep ==
    \E r \in Rules :
       \/ \E s \in RuleSpecs : CreateRule(r, s) \/ EditRule(r, s)
       \/ DeleteRule(r) \/ TouchRule(r)

WritingStep ==
    \/ ensureFinalizer \/ validateAndUpdateRuleOnFailure \/ updateFailedStatus
    \/ updateRuleStatus \/ removeFinalizer

SilentStep ==
    \/ safeReconcile \/ validationStatusError \/ scheduleRule \/ scheduleRuleError
    \/ processNextExecutionTime \/ processNextExecutionTimeError \/ handleDeletion
    \/ cleanupRuleAnnotations \/ cleanupRuleAnnotationsError \/ updateError

FetchStep == \E r \in Rules : fetchRule(r) \/ fetchRuleNotFound(r)

OwnStep ==
    \/ LoopStep \/ StartScheduler \/ (AdvanceClock /\ UNCHANGED ctlVars)
    \/ \E w \in Workers : WorkerStep(w)

\* The status update that the API server accepts, answered or not.
Recording(w) == statusUpdate(w) \/ statusUpdateUnanswered(w)

LEMMA CtlCases ==
    ASSUME [CtlNext]_allVars
    PROVE  \/ ClientStep \/ FetchStep \/ SilentStep \/ WritingStep \/ OwnStep
           \/ Restart \/ UNCHANGED allVars
           \/ \E r \in Rules : SyncInformer(r)
           \/ \E w \in Workers : ExecutorNext(w)
BY DEF CtlNext, ControllerNext, UserNext, ReconcileNext, ClientStep, FetchStep,
   SilentStep, WritingStep, OwnStep

\* Clients write to the API server only.
LEMMA ClientFrame ==
    ASSUME ClientStep
    PROVE  UNCHANGED <<vars, cached, annotated, pending, rec, req, rule, step, began,
                       success, copy, attempt>>
BY DEF ClientStep, CreateRule, EditRule, DeleteRule, TouchRule

\* The reconciler does not touch the workers, nor what they hold.
LEMMA ReconcilerFrame ==
    ASSUME FetchStep \/ SilentStep \/ WritingStep
    PROVE  UNCHANGED <<now, worker, job, loop, cached, step, began, success, copy,
                       attempt>>
<1>1. CASE FetchStep
    BY <1>1 DEF FetchStep, fetchRule, fetchRuleNotFound, UnscheduleRule, vars, schedVars,
       apiVars, execVars
<1>2. CASE SilentStep
    BY <1>2 DEF SilentStep, safeReconcile, validationStatusError, scheduleRule,
       scheduleRuleError, processNextExecutionTime, processNextExecutionTimeError,
       handleDeletion, cleanupRuleAnnotations, cleanupRuleAnnotationsError,
       updateError, ScheduleRule, UnscheduleRule, vars, schedVars, apiVars, execVars
<1>3. CASE WritingStep
    BY <1>3 DEF WritingStep, ensureFinalizer, validateAndUpdateRuleOnFailure,
       updateFailedStatus, updateRuleStatus, removeFinalizer, vars, schedVars
<1> QED
    BY <1>1, <1>2, <1>3

\* The scheduler's goroutines touch no rule.
LEMMA OwnFrame ==
    ASSUME OwnStep
    PROVE  UNCHANGED ctlVars
BY DEF OwnStep, LoopStep, StartScheduler, WorkerStep

\* Nor do fetches and silent steps.
LEMMA SilentFrame ==
    ASSUME FetchStep \/ SilentStep
    PROVE  UNCHANGED <<obj, cached, fresh, copyFresh>>
<1>1. CASE FetchStep
    BY <1>1 DEF FetchStep, fetchRule, fetchRuleNotFound, apiVars, execVars
<1>2. CASE SilentStep
    BY <1>2 DEF SilentStep, safeReconcile, validationStatusError, scheduleRule,
       scheduleRuleError, processNextExecutionTime, processNextExecutionTimeError,
       handleDeletion, cleanupRuleAnnotations, cleanupRuleAnnotationsError,
       updateError, apiVars, execVars
<1> QED
    BY <1>1, <1>2

-----------------------------------------------------------------------------
(* The invariant is preserved, part by part.                               *)

LEMMA WorkersStep ==
    ASSUME CtlInv, [CtlNext]_allVars
    PROVE  WorkersInv'
<1> USE DEF WorkersInv
<1>0. WorkersInv /\ TypeOK /\ NoneBeforeStart
    BY DEF CtlInv, CtlTypeOK
<1>1. CASE ClientStep \/ FetchStep \/ SilentStep \/ WritingStep
    BY <1>0, <1>1, ClientFrame, ReconcilerFrame DEF vars, schedVars
<1>2. CASE OwnStep
  <2>1. UNCHANGED <<step, copy>>
    BY <1>2, OwnFrame DEF ctlVars, execVars
  <2>2. CASE LoopStep \/ (AdvanceClock /\ UNCHANGED ctlVars)
    BY <1>0, <2>1, <2>2 DEF LoopStep, LoopTick, CheckTasks, QueueTask, AdvanceClock,
       schedVars
  <2>3. CASE StartScheduler
    BY <1>0, <2>1, <2>3 DEF StartScheduler, Start, NoneBeforeStart, TypeOK
  <2>4. ASSUME NEW w \in Workers, WorkerStep(w) PROVE WorkersInv'
    <3>1. CASE WorkerTake(w)
      <4>1. Head(taskQueue) \in ScheduledTask
        BY <1>0, <3>1, HeadTailProperties DEF WorkerTake, TypeOK
      <4>2. Head(taskQueue) # NoTask
        BY <4>1, NoTaskAssumption
      <4> QED
        BY <1>0, <2>1, <3>1, <4>2 DEF WorkerTake, TypeOK
    <3>2. CASE DeleteTask(w)
      BY <1>0, <2>1, <3>2 DEF DeleteTask, TypeOK
    <3> QED
      BY <2>4, <3>1, <3>2 DEF WorkerStep
  <2> QED
    BY <1>2, <2>2, <2>3, <2>4 DEF OwnStep
<1>3. CASE Restart
    BY <1>3 DEF Restart
<1>4. ASSUME NEW r \in Rules, SyncInformer(r) PROVE WorkersInv'
    BY <1>0, <1>4 DEF SyncInformer, vars, schedVars, execVars
<1>5. ASSUME NEW w \in Workers, ExecutorNext(w) PROVE WorkersInv'
  <2>0. /\ worker \in [Workers -> WorkerStates]
        /\ step \in [Workers -> {"off", "run", "get", "put"}]
        /\ copy \in [Workers -> RuleObject \cup {NoRule}]
    BY DEF CtlInv, CtlTypeOK, TypeOK
  <2>1. CASE ExecuteTask(w)
    BY <1>0, <2>0, <2>1 DEF ExecuteTask, AcquireSemaphore
  <2>2. ASSUME NEW ok \in BOOLEAN, executed(w, ok) PROVE WorkersInv'
    BY <1>0, <2>0, <2>2 DEF executed, vars, schedVars
  <2>3. CASE statusGet(w)
    BY <1>0, <2>0, <2>3 DEF statusGet, vars, schedVars
  <2>4. CASE ExecuteTaskReturn(w)
    BY <1>0, <2>0, <2>4 DEF ExecuteTaskReturn, ExecuteReturn
  <2>5. CASE statusUpdateRetry(w) \/ statusUpdateUnanswered(w)
    BY <1>0, <2>0, <2>5 DEF statusUpdateRetry, statusUpdateUnanswered, Retried, vars,
       schedVars
  <2> QED
    BY <1>5, <2>1, <2>2, <2>3, <2>4, <2>5 DEF ExecutorNext, executeApplyAction,
       executeRemoveAction, statusUpdate, statusUpdateFails
<1>6. CASE UNCHANGED allVars
    BY <1>0, <1>6 DEF allVars, vars, schedVars, ctlVars, execVars
<1> QED
    BY <1>1, <1>2, <1>3, <1>4, <1>5, <1>6, CtlCases

-----------------------------------------------------------------------------
(* Types and dates.                                                        *)

\* The types of the controller's own variables.
DataOK ==
    /\ obj \in [Rules -> RuleObject \cup {NoRule}]
    /\ fresh \in [Rules -> BOOLEAN]
    /\ ruleFresh \in BOOLEAN
    /\ copyFresh \in [Workers -> BOOLEAN]
    /\ \A r \in Rules : Dated(obj[r])

LEMMA StoredData ==
    ASSUME CtlInv, NEW r \in Rules, NEW o, Dated(o), Stored(r, o), now' = now
    PROVE  DataOK'
<1>1. /\ obj \in [Rules -> RuleObject \cup {NoRule}] /\ fresh \in [Rules -> BOOLEAN]
      /\ ruleFresh \in BOOLEAN /\ copyFresh \in [Workers -> BOOLEAN]
      /\ \A q \in Rules : Dated(obj[q])
    BY DEF CtlInv, CtlTypeOK, DatesInv
<1>2. o \in RuleObject \cup {NoRule}
    BY DEF Dated
<1>3. obj' \in [Rules -> RuleObject \cup {NoRule}] /\ fresh' \in [Rules -> BOOLEAN]
    BY <1>1, <1>2 DEF Stored
<1>4. ruleFresh' \in BOOLEAN
    BY <1>1, Zenon DEF Stored
<1>5. copyFresh' \in [Workers -> BOOLEAN]
    BY <1>1, Zenon DEF Stored
<1>6. \A q \in Rules : Dated(obj[q])'
    BY <1>1, <1>2 DEF Stored, Dated
<1> QED
    BY <1>3, <1>4, <1>5, <1>6 DEF DataOK

\* A dated object stays one when a part is replaced.
LEMMA DatedParts ==
    ASSUME NEW o, o # NoRule, Dated(o)
    PROVE  /\ \A s \in RuleSpec : Dated([o EXCEPT !.spec = s])
           /\ Dated([o EXCEPT !.deleting = TRUE])
           /\ \A s \in RuleStatus : s.last \in {NoTime} \cup 0..now =>
                 /\ Dated([o EXCEPT !.status = s])
                 /\ Dated([o EXCEPT !.finalizer = TRUE, !.status = s])
           /\ \A ph \in Phases : /\ [o.status EXCEPT !.phase = ph] \in RuleStatus
                                 /\ [o.status EXCEPT !.phase = ph].last = o.status.last
BY DEF Dated, RuleObject, RuleStatus

\* WriteStatus stores a dated object or nothing.
LEMMA WriteStatusData ==
    ASSUME CtlInv, req \in Rules, obj[req] # NoRule, NEW status \in RuleStatus,
           status.last \in {NoTime} \cup 0..now, WriteStatus(status),
           now' = now, ruleFresh' \in BOOLEAN
    PROVE  DataOK'
<1>1. Dated(obj[req])
    BY DEF CtlInv, DatesInv
<1>2. Dated([obj[req] EXCEPT !.status = status])
    BY <1>1, DatedParts
<1>3. CASE Stored(req, [obj[req] EXCEPT !.status = status])
    BY <1>2, <1>3, StoredData
<1>4. CASE Unwritten
    BY <1>4 DEF Unwritten, DataOK, CtlInv, CtlTypeOK, DatesInv, Dated
<1> QED
    BY <1>3, <1>4 DEF WriteStatus

\* What the reconciler holds while it works on a request.
LEMMA RequestFacts ==
    ASSUME CtlInv, rec \notin {"idle", "panic"}
    PROVE  /\ req \in Rules /\ req # NoRule
           /\ rule \in RuleObject /\ rule # NoRule /\ Dated(rule)
           /\ ruleFresh => /\ obj[req] \in RuleObject /\ obj[req] # NoRule
                           /\ Dated(obj[req]) /\ fresh[req] /\ SameRule(rule, obj[req])
           /\ ~ruleFresh => ~fresh[req] \/ req \in pending
BY DEF CtlInv, CtlTypeOK, RequestInv, CopyInv, DatesInv

\* What a worker holds in ExecuteTask.
LEMMA ExecutionFacts ==
    ASSUME CtlInv, NEW w \in Workers, step[w] # "off"
    PROVE  /\ worker[w] = "execute" /\ job[w] # NoTask
           /\ job[w] \in ScheduledTask /\ job[w].ruleID \in Rules
           /\ copyFresh[w] => /\ copy[w] = obj[job[w].ruleID] /\ copy[w] # NoRule
                              /\ copy[w] \in RuleObject
                              /\ executedStatus(w) \in RuleStatus
                              /\ executedStatus(w).last \in {NoTime} \cup 0..now
                              /\ executedStatus(w).executions = copy[w].status.executions + 1
<1>1. worker[w] = "execute" /\ job[w] # NoTask
    BY DEF CtlInv, WorkersInv
<1>2. job[w] \in ScheduledTask /\ job[w].ruleID \in Rules
    BY <1>1 DEF CtlInv, CtlTypeOK, TypeOK, ScheduledTask
<1>3. ASSUME copyFresh[w]
      PROVE  /\ copy[w] = obj[job[w].ruleID] /\ copy[w] # NoRule /\ copy[w] \in RuleObject
             /\ executedStatus(w) \in RuleStatus
             /\ executedStatus(w).last \in {NoTime} \cup 0..now
             /\ executedStatus(w).executions = copy[w].status.executions + 1
  <2>1. copy[w] = obj[job[w].ruleID] /\ copy[w] # NoRule /\ copy[w] \in RuleObject
    BY <1>3 DEF CtlInv, CtlTypeOK, FreshIsCurrent
  <2>2. copy[w].status \in RuleStatus
    BY <2>1 DEF RuleObject
  <2>3. began[w] \in 0..now /\ began[w] \in Nat /\ success[w] \in BOOLEAN
    BY DEF CtlInv, CtlTypeOK, DatesInv
  <2> DEFINE s == copy[w].status
             ok == IF success[w] THEN s.successful + 1 ELSE s.successful
             ko == IF success[w] THEN s.failed ELSE s.failed + 1
             s1 == [s EXCEPT !.last = began[w]]
             s2 == [s1 EXCEPT !.executions = s.executions + 1]
             s3 == [s2 EXCEPT !.successful = ok]
             s4 == [s3 EXCEPT !.failed = ko]
  <2>4. executedStatus(w) = s4
    BY Zenon DEF executedStatus
  <2>5. s.executions + 1 \in Nat /\ ok \in Nat /\ ko \in Nat
    BY <2>2 DEF RuleStatus
  <2> HIDE DEF ok, ko
  <2>6. s1 \in RuleStatus /\ s1.last = began[w]
    BY <2>2, <2>3 DEF RuleStatus, OptTime
  <2> HIDE DEF s1
  <2>7. s2 \in RuleStatus /\ s2.last = began[w] /\ s2.executions = s.executions + 1
    BY <2>5, <2>6 DEF RuleStatus
  <2> HIDE DEF s2
  <2>8. s3 \in RuleStatus /\ s3.last = began[w] /\ s3.executions = s.executions + 1
    BY <2>5, <2>7 DEF RuleStatus
  <2> HIDE DEF s3
  <2>9. s4 \in RuleStatus /\ s4.last = began[w] /\ s4.executions = s.executions + 1
    BY <2>5, <2>8 DEF RuleStatus
  <2> HIDE DEF s4
  <2> QED
    BY <2>1, <2>3, <2>4, <2>9
<1> QED
    BY <1>1, <1>2, <1>3

LEMMA ObjectsStep ==
    ASSUME CtlInv, [CtlNext]_allVars
    PROVE  DataOK'
<1>0. DataOK /\ now \in Nat
    BY DEF CtlInv, CtlTypeOK, TypeOK, DatesInv, DataOK
<1>1. CASE ClientStep
  <2>0. now' = now
    BY <1>1, ClientFrame DEF vars
  <2>1. ASSUME NEW r \in Rules, NEW s \in RuleSpecs, CreateRule(r, s) PROVE DataOK'
    <3> DEFINE o == [spec |-> s, deleting |-> FALSE, finalizer |-> FALSE, status |-> NewStatus]
    <3>1. Dated(o)
      BY ControllerAssumption DEF Dated, RuleObject, RuleStatus, NewStatus, OptTime, Phases
    <3>2. Stored(r, o)
      BY <2>1 DEF CreateRule
    <3> QED
      BY <2>0, <3>1, <3>2, StoredData
  <2>2. ASSUME NEW r \in Rules, NEW s \in RuleSpecs, EditRule(r, s) PROVE DataOK'
    <3>1. obj[r] # NoRule /\ Dated(obj[r]) /\ s \in RuleSpec
      BY <1>0, <2>2, ControllerAssumption DEF EditRule, DataOK
    <3>2. Dated([obj[r] EXCEPT !.spec = s]) /\ Stored(r, [obj[r] EXCEPT !.spec = s])
      BY <2>2, <3>1, DatedParts DEF EditRule
    <3> QED
      BY <2>0, <3>2, StoredData
  <2>3. ASSUME NEW r \in Rules, DeleteRule(r) PROVE DataOK'
    <3>1. obj[r] # NoRule /\ Dated(obj[r])
      BY <1>0, <2>3 DEF DeleteRule, DataOK
    <3>2. Dated([obj[r] EXCEPT !.deleting = TRUE]) /\ Dated(NoRule)
      BY <3>1, DatedParts DEF Dated
    <3> QED
      BY <2>0, <2>3, <3>2, StoredData DEF DeleteRule
  <2>4. ASSUME NEW r \in Rules, TouchRule(r) PROVE DataOK'
    BY <1>0, <2>0, <2>4, StoredData DEF TouchRule, DataOK
  <2> QED
    BY <1>1, <2>1, <2>2, <2>3, <2>4 DEF ClientStep
<1>2. CASE FetchStep \/ SilentStep
  <2>1. ruleFresh' \in BOOLEAN
    <3>1. CASE FetchStep
      BY <1>0, <3>1 DEF FetchStep, fetchRule, fetchRuleNotFound, DataOK
    <3>2. CASE SilentStep
      BY <1>0, <3>2 DEF SilentStep, safeReconcile, validationStatusError, scheduleRule,
         scheduleRuleError, processNextExecutionTime, processNextExecutionTimeError,
         handleDeletion, cleanupRuleAnnotations, cleanupRuleAnnotationsError,
         updateError, Return, DataOK
    <3> QED
      BY <1>2, <3>1, <3>2
  <2> QED
    BY <1>0, <1>2, <2>1, SilentFrame, ReconcilerFrame DEF DataOK, Dated
<1>3. CASE WritingStep
  <2>0. now' = now
    BY <1>3, ReconcilerFrame
  <2>1. CASE ensureFinalizer
    <3>1. req \in Rules /\ Dated(rule) /\ rule # NoRule /\ obj[req].status \in RuleStatus
          /\ obj[req].status.last \in {NoTime} \cup 0..now
      BY <2>1, RequestFacts DEF ensureFinalizer, Dated, RuleObject
    <3>2. Dated([rule EXCEPT !.finalizer = TRUE, !.status = obj[req].status])
      BY <3>1, DatedParts
    <3> QED
      BY <2>0, <2>1, <3>1, <3>2, StoredData DEF ensureFinalizer
  <2>2. ASSUME NEW s \in RuleStatus, s.last \in {NoTime} \cup 0..now,
               rec \notin {"idle", "panic"}, WriteStatus(s), ruleFresh' = FALSE
        PROVE  DataOK'
    <3>1. ruleFresh /\ req \in Rules /\ obj[req] # NoRule
      BY <2>2, RequestFacts DEF WriteStatus
    <3> QED
      BY <2>0, <2>2, <3>1, WriteStatusData
  <2>3. CASE validateAndUpdateRuleOnFailure \/ updateFailedStatus
    <3>1. rec \notin {"idle", "panic"} /\ ruleFresh' = FALSE
          /\ WriteStatus([rule.status EXCEPT !.phase = "failed"])
      BY <2>3 DEF validateAndUpdateRuleOnFailure, updateFailedStatus, Return
    <3>2. [rule.status EXCEPT !.phase = "failed"] \in RuleStatus
          /\ [rule.status EXCEPT !.phase = "failed"].last \in {NoTime} \cup 0..now
      BY <3>1, RequestFacts, DatedParts DEF Phases, Dated
    <3> QED
      BY <2>2, <3>1, <3>2
  <2>4. CASE updateRuleStatus
    <3>1. rec \notin {"idle", "panic"} /\ ruleFresh' = FALSE /\ WriteStatus(rule.status)
      BY <2>4 DEF updateRuleStatus, Return
    <3>2. rule.status \in RuleStatus /\ rule.status.last \in {NoTime} \cup 0..now
      BY <3>1, RequestFacts DEF Dated, RuleObject
    <3> QED
      BY <2>2, <3>1, <3>2
  <2>5. CASE removeFinalizer
    <3>1. req \in Rules /\ Dated(NoRule)
      BY <2>5, RequestFacts DEF removeFinalizer, Dated
    <3> QED
      BY <2>0, <2>5, <3>1, StoredData DEF removeFinalizer
  <2> QED
    BY <1>3, <2>1, <2>3, <2>4, <2>5 DEF WritingStep
<1>4. CASE OwnStep
  <2>1. UNCHANGED <<obj, fresh, ruleFresh, copyFresh>>
    BY <1>4, OwnFrame DEF ctlVars, apiVars, recVars, execVars
  <2>2. now' \in {now, now + 1}
    BY <1>4 DEF OwnStep, LoopStep, LoopTick, CheckTasks, QueueTask, StartScheduler, Start,
       WorkerStep, WorkerTake, DeleteTask, AdvanceClock
  <2>3. 0..now \subseteq 0..now'
    BY <1>0, <2>2
  <2> QED
    BY <1>0, <2>1, <2>3 DEF DataOK, Dated
<1>5. CASE Restart
    BY <1>0, <1>5 DEF Restart, Return, DataOK, Dated
<1>6. ASSUME NEW r \in Rules, SyncInformer(r) PROVE DataOK'
    BY <1>0, <1>6 DEF SyncInformer, vars, execVars, DataOK, Dated
<1>7. ASSUME NEW w \in Workers, ExecutorNext(w) PROVE DataOK'
  <2>1. CASE Recording(w)
    <3>1. step[w] # "off" /\ copyFresh[w]
      BY <2>1 DEF Recording, statusUpdate, statusUpdateUnanswered
    <3> DEFINE r == job[w].ruleID
    <3>2. r \in Rules /\ obj[r] # NoRule
      BY <3>1, ExecutionFacts
    <3>3. Dated(obj[r])
      BY <1>0, <3>2 DEF DataOK
    <3>4. Dated([obj[r] EXCEPT !.status = executedStatus(w)])
      BY <3>1, <3>2, <3>3, ExecutionFacts, DatedParts
    <3>5. now' = now
      BY <2>1 DEF Recording, statusUpdate, statusUpdateUnanswered, ExecuteTaskReturn,
         ExecuteReturn, vars
    <3> QED
      BY <2>1, <3>2, <3>4, <3>5, StoredData
      DEF Recording, statusUpdate, statusUpdateUnanswered
  <2>2. CASE statusGet(w)
    <3>1. fresh[job[w].ruleID] \in BOOLEAN
      BY <1>0, <2>2, ExecutionFacts DEF statusGet, DataOK
    <3> QED
      BY <1>0, <2>2, <3>1 DEF statusGet, vars, apiVars, recVars, DataOK, Dated
  <2>3. CASE ExecuteTask(w)
    BY <1>0, <2>3
    DEF ExecuteTask, AcquireSemaphore, apiVars, recVars, DataOK, Dated
  <2>5. CASE statusUpdateFails(w) \/ statusUpdateRetry(w)
    <3>1. /\ UNCHANGED <<now, obj, cached, fresh, rule, ruleFresh>>
          /\ copyFresh' = [copyFresh EXCEPT ![w] = FALSE]
      BY <2>5
      DEF statusUpdateFails, statusUpdateRetry, ExecuteTaskReturn, ExecuteReturn, vars,
          apiVars, recVars
    <3> QED
      BY <1>0, <3>1 DEF DataOK, Dated
  <2>4. ASSUME NEW ok \in BOOLEAN, executed(w, ok) PROVE DataOK'
    BY <1>0, <2>4 DEF executed, vars, recVars, DataOK, Dated
  <2> QED
    BY <1>7, <2>1, <2>2, <2>3, <2>4, <2>5
    DEF ExecutorNext, Recording, executeApplyAction, executeRemoveAction
<1>8. CASE UNCHANGED allVars
    BY <1>0, <1>8 DEF allVars, vars, ctlVars, apiVars, recVars, execVars, DataOK, Dated
<1> QED
    BY <1>1, <1>2, <1>3, <1>4, <1>5, <1>6, <1>7, <1>8, CtlCases

\* The informer's copies, the contents on the workloads and the queue.
SharedOK ==
    /\ cached \in [Rules -> RuleObject \cup {NoRule}]
    /\ \A r \in Rules : Dated(cached[r])
    /\ annotated \in [Rules -> SUBSET Contents]
    /\ pending \subseteq Rules

\* The reconciler's locals.
ReconcilerOK ==
    /\ rec \in RecStates /\ req \in Rules \cup {NoRule}
    /\ rule \in RuleObject \cup {NoRule} /\ Dated(rule)

\* The workers' locals.
ExecutorsOK ==
    /\ step \in [Workers -> {"off", "run", "get", "put"}]
    /\ began \in [Workers -> Nat] /\ success \in [Workers -> BOOLEAN]
    /\ copy \in [Workers -> RuleObject \cup {NoRule}]
    /\ attempt \in [Workers -> 0..MaxRetries]
    /\ \A w \in Workers : Dated(copy[w]) /\ began[w] \in 0..now

LEMMA LocalsOK ==
    ASSUME CtlInv
    PROVE  SharedOK /\ ReconcilerOK /\ ExecutorsOK /\ now \in Nat
BY DEF CtlInv, CtlTypeOK, TypeOK, DatesInv, SharedOK, ReconcilerOK, ExecutorsOK

\* The clock only advances, and what was dated stays so.
LEMMA ClockStep ==
    ASSUME CtlInv, [CtlNext]_allVars
    PROVE  /\ now' \in Nat /\ 0..now \subseteq 0..now'
           /\ \A o : Dated(o) => (o = NoRule \/ (o \in RuleObject
                                     /\ o.status.last \in {NoTime} \cup 0..now'))
<1>1. now \in Nat
    BY LocalsOK
<1>2. now' = now \/ now' = now + 1
  <2>1. CASE Restart
    BY <2>1 DEF Restart
  <2>2. CASE ~Restart
    <3>1. [Next]_vars
      BY <2>2, SchedulerSteps
    <3> QED
      BY <3>1 DEF Next, vars, schedVars, ClientNext, SchedulerNext,
         EnvNext, ScheduleRule, UnscheduleRule, Start, Stop, StopReturn, LoopNext,
         LoopTick, LoopExit, CheckTasks, QueueTask, WorkerNext, WorkerTake, WorkerExit,
         AcquireSemaphore, AbandonTask, ExecuteReturn, DeleteTask, AdvanceClock,
         CancelContext
  <2> QED
    BY <2>1, <2>2
<1>3. now' \in Nat /\ 0..now \subseteq 0..now'
    BY <1>1, <1>2
<1> QED
    BY <1>3 DEF Dated

LEMMA SharedStep ==
    ASSUME CtlInv, [CtlNext]_allVars
    PROVE  SharedOK'
<1>0. SharedOK /\ DataOK
    BY LocalsOK DEF CtlInv, CtlTypeOK, DatesInv, DataOK
<1> USE DEF SharedOK
<1>d. \A o : Dated(o) => Dated(o)'
    BY ClockStep DEF Dated
<1>1. ASSUME UNCHANGED <<cached, annotated>>, pending' \subseteq Rules PROVE SharedOK'
    BY <1>0, <1>d, <1>1 DEF Dated
<1>2. CASE ClientStep \/ OwnStep \/ UNCHANGED allVars
    BY <1>0, <1>1, <1>2, ClientFrame, OwnFrame DEF allVars, ctlVars, apiVars, recVars
<1>3. CASE FetchStep
    BY <1>0, <1>1, <1>3 DEF FetchStep, fetchRule, fetchRuleNotFound, apiVars
<1>4. CASE WritingStep
  <2>1. req \in Rules
    BY <1>4, RequestFacts DEF WritingStep, ensureFinalizer, validateAndUpdateRuleOnFailure,
       updateFailedStatus, updateRuleStatus, removeFinalizer
  <2>2. UNCHANGED <<cached, annotated>> /\ pending' \subseteq Rules
    BY <1>0, <1>4, <2>1 DEF WritingStep, ensureFinalizer, validateAndUpdateRuleOnFailure,
       updateFailedStatus, updateRuleStatus, removeFinalizer, Requeue
  <2> QED
    BY <1>1, <2>2
<1>5. CASE SilentStep
  <2>1. req \in Rules
    BY <1>5 DEF SilentStep, safeReconcile, validationStatusError, scheduleRule,
       scheduleRuleError, processNextExecutionTime, processNextExecutionTimeError,
       handleDeletion, cleanupRuleAnnotations, cleanupRuleAnnotationsError,
       updateError, CtlInv, CtlTypeOK, RequestInv
  <2>2. pending' \subseteq Rules
    BY <1>0, <1>5, <2>1 DEF SilentStep, safeReconcile, validationStatusError, scheduleRule,
       scheduleRuleError, processNextExecutionTime, processNextExecutionTimeError,
       handleDeletion, cleanupRuleAnnotations, cleanupRuleAnnotationsError,
       updateError, Requeue
  <2>3. CASE cleanupRuleAnnotations \/ cleanupRuleAnnotationsError
    <3>1. cleanedUp \in [Rules -> SUBSET Contents]
      BY <1>0, <2>1 DEF cleanedUp
    <3>2. annotated' \in [Rules -> SUBSET Contents] /\ cached' = cached
      BY <1>0, <2>3, <3>1 DEF cleanupRuleAnnotations, cleanupRuleAnnotationsError
    <3> QED
      BY <1>0, <1>d, <2>2, <3>2 DEF Dated
  <2>4. CASE ~(cleanupRuleAnnotations \/ cleanupRuleAnnotationsError)
    <3>1. UNCHANGED <<cached, annotated>>
      BY <1>5, <2>4 DEF SilentStep, safeReconcile, validationStatusError, scheduleRule,
         scheduleRuleError, processNextExecutionTime, processNextExecutionTimeError,
         handleDeletion, updateError, apiVars
    <3> QED
      BY <1>1, <2>2, <3>1
  <2> QED
    BY <2>3, <2>4
<1>6. CASE Restart
    BY <1>0, <1>d, <1>6 DEF Restart, DataOK
<1>7. ASSUME NEW r \in Rules, SyncInformer(r) PROVE SharedOK'
  <2>1. Dated(obj[r]) /\ obj[r] \in RuleObject \cup {NoRule}
    BY <1>0 DEF DataOK
  <2>2. cached' \in [Rules -> RuleObject \cup {NoRule}]
    BY <1>0, <1>7, <2>1 DEF SyncInformer
  <2>3. \A q \in Rules : cached'[q] \in {cached[q], obj[r]}
    BY <1>0, <1>7 DEF SyncInformer
  <2>4. \A q \in Rules : Dated(cached[q])'
    BY <1>0, <1>d, <2>1, <2>3
  <2> QED
    BY <1>0, <1>7, <2>2, <2>4 DEF SyncInformer
<1>8. ASSUME NEW w \in Workers, ExecutorNext(w) PROVE SharedOK'
  <2>1. CASE ExecuteTask(w) \/ statusGet(w) \/ statusUpdate(w) \/ statusUpdateFails(w)
             \/ statusUpdateRetry(w) \/ statusUpdateUnanswered(w)
    BY <1>0, <1>1, <2>1 DEF ExecuteTask, statusGet, statusUpdate, statusUpdateFails,
       statusUpdateRetry, Retried, statusUpdateUnanswered, apiVars, recVars
  <2>2. ASSUME NEW ok \in BOOLEAN, executeApplyAction(w, ok) \/ executeRemoveAction(w, ok)
        PROVE  SharedOK'
    <3> DEFINE t == job[w]
               with == [annotated EXCEPT ![t.ruleID] = @ \cup {t.content}]
               without == [annotated EXCEPT ![t.ruleID] = @ \ {t.content}]
    <3>1. step[w] # "off"
      BY <2>2 DEF executeApplyAction, executeRemoveAction, executed
    <3>2. t.ruleID \in Rules /\ t.content \in Contents
      BY <3>1, ExecutionFacts DEF ScheduledTask
    <3>3. /\ with \in [Rules -> SUBSET Contents]
          /\ without \in [Rules -> SUBSET Contents]
      BY <1>0, <3>2
    <3>4. annotated' \in {annotated, with, without}
      BY <2>2 DEF executeApplyAction, executeRemoveAction
    <3>5. annotated' \in [Rules -> SUBSET Contents]
      BY <1>0, <3>3, <3>4
    <3>6. UNCHANGED <<cached, pending>>
      BY <2>2 DEF executeApplyAction, executeRemoveAction, executed, recVars
    <3> QED
      BY <1>0, <1>d, <3>5, <3>6 DEF Dated
  <2> QED
    BY <1>8, <2>1, <2>2 DEF ExecutorNext
<1> QED
    BY <1>2, <1>3, <1>4, <1>5, <1>6, <1>7, <1>8, CtlCases

\* The object as processNextExecutionTime leaves it.
LEMMA NextStatus ==
    ASSUME CtlInv, processNextExecutionTime
    PROVE  /\ rule' \in RuleObject /\ rule'.status.last \in {NoTime} \cup 0..now
           /\ SameRule(rule', rule)
<1>1. /\ rule \in RuleObject /\ rule.status.last \in {NoTime} \cup 0..now
      /\ req \in Rules /\ tasks[req] # NoTask
    BY RequestFacts DEF processNextExecutionTime, Dated
<1>2. tasks[req] \in ScheduledTask
    BY <1>1 DEF CtlInv, CtlTypeOK, TypeOK
<1> DEFINE at == tasks[req].executeAt
           ph == IF rule.status.phase \in {"", "pending"} THEN "active" ELSE rule.status.phase
           p == [rule EXCEPT !.status.next = at]
<1>3. at \in Nat /\ ph \in Phases /\ rule' = [p EXCEPT !.status.phase = ph]
    BY <1>1, <1>2
    DEF processNextExecutionTime, ScheduledTask, RuleObject, RuleStatus, Phases
<1> HIDE DEF at, ph
<1>4. p \in RuleObject /\ p.status.last = rule.status.last /\ SameRule(p, rule)
    BY <1>1, <1>3 DEF RuleObject, RuleStatus, OptTime, SameRule
<1> HIDE DEF p
<1>5. /\ [p EXCEPT !.status.phase = ph] \in RuleObject
      /\ [p EXCEPT !.status.phase = ph].status.last = p.status.last
      /\ SameRule([p EXCEPT !.status.phase = ph], p)
    BY <1>3, <1>4 DEF RuleObject, RuleStatus, SameRule
<1> QED
    BY <1>1, <1>3, <1>4, <1>5 DEF SameRule

\* Where the reconciler goes, and with what.
LEMMA ReconcilerStep ==
    ASSUME CtlInv, [CtlNext]_allVars
    PROVE  ReconcilerOK' /\ RequestInv'
<1>0. SharedOK /\ ReconcilerOK /\ RequestInv /\ DataOK
    BY LocalsOK DEF CtlInv, CtlTypeOK, DatesInv, DataOK
<1>d. \A o : Dated(o) => Dated(o)'
    BY ClockStep DEF Dated
<1>r. ASSUME Return PROVE ReconcilerOK' /\ RequestInv'
    BY <1>r DEF Return, ReconcilerOK, RequestInv, RecStates, Dated
<1>1. ASSUME UNCHANGED <<rec, req, rule>>,
             ruleFresh' => ruleFresh
      PROVE  ReconcilerOK' /\ RequestInv'
    BY <1>0, <1>d, <1>1 DEF ReconcilerOK, RequestInv, validateRule, Dated
<1>2. CASE ClientStep \/ OwnStep \/ UNCHANGED allVars
  <2>1. UNCHANGED <<rec, req, rule>>
    BY <1>2, ClientFrame, OwnFrame DEF allVars, ctlVars, recVars
  <2>2. ruleFresh' => ruleFresh
    BY <1>2, OwnFrame DEF ClientStep, CreateRule, EditRule, DeleteRule, TouchRule, Stored,
       allVars, ctlVars, recVars
  <2> QED
    BY <1>1, <2>1, <2>2
<1>3. ASSUME NEW r \in Rules, fetchRule(r) PROVE ReconcilerOK' /\ RequestInv'
  <2>1. cached[r] # NoRule /\ cached[r] \in RuleObject /\ Dated(cached[r]) /\ r # NoRule
    BY <1>0, <1>3, ControllerAssumption DEF fetchRule, SharedOK
  <2> QED
    BY <1>d, <1>3, <2>1 DEF fetchRule, ReconcilerOK, RequestInv, RecStates, validateRule
<1>4. ASSUME NEW r \in Rules, fetchRuleNotFound(r) PROVE ReconcilerOK' /\ RequestInv'
    BY <1>0, <1>d, <1>4, ControllerAssumption
    DEF fetchRuleNotFound, ReconcilerOK, RequestInv, RecStates, Dated
<1>5. CASE WritingStep
    BY <1>5, <1>r DEF WritingStep, ensureFinalizer, validateAndUpdateRuleOnFailure,
       updateFailedStatus, updateRuleStatus, removeFinalizer
<1>6. CASE SilentStep
  <2>1. CASE safeReconcile \/ validationStatusError \/ processNextExecutionTimeError
             \/ cleanupRuleAnnotationsError \/ updateError
    BY <2>1, <1>r DEF safeReconcile, validationStatusError, processNextExecutionTimeError,
       cleanupRuleAnnotationsError, updateError
  <2>2. CASE scheduleRule \/ scheduleRuleError \/ handleDeletion \/ cleanupRuleAnnotations
    BY <1>0, <1>d, <2>2 DEF scheduleRule, scheduleRuleError, handleDeletion,
       cleanupRuleAnnotations, ReconcilerOK, RequestInv, RecStates, Dated
  <2>3. CASE processNextExecutionTime
    BY <1>0, <1>d, <2>3, NextStatus, ControllerAssumption
    DEF processNextExecutionTime, ReconcilerOK, RequestInv, RecStates, Dated
  <2> QED
    BY <1>6, <2>1, <2>2, <2>3 DEF SilentStep
<1>7. CASE Restart
    BY <1>7, <1>r DEF Restart
<1>8. ASSUME NEW r \in Rules, SyncInformer(r) PROVE ReconcilerOK' /\ RequestInv'
  <2>1. UNCHANGED <<rec, req, rule, ruleFresh>>
    BY <1>8 DEF SyncInformer
  <2>2. ruleFresh' => ruleFresh
    BY <2>1, Zenon
  <2> QED
    BY <1>1, <2>1, <2>2
<1>9. ASSUME NEW w \in Workers, ExecutorNext(w) PROVE ReconcilerOK' /\ RequestInv'
  <2>1. UNCHANGED <<rec, req, rule>>
    BY <1>9
    DEF ExecutorNext, ExecuteTask, executeApplyAction, executeRemoveAction, executed,
        statusGet, statusUpdate, statusUpdateFails, statusUpdateRetry, Retried,
        statusUpdateUnanswered, recVars
  <2>2. ruleFresh' => ruleFresh
    <3>1. CASE Recording(w)
      BY <3>1, Zenon DEF Recording, statusUpdate, statusUpdateUnanswered, Stored
    <3>2. CASE ~Recording(w)
      <4>1. ruleFresh' = ruleFresh
        BY <1>9, <3>2 DEF ExecutorNext, ExecuteTask, executeApplyAction,
           executeRemoveAction, executed, statusGet, statusUpdateFails,
           statusUpdateRetry, Retried, Recording, recVars
      <4> QED
        BY <4>1, Zenon
    <3> QED
      BY <3>1, <3>2
  <2> QED
    BY <1>1, <2>1, <2>2
<1> QED
    BY <1>2, <1>3, <1>4, <1>5, <1>6, <1>7, <1>8, <1>9, CtlCases DEF FetchStep

LEMMA ExecutorsStep ==
    ASSUME CtlInv, [CtlNext]_allVars
    PROVE  ExecutorsOK'
<1>0. SharedOK /\ ExecutorsOK /\ now \in Nat
    BY LocalsOK
<1>d. now' \in Nat /\ 0..now \subseteq 0..now' /\ (\A o : Dated(o) => Dated(o)')
    BY ClockStep DEF Dated
<1>1. ASSUME UNCHANGED <<step, began, success, copy, attempt>> PROVE ExecutorsOK'
    BY <1>0, <1>d, <1>1 DEF ExecutorsOK, Dated
<1>2. CASE ClientStep \/ FetchStep \/ SilentStep \/ WritingStep \/ OwnStep
           \/ UNCHANGED allVars \/ \E r \in Rules : SyncInformer(r)
    BY <1>1, <1>2, ClientFrame, ReconcilerFrame, OwnFrame
    DEF allVars, ctlVars, execVars, SyncInformer
<1>3. CASE Restart
  <2>1. 0 \in 0..now' /\ Dated(NoRule)' /\ 0 \in 0..MaxRetries
    BY <1>d, ControllerAssumption DEF Dated
  <2> QED
    BY <1>3, <2>1 DEF Restart, ExecutorsOK
<1>4. ASSUME NEW w \in Workers, ExecutorNext(w) PROVE ExecutorsOK'
  <2>0. 0 \in 0..now' /\ Dated(NoRule)' /\ 0 \in 0..MaxRetries /\ now \in 0..now
    BY <1>0, <1>d, ControllerAssumption DEF Dated
  <2> USE DEF ExecutorsOK
  <2>1. CASE ExecuteTask(w)
    BY <1>0, <1>d, <2>0, <2>1 DEF ExecuteTask
  <2>2. ASSUME NEW ok \in BOOLEAN, executed(w, ok) PROVE ExecutorsOK'
    BY <1>0, <1>d, <2>2 DEF executed
  <2>3. CASE statusGet(w)
    <3>1. Dated(cached[job[w].ruleID]) /\ cached[job[w].ruleID] \in RuleObject \cup {NoRule}
      BY <1>0, <2>3, ExecutionFacts DEF statusGet, SharedOK
    <3> QED
      BY <1>0, <1>d, <2>3, <3>1 DEF statusGet
  <2>4. CASE ExecuteTaskReturn(w)
    BY <1>0, <1>d, <2>0, <2>4 DEF ExecuteTaskReturn
  <2>5. CASE statusUpdateRetry(w) \/ statusUpdateUnanswered(w)
    <3>1. Retried(w) /\ UNCHANGED <<now, began, success>>
      BY <2>5 DEF statusUpdateRetry, statusUpdateUnanswered, vars
    <3>2. attempt[w] + 1 \in 0..MaxRetries
      BY <1>0, <3>1, ControllerAssumption DEF Retried
    <3> QED
      BY <1>0, <1>d, <2>0, <3>1, <3>2 DEF Retried
  <2> QED
    BY <1>4, <2>1, <2>2, <2>3, <2>4, <2>5 DEF ExecutorNext, executeApplyAction,
       executeRemoveAction, statusUpdate, statusUpdateFails
<1> QED
    BY <1>2, <1>3, <1>4, CtlCases

-----------------------------------------------------------------------------
(* How far copies can be trusted.                                          *)

\* A write outdates every copy, so that what is left of FreshIsCurrent is
\* about the other rules.
LEMMA StoredIsCurrent ==
    ASSUME CtlInv, NEW r \in Rules, NEW o, Stored(r, o),
           UNCHANGED <<cached, job>>,
           \A w \in Workers : copyFresh'[w] => step'[w] = step[w] /\ copy'[w] = copy[w]
    PROVE  FreshIsCurrent'
<1>0. /\ FreshIsCurrent /\ obj \in [Rules -> RuleObject \cup {NoRule}]
      /\ fresh \in [Rules -> BOOLEAN] /\ copyFresh \in [Workers -> BOOLEAN]
    BY DEF CtlInv, CtlTypeOK
<1>1. ASSUME NEW q \in Rules, fresh'[q] PROVE cached'[q] = obj'[q]
    BY <1>0, <1>1 DEF Stored, FreshIsCurrent
<1>2. ASSUME NEW w \in Workers, copyFresh'[w]
      PROVE  step'[w] = "put" /\ copy'[w] = obj'[job'[w].ruleID] /\ copy'[w] # NoRule
  <2>1. copyFresh[w] /\ ~(job[w] # NoTask /\ job[w].ruleID = r)
    BY <1>2, Zenon DEF Stored
  <2>2. step[w] = "put" /\ copy[w] = obj[job[w].ruleID] /\ copy[w] # NoRule
    BY <1>0, <2>1 DEF FreshIsCurrent
  <2>3. job[w] # NoTask /\ job[w].ruleID \in Rules
    BY <2>2, ExecutionFacts
  <2>4. obj'[job[w].ruleID] = obj[job[w].ruleID]
    BY <1>0, <2>1, <2>3 DEF Stored
  <2> QED
    BY <1>2, <2>2, <2>4
<1> QED
    BY <1>1, <1>2 DEF FreshIsCurrent

LEMMA FreshStep ==
    ASSUME CtlInv, [CtlNext]_allVars
    PROVE  FreshIsCurrent'
<1>0. /\ FreshIsCurrent /\ WorkersInv /\ DataOK /\ SharedOK /\ ExecutorsOK /\ TypeOK
    BY LocalsOK DEF CtlInv, CtlTypeOK, DatesInv, DataOK
<1>1. ASSUME UNCHANGED <<obj, cached, fresh, copyFresh, step, copy, job>>
      PROVE  FreshIsCurrent'
    BY <1>0, <1>1 DEF FreshIsCurrent
<1>2. CASE ClientStep
  <2>1. UNCHANGED <<cached, job, step, copy>>
    BY <1>2, ClientFrame DEF vars, schedVars
  <2>2. \E r \in Rules : \E o : Stored(r, o)
    BY <1>2 DEF ClientStep, CreateRule, EditRule, DeleteRule, TouchRule
  <2> QED
    BY <2>1, <2>2, StoredIsCurrent
<1>3. CASE FetchStep \/ SilentStep
    BY <1>1, <1>3, SilentFrame, ReconcilerFrame
<1>4. CASE WritingStep
  <2>1. UNCHANGED <<cached, job, step, copy>>
    BY <1>4, ReconcilerFrame
  <2>2. req \in Rules
    BY <1>4, RequestFacts DEF WritingStep, ensureFinalizer, validateAndUpdateRuleOnFailure,
       updateFailedStatus, updateRuleStatus, removeFinalizer
  <2>3. (\E o : Stored(req, o)) \/ Unwritten
    BY <1>4 DEF WritingStep, ensureFinalizer, validateAndUpdateRuleOnFailure,
       updateFailedStatus, updateRuleStatus, removeFinalizer, WriteStatus
  <2>4. CASE \E o : Stored(req, o)
    BY <2>1, <2>2, <2>4, StoredIsCurrent
  <2>5. CASE Unwritten
    BY <1>1, <2>1, <2>5 DEF Unwritten
  <2> QED
    BY <2>3, <2>4, <2>5
<1>5. CASE OwnStep
  <2>1. UNCHANGED <<obj, cached, fresh, copyFresh, step, copy>>
    BY <1>5, OwnFrame DEF ctlVars, apiVars, execVars
  <2>2. \A w \in Workers : step[w] = "put" => job'[w] = job[w]
    BY <1>0, <1>5
    DEF OwnStep, LoopStep, LoopTick, CheckTasks, QueueTask, StartScheduler, Start,
        AdvanceClock, schedVars, WorkerStep, WorkerTake, DeleteTask, WorkersInv, TypeOK
  <2> QED
    BY <1>0, <2>1, <2>2 DEF FreshIsCurrent
<1>6. CASE Restart
    BY <1>6 DEF Restart, FreshIsCurrent
<1>7. ASSUME NEW r \in Rules, SyncInformer(r) PROVE FreshIsCurrent'
    BY <1>0, <1>7
    DEF SyncInformer, FreshIsCurrent, vars, schedVars, execVars, SharedOK, DataOK
<1>8. ASSUME NEW w \in Workers, ExecutorNext(w) PROVE FreshIsCurrent'
  <2>0. UNCHANGED <<job, cached>>
    BY <1>8
    DEF ExecutorNext, ExecuteTask, AcquireSemaphore, executeApplyAction,
        executeRemoveAction, executed, statusGet, statusUpdate, statusUpdateFails,
        statusUpdateRetry, Retried, statusUpdateUnanswered, ExecuteTaskReturn,
        ExecuteReturn, vars, schedVars, apiVars
  <2>1. CASE Recording(w)
    <3>1. job[w].ruleID \in Rules /\ job[w] # NoTask
      BY <2>1, ExecutionFacts DEF Recording, statusUpdate, statusUpdateUnanswered
    <3>2. ASSUME NEW v \in Workers, copyFresh'[v]
          PROVE  step'[v] = step[v] /\ copy'[v] = copy[v]
      <4>1. v # w
        BY <2>1, <3>1, <3>2, Zenon
        DEF Recording, statusUpdate, statusUpdateUnanswered, Stored
      <4> QED
        BY <1>0, <2>1, <4>1
        DEF Recording, statusUpdate, statusUpdateUnanswered, ExecuteTaskReturn, Retried,
            ExecutorsOK
    <3> QED
      BY <2>0, <2>1, <3>1, <3>2, StoredIsCurrent
      DEF Recording, statusUpdate, statusUpdateUnanswered
  <2>2. CASE ~Recording(w)
    <3>1. UNCHANGED <<obj, fresh>>
      BY <1>8, <2>2
      DEF ExecutorNext, ExecuteTask, executeApplyAction, executeRemoveAction, executed,
          statusGet, statusUpdateFails, statusUpdateRetry, Retried, Recording, apiVars
    <3>2. ASSUME NEW v \in Workers, v # w
          PROVE  UNCHANGED <<step[v], copy[v], copyFresh[v]>>
      BY <1>0, <1>8, <2>2, <3>2
      DEF ExecutorNext, ExecuteTask, executeApplyAction, executeRemoveAction, executed,
          statusGet, statusUpdateFails, statusUpdateRetry, Retried, Recording,
          ExecuteTaskReturn, ExecutorsOK, DataOK
    <3>3. copyFresh'[w] => /\ step'[w] = "put" /\ copy'[w] = obj[job[w].ruleID]
                           /\ copy'[w] # NoRule
      <4>1. CASE statusGet(w)
        <5>1. job[w].ruleID \in Rules
          BY <4>1, ExecutionFacts DEF statusGet
        <5> QED
          BY <1>0, <4>1, <5>1 DEF statusGet, ExecutorsOK, DataOK, FreshIsCurrent
      <4>2. CASE statusUpdateFails(w) \/ statusUpdateRetry(w)
        BY <1>0, <4>2 DEF statusUpdateFails, statusUpdateRetry, DataOK
      <4>3. CASE ~statusGet(w) /\ ~statusUpdateFails(w) /\ ~statusUpdateRetry(w)
        <5>1. ~copyFresh[w] /\ copyFresh' = copyFresh
          BY <1>0, <1>8, <2>2, <4>3
          DEF ExecutorNext, ExecuteTask, AcquireSemaphore, executeApplyAction,
              executeRemoveAction, executed, statusUpdateRetry, Retried, Recording,
              FreshIsCurrent, WorkersInv
        <5> QED
          BY <5>1, Zenon
      <4> QED
        BY <4>1, <4>2, <4>3
    <3> QED
      BY <1>0, <2>0, <3>1, <3>2, <3>3 DEF FreshIsCurrent
  <2> QED
    BY <2>1, <2>2
<1>9. CASE UNCHANGED allVars
    BY <1>1, <1>9 DEF allVars, vars, schedVars, ctlVars, apiVars, execVars
<1> QED
    BY <1>2, <1>3, <1>4, <1>5, <1>6, <1>7, <1>8, <1>9, CtlCases

\* A write outdates the reconciler's copy or is about another rule.
LEMMA StoredCopy ==
    ASSUME CtlInv, NEW r \in Rules, NEW o, Stored(r, o),
           UNCHANGED <<rec, req, rule, pending>>
    PROVE  CopyInv'
<1>0. /\ CopyInv /\ obj \in [Rules -> RuleObject \cup {NoRule}]
      /\ fresh \in [Rules -> BOOLEAN] /\ ruleFresh \in BOOLEAN
      /\ req \in Rules \cup {NoRule}
    BY DEF CtlInv, CtlTypeOK
<1>1. obj' = [obj EXCEPT ![r] = o] /\ fresh' = [fresh EXCEPT ![r] = FALSE]
    BY DEF Stored
<1>2. CASE req = r
  <2>1. ~ruleFresh' /\ ~fresh'[req']
    BY <1>0, <1>1, <1>2, Zenon DEF Stored
  <2> QED
    BY <2>1 DEF CopyInv
<1>3. CASE req # r /\ req # NoRule
  <2>1. ruleFresh' <=> ruleFresh
    BY <1>3, Zenon DEF Stored
  <2>2. UNCHANGED <<obj[req], fresh[req]>>
    BY <1>0, <1>1, <1>3
  <2> QED
    BY <1>0, <2>1, <2>2, Zenon DEF CopyInv, SameRule
<1>4. CASE req = NoRule
    BY <1>4 DEF CopyInv
<1> QED
    BY <1>2, <1>3, <1>4

LEMMA CopyStep ==
    ASSUME CtlInv, [CtlNext]_allVars
    PROVE  CopyInv'
<1>0. CopyInv /\ DataOK /\ ReconcilerOK /\ SharedOK
    BY LocalsOK DEF CtlInv, CtlTypeOK, DatesInv, DataOK
<1>1. ASSUME UNCHANGED <<obj, fresh, pending, rec, req, rule, ruleFresh>> PROVE CopyInv'
    BY <1>0, <1>1 DEF CopyInv, SameRule
<1>r. ASSUME Return PROVE CopyInv'
    BY <1>r DEF Return, CopyInv
<1>2. CASE ClientStep
  <2>1. UNCHANGED <<rec, req, rule, pending>>
    BY <1>2, ClientFrame
  <2>2. \E r \in Rules : \E o : Stored(r, o)
    BY <1>2 DEF ClientStep, CreateRule, EditRule, DeleteRule, TouchRule
  <2> QED
    BY <2>1, <2>2, StoredCopy
<1>3. ASSUME NEW r \in Rules, fetchRule(r) PROVE CopyInv'
  <2>1. fresh[r] => cached[r] = obj[r]
    BY DEF CtlInv, FreshIsCurrent
  <2> QED
    BY <1>0, <1>3, <2>1 DEF fetchRule, CopyInv, SameRule, apiVars, DataOK
<1>4. ASSUME NEW r \in Rules, fetchRuleNotFound(r) PROVE CopyInv'
    BY <1>4 DEF fetchRuleNotFound, CopyInv
<1>5. CASE WritingStep
    BY <1>5, <1>r DEF WritingStep, ensureFinalizer, validateAndUpdateRuleOnFailure,
       updateFailedStatus, updateRuleStatus, removeFinalizer
<1>6. CASE SilentStep
  <2>1. CASE safeReconcile \/ validationStatusError \/ processNextExecutionTimeError
             \/ cleanupRuleAnnotationsError \/ updateError
    BY <2>1, <1>r DEF safeReconcile, validationStatusError, processNextExecutionTimeError,
       cleanupRuleAnnotationsError, updateError
  <2>2. CASE \/ scheduleRule \/ scheduleRuleError \/ handleDeletion
             \/ cleanupRuleAnnotations \/ processNextExecutionTime
    <3>1. /\ UNCHANGED <<obj, fresh, pending, req, ruleFresh>>
          /\ rec \notin {"idle", "panic"}
      BY <2>2 DEF scheduleRule, scheduleRuleError, handleDeletion, cleanupRuleAnnotations,
         processNextExecutionTime, apiVars
    <3>2. SameRule(rule', rule)
      BY <2>2, NextStatus DEF scheduleRule, scheduleRuleError, handleDeletion,
         cleanupRuleAnnotations, SameRule
    <3> QED
      BY <1>0, <3>1, <3>2 DEF CopyInv, SameRule
  <2> QED
    BY <1>6, <2>1, <2>2 DEF SilentStep
<1>7. CASE OwnStep \/ UNCHANGED allVars
    BY <1>1, <1>7, OwnFrame DEF allVars, ctlVars, apiVars, recVars
<1>8. CASE Restart
    BY <1>8, <1>r DEF Restart
<1>9. ASSUME NEW r \in Rules, SyncInformer(r) PROVE CopyInv'
  <2>1. CASE req = r
    <3>1. ~ruleFresh \/ rec = "panic"
      BY <1>0, <1>9, <2>1, ControllerAssumption DEF SyncInformer, CopyInv
    <3> QED
      BY <1>9, <2>1, <3>1 DEF SyncInformer, CopyInv
  <2>2. CASE req # r
    BY <1>0, <1>9, <2>2 DEF SyncInformer, CopyInv, SameRule, DataOK, ReconcilerOK
  <2> QED
    BY <2>1, <2>2
<1>10. ASSUME NEW w \in Workers, ExecutorNext(w) PROVE CopyInv'
  <2>1. CASE Recording(w)
    <3>1. job[w].ruleID \in Rules
      BY <2>1, ExecutionFacts DEF Recording, statusUpdate, statusUpdateUnanswered
    <3> QED
      BY <2>1, <3>1, StoredCopy DEF Recording, statusUpdate, statusUpdateUnanswered
  <2>2. CASE ~Recording(w)
    <3>1. UNCHANGED <<obj, fresh, pending, rec, req, rule, ruleFresh>>
      BY <1>10, <2>2
      DEF ExecutorNext, ExecuteTask, executeApplyAction, executeRemoveAction, executed,
          statusGet, statusUpdateFails, statusUpdateRetry, Retried, Recording, apiVars,
          recVars
    <3> QED
      BY <1>1, <3>1
  <2> QED
    BY <2>1, <2>2
<1> QED
    BY <1>2, <1>3, <1>4, <1>5, <1>6, <1>7, <1>8, <1>9, <1>10, CtlCases DEF FetchStep

-----------------------------------------------------------------------------
(* Finalizers and tasks.                                                   *)

\* Only the reconciler puts a task in the scheduler.
LEMMA TasksStep ==
    ASSUME CtlInv, [CtlNext]_allVars
    PROVE  \A r \in Rules :
              tasks'[r] # NoTask => tasks[r] # NoTask \/ (scheduleRule /\ r = req)
<1>0. tasks \in [Rules -> ScheduledTask \cup {NoTask}]
    BY DEF CtlInv, CtlTypeOK, TypeOK
<1>1. CASE scheduleRule
    BY <1>0, <1>1 DEF scheduleRule, ScheduleRule, scheduleInput
<1>2. CASE Restart
    BY <1>2 DEF Restart
<1>3. CASE ~scheduleRule /\ ~Restart
  <2>1. tasks' = tasks \/ \E r : tasks' = [tasks EXCEPT ![r] = NoTask]
    <3>1. CASE ClientStep
      BY <3>1, ClientFrame DEF vars, schedVars
    <3>2. CASE FetchStep
      BY <3>2 DEF FetchStep, fetchRule, fetchRuleNotFound, UnscheduleRule, vars, schedVars
    <3>3. CASE SilentStep
      BY <1>3, <3>3 DEF SilentStep, safeReconcile, validationStatusError,
         scheduleRuleError, processNextExecutionTime, processNextExecutionTimeError,
         handleDeletion, cleanupRuleAnnotations, cleanupRuleAnnotationsError,
         updateError, UnscheduleRule, vars, schedVars
    <3>4. CASE WritingStep
      BY <3>4 DEF WritingStep, ensureFinalizer, validateAndUpdateRuleOnFailure,
         updateFailedStatus, updateRuleStatus, removeFinalizer, vars, schedVars
    <3>5. CASE OwnStep
      BY <3>5 DEF OwnStep, LoopStep, LoopTick, CheckTasks, QueueTask, StartScheduler,
         Start, AdvanceClock, schedVars, WorkerStep, WorkerTake, DeleteTask
    <3>6. CASE (\E r \in Rules : SyncInformer(r)) \/ UNCHANGED allVars
      BY <3>6 DEF SyncInformer, allVars, vars, schedVars
    <3>7. ASSUME NEW w \in Workers, ExecutorNext(w) PROVE tasks' = tasks
      BY <3>7
      DEF ExecutorNext, ExecuteTask, AcquireSemaphore, executeApplyAction,
          executeRemoveAction, executed, statusGet, statusUpdate, statusUpdateFails,
          statusUpdateRetry, Retried, statusUpdateUnanswered, ExecuteTaskReturn,
          ExecuteReturn, vars, schedVars
    <3> QED
      BY <1>3, <3>1, <3>2, <3>3, <3>4, <3>5, <3>6, <3>7, CtlCases
  <2> QED
    BY <1>0, <2>1
<1> QED
    BY <1>1, <1>2, <1>3

\* Only the reconciler takes the finalizer away, from the rule of its request.
LEMMA FinalizedStep ==
    ASSUME CtlInv, [CtlNext]_allVars
    PROVE  \A r \in Rules :
              Finalized(r) => Finalized(r)' \/ (removeFinalizer /\ r = req)
<1>0. DataOK
    BY DEF CtlInv, CtlTypeOK, DatesInv, DataOK
<1>s. ASSUME NEW q \in Rules, NEW o, Stored(q, o),
             Finalized(q) => o # NoRule /\ o.finalizer
      PROVE  \A r \in Rules : Finalized(r) => Finalized(r)'
    BY <1>0, <1>s DEF Stored, Finalized, DataOK
<1>u. ASSUME obj' = obj PROVE \A r \in Rules : Finalized(r) => Finalized(r)'
    BY <1>u DEF Finalized
<1>1. CASE ClientStep
  <2>1. ASSUME NEW r \in Rules, NEW s \in RuleSpecs, CreateRule(r, s) \/ EditRule(r, s)
        PROVE  \A q \in Rules : Finalized(q) => Finalized(q)'
    <3>1. CASE CreateRule(r, s)
      BY <1>s, <3>1 DEF CreateRule, Finalized
    <3>2. CASE EditRule(r, s)
      <4>1. obj[r] \in RuleObject /\ s \in RuleSpec /\ Stored(r, [obj[r] EXCEPT !.spec = s])
        BY <1>0, <3>2, ControllerAssumption DEF EditRule, DataOK
      <4>2. /\ [obj[r] EXCEPT !.spec = s] \in RuleObject
            /\ [obj[r] EXCEPT !.spec = s].finalizer = obj[r].finalizer
        BY <4>1 DEF RuleObject
      <4> QED
        BY <1>s, <4>1, <4>2, ControllerAssumption DEF Finalized
    <3> QED
      BY <2>1, <3>1, <3>2
  <2>2. ASSUME NEW r \in Rules, DeleteRule(r) \/ TouchRule(r)
        PROVE  \A q \in Rules : Finalized(q) => Finalized(q)'
    <3>1. obj[r] \in RuleObject /\ obj[r] # NoRule
      BY <1>0, <2>2 DEF DeleteRule, TouchRule, DataOK
    <3>2. CASE TouchRule(r)
      BY <1>s, <3>2 DEF TouchRule, Finalized
    <3>3. CASE DeleteRule(r) /\ obj[r].finalizer
      <4>1. Stored(r, [obj[r] EXCEPT !.deleting = TRUE])
        BY <3>3 DEF DeleteRule
      <4>2. /\ [obj[r] EXCEPT !.deleting = TRUE] \in RuleObject
            /\ [obj[r] EXCEPT !.deleting = TRUE].finalizer
        BY <3>1, <3>3 DEF RuleObject
      <4> QED
        BY <1>s, <4>1, <4>2, ControllerAssumption
    <3>4. CASE DeleteRule(r) /\ ~obj[r].finalizer
      BY <1>s, <3>4 DEF DeleteRule, Finalized
    <3> QED
      BY <2>2, <3>2, <3>3, <3>4
  <2> QED
    BY <1>1, <2>1, <2>2 DEF ClientStep
<1>2. CASE FetchStep \/ SilentStep
    BY <1>2, <1>u, SilentFrame
<1>3. CASE WritingStep
  <2>1. req \in Rules /\ rule \in RuleObject /\ ruleFresh /\ obj[req] \in RuleObject
    BY <1>3, RequestFacts DEF WritingStep, ensureFinalizer, validateAndUpdateRuleOnFailure,
       updateFailedStatus, updateRuleStatus, removeFinalizer, WriteStatus
  <2>2. CASE ensureFinalizer
    BY <1>0, <2>1, <2>2, ControllerAssumption
    DEF ensureFinalizer, Stored, Finalized, DataOK, RuleObject
  <2>3. ASSUME NEW st \in RuleStatus, WriteStatus(st)
        PROVE  \A q \in Rules : Finalized(q) => Finalized(q)'
    <3> DEFINE o == [obj[req] EXCEPT !.status = st]
    <3>1. o \in RuleObject /\ o.finalizer = obj[req].finalizer
      BY <2>1 DEF RuleObject
    <3>2. Stored(req, o) \/ obj' = obj
      BY <2>3 DEF WriteStatus, Unwritten
    <3> HIDE DEF o
    <3> QED
      BY <1>s, <1>u, <2>1, <3>1, <3>2, ControllerAssumption DEF Finalized
  <2>5. /\ rule.status \in RuleStatus
        /\ [rule.status EXCEPT !.phase = "failed"] \in RuleStatus
    BY <2>1 DEF RuleObject, RuleStatus, Phases
  <2>4. CASE removeFinalizer
    BY <1>0, <2>1, <2>4 DEF removeFinalizer, Stored, Finalized, DataOK
  <2> QED
    BY <1>3, <2>2, <2>3, <2>4, <2>5 DEF WritingStep, validateAndUpdateRuleOnFailure,
       updateFailedStatus, updateRuleStatus
<1>4. CASE OwnStep \/ UNCHANGED allVars
    BY <1>4, <1>u, OwnFrame DEF allVars, ctlVars, apiVars
<1>5. CASE Restart \/ \E r \in Rules : SyncInformer(r)
    BY <1>5, <1>u DEF Restart, SyncInformer
<1>6. ASSUME NEW w \in Workers, ExecutorNext(w)
      PROVE  \A r \in Rules : Finalized(r) => Finalized(r)'
  <2>1. CASE Recording(w)
    <3>1. /\ job[w].ruleID \in Rules /\ obj[job[w].ruleID] \in RuleObject
          /\ executedStatus(w) \in RuleStatus
      BY <2>1, ExecutionFacts DEF Recording, statusUpdate, statusUpdateUnanswered
    <3> QED
      BY <1>0, <2>1, <3>1, ControllerAssumption
      DEF Recording, statusUpdate, statusUpdateUnanswered, Stored, Finalized, DataOK,
          RuleObject
  <2>2. CASE ~Recording(w)
    <3>1. obj' = obj
      BY <1>6, <2>2
      DEF ExecutorNext, ExecuteTask, executeApplyAction, executeRemoveAction, executed,
          statusGet, statusUpdateFails, statusUpdateRetry, Retried, Recording, apiVars
    <3> QED
      BY <1>u, <3>1
  <2> QED
    BY <2>1, <2>2
<1> QED
    BY <1>1, <1>2, <1>3, <1>4, <1>5, <1>6, CtlCases

\* The object a finalizer is taken from is marked, and the reconciler knows it:
\* so does the informer.
LEMMA RemovalFacts ==
    ASSUME CtlInv, removeFinalizer
    PROVE  /\ req \in Rules /\ tasks[req] = NoTask /\ rec' = "idle"
           /\ cached[req] = obj[req] /\ obj[req].deleting
<1>1. rec = "unfinalize" /\ ruleFresh /\ rec' = "idle"
    BY DEF removeFinalizer, Return
<1>2. req \in Rules /\ fresh[req] /\ SameRule(rule, obj[req])
    BY <1>1, RequestFacts
<1> QED
    BY <1>1, <1>2 DEF CtlInv, RequestInv, FinalizerInv, FreshIsCurrent, SameRule

LEMMA FinalizerStep ==
    ASSUME CtlInv, [CtlNext]_allVars
    PROVE  FinalizerInv'
<1>0. FinalizerInv /\ RequestInv /\ SharedOK /\ ReconcilerOK /\ DataOK
    BY LocalsOK DEF CtlInv, CtlTypeOK, DatesInv, DataOK
<1> DEFINE Shows(c) == c # NoRule /\ c.finalizer /\ ~c.deleting
<1>1. ASSUME NEW r \in Rules, Shows(cached'[r]) PROVE Finalized(r)'
  <2>1. cached'[r] = cached[r] \/ (cached'[r] = obj[r] /\ obj'[r] = obj[r])
    <3>1. CASE Restart \/ \E q \in Rules : SyncInformer(q)
      BY <1>0, <3>1 DEF Restart, SyncInformer, SharedOK
    <3>2. CASE ~Restart /\ ~\E q \in Rules : SyncInformer(q)
      <4>1. ASSUME NEW w \in Workers, ExecutorNext(w) PROVE cached' = cached
        BY <4>1 DEF ExecutorNext, ExecuteTask, executeApplyAction,
           executeRemoveAction, executed, statusGet, statusUpdate, statusUpdateFails,
           statusUpdateRetry, Retried, statusUpdateUnanswered, apiVars
      <4>2. cached' = cached
        BY <3>2, <4>1, CtlCases, ClientFrame, ReconcilerFrame, OwnFrame
        DEF ctlVars, apiVars, allVars
      <4> QED
        BY <4>2
    <3> QED
      BY <3>1, <3>2
  <2>2. CASE cached'[r] = cached[r]
    <3>1. Finalized(r)
      BY <1>0, <1>1, <2>2 DEF FinalizerInv
    <3>2. ~(removeFinalizer /\ r = req)
      BY <1>1, <2>2, RemovalFacts
    <3> QED
      BY <3>1, <3>2, FinalizedStep
  <2>3. CASE cached'[r] = obj[r] /\ obj'[r] = obj[r]
    BY <1>1, <2>3 DEF Finalized
  <2> QED
    BY <2>1, <2>2, <2>3
<1>2. ASSUME rec' \in {"invalid", "schedule", "unscheduled", "next", "status"}
      PROVE  Finalized(req)'
  <2>1. CASE \E r \in Rules : fetchRule(r)
    <3>1. PICK r \in Rules : fetchRule(r)
      BY <2>1
    <3>2. Shows(cached[r]) /\ req' = r
      BY <1>2, <3>1 DEF fetchRule
    <3>3. Finalized(r) /\ obj' = obj
      BY <1>0, <3>1, <3>2 DEF FinalizerInv, fetchRule, apiVars
    <3> QED
      BY <3>2, <3>3 DEF Finalized
  <2>2. CASE ~\E r \in Rules : fetchRule(r)
    <3>1. req' = req /\ rec \in {"invalid", "schedule", "unscheduled", "next", "status"}
      <4>1. CASE SilentStep
        BY <1>2, <4>1 DEF SilentStep, safeReconcile, validationStatusError, scheduleRule,
           scheduleRuleError, processNextExecutionTime, processNextExecutionTimeError,
           handleDeletion, cleanupRuleAnnotations, cleanupRuleAnnotationsError,
           updateError, Return
      <4>2. CASE WritingStep \/ FetchStep \/ Restart
        BY <1>2, <2>2, <4>2 DEF WritingStep, ensureFinalizer,
           validateAndUpdateRuleOnFailure, updateFailedStatus, updateRuleStatus,
           removeFinalizer, Return, FetchStep, fetchRuleNotFound, Restart
      <4>3. ASSUME NEW w \in Workers, ExecutorNext(w) PROVE UNCHANGED <<rec, req>>
        BY <4>3 DEF ExecutorNext, ExecuteTask, executeApplyAction,
           executeRemoveAction, executed, statusGet, statusUpdate, statusUpdateFails,
           statusUpdateRetry, Retried, statusUpdateUnanswered, recVars
      <4>4. CASE ClientStep \/ OwnStep \/ UNCHANGED allVars \/ \E q \in Rules : SyncInformer(q)
        BY <1>2, <4>4, ClientFrame, OwnFrame DEF ctlVars, recVars, allVars, SyncInformer
      <4> QED
        BY <1>2, <4>1, <4>2, <4>3, <4>4, CtlCases
    <3>2. Finalized(req) /\ req \in Rules
      BY <1>0, <3>1, RequestFacts DEF FinalizerInv
    <3>3. ~removeFinalizer
      BY <3>1 DEF removeFinalizer
    <3>4. obj'[req] # NoRule /\ obj'[req].finalizer
      BY <3>2, <3>3, FinalizedStep DEF Finalized
    <3> QED
      BY <3>1, <3>4 DEF Finalized
  <2> QED
    BY <2>1, <2>2
<1>3. ASSUME rec' \in {"cleanup", "unfinalize"} PROVE tasks'[req'] = NoTask
  <2>1. CASE handleDeletion
    <3>1. req \in Rules /\ req' = req
      BY <2>1, RequestFacts DEF handleDeletion
    <3> QED
      BY <2>1, <3>1 DEF handleDeletion, UnscheduleRule, CtlInv, CtlTypeOK, TypeOK
  <2>2. CASE ~handleDeletion
    <3>1. req' = req /\ rec \in {"cleanup", "unfinalize"}
      <4>1. CASE SilentStep
        BY <1>3, <2>2, <4>1 DEF SilentStep, safeReconcile, validationStatusError,
           scheduleRule, scheduleRuleError, processNextExecutionTime,
           processNextExecutionTimeError, cleanupRuleAnnotations,
           cleanupRuleAnnotationsError, updateError, Return
      <4>2. CASE WritingStep \/ FetchStep \/ Restart
        BY <1>3, <4>2 DEF WritingStep, ensureFinalizer,
           validateAndUpdateRuleOnFailure, updateFailedStatus, updateRuleStatus,
           removeFinalizer, Return, FetchStep, fetchRule, fetchRuleNotFound, Restart
      <4>3. ASSUME NEW w \in Workers, ExecutorNext(w) PROVE UNCHANGED <<rec, req>>
        BY <4>3 DEF ExecutorNext, ExecuteTask, executeApplyAction,
           executeRemoveAction, executed, statusGet, statusUpdate, statusUpdateFails,
           statusUpdateRetry, Retried, statusUpdateUnanswered, recVars
      <4>4. CASE ClientStep \/ OwnStep \/ UNCHANGED allVars \/ \E q \in Rules : SyncInformer(q)
        BY <1>3, <4>4, ClientFrame, OwnFrame DEF ctlVars, recVars, allVars, SyncInformer
      <4> QED
        BY <1>3, <4>1, <4>2, <4>3, <4>4, CtlCases
    <3>2. tasks[req] = NoTask /\ req \in Rules
      BY <1>0, <3>1, RequestFacts DEF FinalizerInv
    <3>3. ~scheduleRule
      BY <3>1 DEF scheduleRule
    <3> QED
      BY <3>1, <3>2, <3>3, TasksStep
  <2> QED
    BY <2>1, <2>2
<1> QED
    BY <1>1, <1>2, <1>3 DEF FinalizerInv

LEMMA ScheduledStep ==
    ASSUME CtlInv, [CtlNext]_allVars
    PROVE  ScheduledHasFinalizer'
<1> SUFFICES ASSUME NEW r \in Rules, tasks'[r] # NoTask PROVE Finalized(r)'
    BY DEF ScheduledHasFinalizer, Finalized
<1>1. CASE tasks[r] # NoTask
  <2>1. Finalized(r)
    BY <1>1 DEF CtlInv, ScheduledHasFinalizer, Finalized
  <2>2. ~(removeFinalizer /\ r = req)
    BY <1>1, RemovalFacts
  <2> QED
    BY <2>1, <2>2, FinalizedStep
<1>2. CASE scheduleRule /\ r = req
  <2>1. Finalized(r) /\ ~removeFinalizer
    BY <1>2 DEF CtlInv, FinalizerInv, scheduleRule, removeFinalizer
  <2> QED
    BY <2>1, FinalizedStep
<1> QED
    BY <1>1, <1>2, TasksStep

-----------------------------------------------------------------------------
(* No rule is forgotten.                                                   *)

Remembered(r) ==
    obj[r] # NoRule => r \in pending \/ req = r \/ ~fresh[r] \/ ~validateRule(obj[r])

\* The reconciler lets go of its request: an event is under way, the request is in the
\* queue again, or the rule is refused as it is.
LEMMA LetGo ==
    ASSUME CtlInv, [CtlNext]_allVars, Return, ~Restart, NEW r \in Rules, req = r
    PROVE  Remembered(r)'
<1>0. DataOK /\ SharedOK /\ RequestInv
    BY LocalsOK DEF CtlInv, CtlTypeOK, DatesInv, DataOK
<1>1. CASE Requeue
    BY <1>1 DEF Requeue, Remembered
<1>2. CASE \E o : Stored(req, o)
    BY <1>0, <1>2 DEF Stored, Remembered, DataOK
<1>3. CASE rec = "invalid" /\ UNCHANGED <<obj, fresh, pending>>
  <2>1. /\ ~validateRule(rule)
        /\ ruleFresh => SameRule(rule, obj[req])
        /\ ~ruleFresh => ~fresh[req] \/ req \in pending
    BY <1>0, <1>3, RequestFacts DEF RequestInv
  <2>2. ruleFresh => ~validateRule(obj[req])
    BY <2>1 DEF SameRule, validateRule
  <2> QED
    BY <1>3, <2>1, <2>2 DEF Remembered, validateRule
<1>4. Requeue \/ (\E o : Stored(req, o))
        \/ (rec = "invalid" /\ UNCHANGED <<obj, fresh, pending>>)
  <2>1. req' = NoRule /\ rec' = "idle" /\ req # NoRule
    BY ControllerAssumption DEF Return
  <2>2. CASE SilentStep
    BY <2>1, <2>2 DEF SilentStep, safeReconcile, validationStatusError, scheduleRule,
       scheduleRuleError, processNextExecutionTime, processNextExecutionTimeError,
       handleDeletion, cleanupRuleAnnotations, cleanupRuleAnnotationsError,
       updateError, apiVars
  <2>3. CASE WritingStep
    BY <2>3 DEF WritingStep, ensureFinalizer, validateAndUpdateRuleOnFailure,
       updateFailedStatus, updateRuleStatus, removeFinalizer, WriteStatus, Unwritten
  <2>4. CASE FetchStep
    BY <2>1, <2>4 DEF FetchStep, fetchRule, fetchRuleNotFound
  <2>5. ASSUME NEW w \in Workers, ExecutorNext(w) PROVE req' = req
    BY <2>5 DEF ExecutorNext, ExecuteTask, executeApplyAction,
       executeRemoveAction, executed, statusGet, statusUpdate, statusUpdateFails,
       statusUpdateRetry, Retried, statusUpdateUnanswered, recVars
  <2>6. CASE ClientStep \/ OwnStep \/ UNCHANGED allVars \/ \E q \in Rules : SyncInformer(q)
    BY <2>1, <2>6, ClientFrame, OwnFrame DEF ctlVars, recVars, allVars, SyncInformer
  <2> QED
    BY <2>1, <2>2, <2>3, <2>4, <2>5, <2>6, CtlCases
<1> QED
    BY <1>1, <1>2, <1>3, <1>4

LEMMA NotForgottenStep ==
    ASSUME CtlInv, [CtlNext]_allVars
    PROVE  RuleNotForgotten'
<1> SUFFICES ASSUME NEW r \in Rules PROVE Remembered(r)'
    BY DEF RuleNotForgotten, Remembered
<1>0. Remembered(r) /\ DataOK /\ SharedOK /\ ReconcilerOK /\ RequestInv
    BY LocalsOK DEF CtlInv, CtlTypeOK, DatesInv, DataOK, RuleNotForgotten, Remembered
<1>s. ASSUME NEW q \in Rules, NEW o, Stored(q, o), pending \subseteq pending',
             req' = req \/ req # r
      PROVE  Remembered(r)'
  <2>1. CASE q = r
    BY <1>0, <1>s, <2>1 DEF Stored, Remembered, DataOK
  <2>2. CASE q # r
    BY <1>0, <1>s, <2>2 DEF Stored, Remembered, DataOK, validateRule
  <2> QED
    BY <2>1, <2>2
<1>u. ASSUME UNCHANGED <<obj, fresh>>, pending \subseteq pending', req' = req \/ req # r
      PROVE  Remembered(r)'
    BY <1>0, <1>u DEF Remembered, validateRule
<1>1. CASE ClientStep
  <2>1. UNCHANGED <<req, pending>> /\ \E q \in Rules : \E o : Stored(q, o)
    BY <1>1, ClientFrame DEF ClientStep, CreateRule, EditRule, DeleteRule, TouchRule
  <2> QED
    BY <1>s, <2>1
<1>2. CASE FetchStep
  <2>1. PICK q \in Rules : fetchRule(q) \/ fetchRuleNotFound(q)
    BY <1>2 DEF FetchStep
  <2>2. UNCHANGED <<obj, fresh>> /\ pending' = pending \ {q} /\ req' = q /\ req # r
    BY <1>0, <2>1, ControllerAssumption
    DEF fetchRule, fetchRuleNotFound, apiVars, RequestInv
  <2> QED
    BY <1>0, <2>2 DEF Remembered, validateRule
<1>3. CASE SilentStep \/ WritingStep
  <2>1. CASE req = r /\ Return
    <3>1. CASE ~Restart
      BY <2>1, <3>1, LetGo
    <3>2. CASE Restart
      BY <3>2 DEF Restart, Remembered
    <3> QED
      BY <3>1, <3>2
  <2>2. CASE ~(req = r /\ Return)
    <3>1. pending \subseteq pending' /\ (req' = req \/ req # r)
      <4>1. CASE SilentStep
        BY <2>2, <4>1 DEF SilentStep, safeReconcile, validationStatusError, scheduleRule,
           scheduleRuleError, processNextExecutionTime, processNextExecutionTimeError,
           handleDeletion, cleanupRuleAnnotations, cleanupRuleAnnotationsError,
           updateError, Requeue
      <4>2. CASE WritingStep
        BY <2>2, <4>2 DEF WritingStep, ensureFinalizer, validateAndUpdateRuleOnFailure,
           updateFailedStatus, updateRuleStatus, removeFinalizer, Requeue
      <4> QED
        BY <1>3, <4>1, <4>2
    <3>2. CASE SilentStep
      BY <1>u, <3>1, <3>2, SilentFrame
    <3>3. CASE WritingStep
      <4>1. req \in Rules /\ ((\E o : Stored(req, o)) \/ UNCHANGED <<obj, fresh>>)
        BY <3>3, RequestFacts DEF WritingStep, ensureFinalizer,
           validateAndUpdateRuleOnFailure, updateFailedStatus, updateRuleStatus,
           removeFinalizer, WriteStatus, Unwritten
      <4> QED
        BY <1>s, <1>u, <3>1, <4>1
    <3> QED
      BY <1>3, <3>2, <3>3
  <2> QED
    BY <2>1, <2>2
<1>4. CASE OwnStep \/ UNCHANGED allVars
    BY <1>4, <1>u, OwnFrame DEF allVars, ctlVars, apiVars, recVars
<1>5. CASE Restart
    BY <1>5 DEF Restart, Remembered
<1>6. ASSUME NEW q \in Rules, SyncInformer(q) PROVE Remembered(r)'
    BY <1>0, <1>6 DEF SyncInformer, Remembered, validateRule, DataOK
<1>7. ASSUME NEW w \in Workers, ExecutorNext(w) PROVE Remembered(r)'
  <2>1. CASE Recording(w)
    <3>1. job[w].ruleID \in Rules
      BY <2>1, ExecutionFacts DEF Recording, statusUpdate, statusUpdateUnanswered
    <3> QED
      BY <1>s, <2>1, <3>1 DEF Recording, statusUpdate, statusUpdateUnanswered
  <2>2. CASE ~Recording(w)
    <3>1. UNCHANGED <<obj, fresh, pending, req>>
      BY <1>7, <2>2
      DEF ExecutorNext, ExecuteTask, executeApplyAction, executeRemoveAction, executed,
          statusGet, statusUpdateFails, statusUpdateRetry, Retried, Recording, apiVars,
          recVars
    <3> QED
      BY <1>u, <3>1
  <2> QED
    BY <2>1, <2>2
<1> QED
    BY <1>1, <1>2, <1>3, <1>4, <1>5, <1>6, <1>7, CtlCases

-----------------------------------------------------------------------------
(* The theorems.                                                           *)

LEMMA CtlInvInit == CtlInit => CtlInv
<1> SUFFICES ASSUME CtlInit PROVE CtlInv
    OBVIOUS
<1>1. TypeInv /\ now = 0
    BY TypeInit DEF CtlInit, Init
<1>2. 0 \in 0..now /\ 0 \in 0..MaxRetries /\ 0 \in Nat
    BY <1>1, ControllerAssumption
<1>3. CtlTypeOK
    BY <1>1, <1>2 DEF CtlInit, CtlTypeOK, TypeInv, RecStates
<1>4. DatesInv /\ WorkersInv /\ RequestInv
    BY <1>2 DEF CtlInit, Init, DatesInv, WorkersInv, RequestInv, Dated
<1>5. FreshIsCurrent /\ CopyInv /\ FinalizerInv
    BY DEF CtlInit, FreshIsCurrent, CopyInv, FinalizerInv
<1>6. ScheduledHasFinalizer /\ RuleNotForgotten
    BY DEF CtlInit, Init, ScheduledHasFinalizer, RuleNotForgotten
<1> QED
    BY <1>1, <1>3, <1>4, <1>5, <1>6 DEF CtlInv, TypeInv

LEMMA CtlInvStep == CtlInv /\ [CtlNext]_allVars => CtlInv'
<1> SUFFICES ASSUME CtlInv, [CtlNext]_allVars PROVE CtlInv'
    OBVIOUS
<1>1. (TypeOK /\ SemaphoreBalanced /\ NoneBeforeStart)'
    BY SchedulerInvStep DEF TypeInv
<1>2. DataOK' /\ SharedOK' /\ ReconcilerOK' /\ RequestInv' /\ ExecutorsOK'
    BY ObjectsStep, SharedStep, ReconcilerStep, ExecutorsStep
<1>3. CtlTypeOK' /\ DatesInv'
    BY <1>1, <1>2 DEF CtlTypeOK, DatesInv, DataOK, SharedOK, ReconcilerOK, ExecutorsOK
<1>4. (WorkersInv /\ FreshIsCurrent /\ CopyInv /\ FinalizerInv)'
    BY WorkersStep, FreshStep, CopyStep, FinalizerStep
<1>5. (ScheduledHasFinalizer /\ RuleNotForgotten)'
    BY ScheduledStep, NotForgottenStep
<1> QED
    BY <1>1, <1>2, <1>3, <1>4, <1>5 DEF CtlInv

\* The inductive invariant holds in every behaviour, whatever order clients,
\* informer, reconciler, workers and restarts come in.
THEOREM CtlInvInductive == CtlSpec => []CtlInv
BY CtlInvInit, CtlInvStep, PTL DEF CtlSpec

\* The variables of reconciler, executor and scheduler keep their types; in
\* particular the retries of the status update stay within MaxRetries.
THEOREM CtlTypeCorrect == CtlSpec => []CtlTypeOK
<1>1. CtlInv => CtlTypeOK
    BY DEF CtlInv
<1> QED
    BY CtlInvInductive, <1>1, PTL

\* A scheduled task's rule exists and has its finalizer: the reconciler never
\* schedules a rule from a copy so old that the rule has gone, and takes no
\* finalizer away before it has unscheduled the rule.
THEOREM ScheduledHasFinalizerCorrect == CtlSpec => []ScheduledHasFinalizer
<1>1. CtlInv => ScheduledHasFinalizer
    BY DEF CtlInv
<1> QED
    BY CtlInvInductive, <1>1, PTL

\* Through errors, conflicts and restarts the controller forgets no rule that
\* it would accept.
THEOREM RuleNotForgottenCorrect == CtlSpec => []RuleNotForgotten
<1>1. CtlInv => RuleNotForgotten
    BY DEF CtlInv
<1> QED
    BY CtlInvInductive, <1>1, PTL

\* What a write may make of an object.
Keeps(o, p) ==
    /\ p.status.executions >= o.status.executions
    /\ o.deleting => p.deleting
    /\ o.finalizer => p.finalizer

LEMMA WriteStep ==
    ASSUME CtlInv, [CtlNext]_allVars, NEW r \in Rules, obj[r] # NoRule, obj'[r] # NoRule
    PROVE  /\ Keeps(obj[r], obj'[r])
           /\ obj'[r].spec # obj[r].spec => UNCHANGED <<rec, step>>
<1> DEFINE Goal == /\ Keeps(obj[r], obj'[r])
                   /\ obj'[r].spec # obj[r].spec => UNCHANGED <<rec, step>>
<1> SUFFICES Goal
    OBVIOUS
<1>0. DataOK /\ obj[r] \in RuleObject /\ obj[r].status.executions \in Nat
  <2>1. DataOK
    BY DEF CtlInv, CtlTypeOK, DatesInv, DataOK
  <2> QED
    BY <2>1 DEF DataOK, RuleObject, RuleStatus
<1>u. ASSUME obj'[r] = obj[r] PROVE Goal
    BY <1>0, <1>u DEF Keeps
<1>s. ASSUME NEW q \in Rules, NEW o, Stored(q, o),
             q = r => Keeps(obj[r], o) /\ (o.spec # obj[r].spec => UNCHANGED <<rec, step>>)
      PROVE  Goal
  <2>1. CASE q = r
    BY <1>0, <1>s, <2>1 DEF Stored, DataOK
  <2>2. CASE q # r
    BY <1>0, <1>s, <1>u, <2>2 DEF Stored, DataOK
  <2> QED
    BY <2>1, <2>2
<1> HIDE DEF Goal
<1>1. CASE ClientStep
  <2>1. UNCHANGED <<rec, step>>
    BY <1>1, ClientFrame
  <2>2. ASSUME NEW q \in Rules, NEW s \in RuleSpecs, CreateRule(q, s) PROVE Goal
    BY <1>s, <2>2 DEF CreateRule
  <2>3. ASSUME NEW q \in Rules, NEW s \in RuleSpecs, EditRule(q, s) PROVE Goal
    <3>1. Keeps(obj[r], [obj[r] EXCEPT !.spec = s])
      BY <1>0 DEF Keeps, RuleObject
    <3>2. Stored(q, [obj[q] EXCEPT !.spec = s])
      BY <2>3 DEF EditRule
    <3> QED
      BY <1>s, <2>1, <3>1, <3>2
  <2>4. ASSUME NEW q \in Rules, DeleteRule(q) PROVE Goal
    <3>1. Keeps(obj[r], [obj[r] EXCEPT !.deleting = TRUE])
          /\ [obj[r] EXCEPT !.deleting = TRUE].spec = obj[r].spec
      BY <1>0 DEF Keeps, RuleObject
    <3>2. CASE obj[q].finalizer
      <4>1. Stored(q, [obj[q] EXCEPT !.deleting = TRUE])
        BY <2>4, <3>2 DEF DeleteRule
      <4> QED
        BY <1>s, <3>1, <4>1
    <3>3. CASE ~obj[q].finalizer
      <4>1. Stored(q, NoRule)
        BY <2>4, <3>3 DEF DeleteRule
      <4>2. q # r
        BY <1>0, <4>1 DEF Stored, DataOK
      <4> QED
        BY <1>s, <4>1, <4>2
    <3> QED
      BY <3>2, <3>3
  <2>5. ASSUME NEW q \in Rules, TouchRule(q) PROVE Goal
    <3>1. Keeps(obj[r], obj[r])
      BY <1>0 DEF Keeps
    <3> QED
      BY <1>s, <2>5, <3>1 DEF TouchRule
  <2> QED
    BY <1>1, <2>2, <2>3, <2>4, <2>5 DEF ClientStep
<1>2. CASE FetchStep \/ SilentStep
    BY <1>2, <1>u, SilentFrame
<1>3. CASE WritingStep
  <2>1. /\ req \in Rules /\ rule \in RuleObject /\ ruleFresh
        /\ SameRule(rule, obj[req]) /\ obj[req] \in RuleObject
    BY <1>3, RequestFacts DEF WritingStep, ensureFinalizer, validateAndUpdateRuleOnFailure,
       updateFailedStatus, updateRuleStatus, removeFinalizer, WriteStatus
  <2>2. CASE ensureFinalizer
    <3> DEFINE o == [rule EXCEPT !.finalizer = TRUE, !.status = obj[req].status]
    <3>1. /\ o.status = obj[req].status /\ o.finalizer
          /\ o.spec = obj[req].spec /\ o.deleting = obj[req].deleting
      BY <2>1 DEF RuleObject, SameRule
    <3>2. Stored(req, o)
      BY <2>2 DEF ensureFinalizer
    <3> HIDE DEF o
    <3>3. req = r => Keeps(obj[r], o) /\ o.spec = obj[r].spec
      BY <1>0, <3>1 DEF Keeps
    <3> QED
      BY <1>s, <2>1, <3>2, <3>3
  <2>3. ASSUME NEW st \in RuleStatus, st.executions = rule.status.executions, WriteStatus(st)
        PROVE  Goal
    <3> DEFINE o == [obj[req] EXCEPT !.status = st]
    <3>1. /\ o.status.executions = obj[req].status.executions
          /\ o.finalizer = obj[req].finalizer
          /\ o.spec = obj[req].spec /\ o.deleting = obj[req].deleting
      BY <2>1, <2>3 DEF RuleObject, SameRule
    <3>2. Stored(req, o) \/ obj' = obj
      BY <2>3 DEF WriteStatus, Unwritten
    <3> HIDE DEF o
    <3>3. req = r => Keeps(obj[r], o) /\ o.spec = obj[r].spec
      BY <1>0, <3>1 DEF Keeps
    <3> QED
      BY <1>s, <1>u, <2>1, <3>2, <3>3
  <2>4. /\ rule.status \in RuleStatus
        /\ [rule.status EXCEPT !.phase = "failed"] \in RuleStatus
        /\ [rule.status EXCEPT !.phase = "failed"].executions = rule.status.executions
    BY <2>1 DEF RuleObject, RuleStatus, Phases
  <2>5. CASE validateAndUpdateRuleOnFailure \/ updateFailedStatus \/ updateRuleStatus
    BY <2>3, <2>4, <2>5 DEF validateAndUpdateRuleOnFailure, updateFailedStatus,
       updateRuleStatus
  <2>6. CASE removeFinalizer
    <3>1. Stored(req, NoRule)
      BY <2>6 DEF removeFinalizer
    <3>2. req # r
      BY <1>0, <3>1 DEF Stored, DataOK
    <3> QED
      BY <1>s, <2>1, <3>1, <3>2
  <2> QED
    BY <1>3, <2>2, <2>5, <2>6 DEF WritingStep
<1>4. CASE OwnStep \/ UNCHANGED allVars
    BY <1>4, <1>u, OwnFrame DEF allVars, ctlVars, apiVars
<1>5. CASE Restart \/ \E q \in Rules : SyncInformer(q)
    BY <1>5, <1>u DEF Restart, SyncInformer
<1>6. ASSUME NEW w \in Workers, ExecutorNext(w) PROVE Goal
  <2>1. CASE Recording(w)
    <3> DEFINE q == job[w].ruleID
               o == [obj[q] EXCEPT !.status = executedStatus(w)]
    <3>1. /\ q \in Rules /\ obj[q] \in RuleObject
          /\ executedStatus(w) \in RuleStatus
          /\ executedStatus(w).executions = obj[q].status.executions + 1
          /\ Stored(q, o)
      BY <2>1, ExecutionFacts DEF Recording, statusUpdate, statusUpdateUnanswered
    <3>2. /\ o.status.executions = obj[q].status.executions + 1
          /\ o.finalizer = obj[q].finalizer
          /\ o.spec = obj[q].spec /\ o.deleting = obj[q].deleting
      BY <3>1 DEF RuleObject
    <3> HIDE DEF o, q
    <3>3. q = r => Keeps(obj[r], o) /\ o.spec = obj[r].spec
      BY <1>0, <3>2 DEF Keeps
    <3> QED
      BY <1>s, <3>1, <3>3
  <2>2. CASE ~Recording(w)
    <3>1. obj' = obj
      BY <1>6, <2>2
      DEF ExecutorNext, ExecuteTask, executeApplyAction, executeRemoveAction, executed,
          statusGet, statusUpdateFails, statusUpdateRetry, Retried, Recording, apiVars
    <3> QED
      BY <1>u, <3>1
  <2> QED
    BY <2>1, <2>2
<1> QED
    BY <1>1, <1>2, <1>3, <1>4, <1>5, <1>6, CtlCases

\* No write of the controller undoes another client's or its own other half's:
\* executions are counted once and for all, a requested deletion and the
\* finalizer stay, and only users change a spec.
THEOREM NoLostWriteCorrect == CtlSpec => NoLostWrite
<1>1. CtlInv /\ [CtlNext]_allVars
        => [\A r \in Rules :
              obj[r] # NoRule /\ obj'[r] # NoRule =>
                 /\ obj'[r].status.executions >= obj[r].status.executions
                 /\ obj[r].deleting => obj'[r].deleting
                 /\ obj[r].finalizer => obj'[r].finalizer
                 /\ obj'[r].spec # obj[r].spec => UNCHANGED <<rec, step>>]_allVars
    BY WriteStep DEF Keeps
<1> QED
    BY CtlInvInductive, <1>1, PTL DEF CtlSpec, NoLostWrite

-----------------------------------------------------------------------------
(* The scheduler inside the controller.                                    *)

LEMMA AgendaInvStep ==
    ASSUME CtlInv, AgendaInv, [CtlNext]_allVars
    PROVE  AgendaInv'
<1>1. TypeInv'
    BY SchedulerInvStep
<1>2. (LoopEnded /\ HandInv)'
  <2>1. CASE Restart
    BY <2>1 DEF Restart, LoopEnded, HandInv
  <2>2. CASE ~Restart
    BY <2>2, SchedulerSteps, StopStep, HandStep DEF AgendaInv
  <2> QED
    BY <2>1, <2>2
<1> QED
    BY <1>1, <1>2 DEF AgendaInv

\* A new process starts with an empty agenda.
LEMMA RestartAgenda == Restart => Agenda!Reset
<1> SUFFICES ASSUME Restart PROVE Agenda!Reset
    OBVIOUS
<1>1. Queued' = {} /\ Acquiring' = {} /\ batch' = {}
    BY DEF Restart, Queued, Acquiring
<1>2. Waiting' = {}
    BY <1>1, WaitingParts
<1>3. Executed' = [w \in Workers |-> NoTask]
    BY DEF Restart, Executed
<1> QED
    BY <1>2, <1>3, Zenon DEF Restart, Agenda!Reset, Executed

\* The reconciler, the executor and restarts use the scheduler as the agenda
\* allows: no task is handed out early, none begins that was not handed out, and
\* every execution, however its status update ends, takes its rule off the map.
THEOREM AgendaAcrossRestartsCorrect == CtlSpec => AgendaAcrossRestarts
<1>1. CtlInit => AgendaInv /\ Agenda!Init
    BY InitAgenda DEF CtlInit
<1>2. CtlInv /\ AgendaInv /\ [CtlNext]_allVars
        => AgendaInv' /\ [Agenda!Next \/ Agenda!Reset]_(Agenda!vars)
  <2> SUFFICES ASSUME CtlInv, AgendaInv, [CtlNext]_allVars
               PROVE  AgendaInv' /\ [Agenda!Next \/ Agenda!Reset]_(Agenda!vars)
    OBVIOUS
  <2>1. CASE Restart
    BY <2>1, AgendaInvStep, RestartAgenda
  <2>2. CASE ~Restart
    BY <2>2, AgendaInvStep, SchedulerSteps, StepAgenda
  <2> QED
    BY <2>1, <2>2
<1> QED
    BY <1>1, <1>2, CtlInvInductive, PTL
    DEF CtlSpec, AgendaAcrossRestarts, Agenda!RestartSpec

-----------------------------------------------------------------------------
(* The life of a rule.                                                     *)

RuleData == <<Lives, Wanted, Counts>>

\* The same for a single object.
wantedOf(o) == IF o = NoRule THEN NoRule ELSE o.spec
countOf(o) == IF o = NoRule THEN 0 ELSE o.status.executions

\* A write to the API server changes the life of one rule.
LEMMA StoredLife ==
    ASSUME DataOK, NEW r \in Rules, NEW o, Stored(r, o)
    PROVE  /\ Lives' = [Lives EXCEPT ![r] = lifeOf(o)]
           /\ Wanted' = [Wanted EXCEPT ![r] = wantedOf(o)]
           /\ Counts' = [Counts EXCEPT ![r] = countOf(o)]
<1>1. obj' = [obj EXCEPT ![r] = o] /\ obj \in [Rules -> RuleObject \cup {NoRule}]
    BY DEF Stored, DataOK
<1>2. \A q \in Rules : obj'[q] = IF q = r THEN o ELSE obj[q]
    BY <1>1
<1>3. Lives' = [Lives EXCEPT ![r] = lifeOf(o)]
    BY <1>2, Zenon DEF Lives, lifeOf
<1>4. Wanted' = [Wanted EXCEPT ![r] = wantedOf(o)]
    BY <1>2, Zenon DEF Wanted, wantedOf
<1>5. Counts' = [Counts EXCEPT ![r] = countOf(o)]
    BY <1>2, Zenon DEF Counts, countOf
<1> QED
    BY <1>3, <1>4, <1>5

LEMMA LifeParts ==
    ASSUME NEW r \in Rules
    PROVE  /\ Lives[r] = lifeOf(obj[r])
           /\ Wanted[r] = wantedOf(obj[r])
           /\ Counts[r] = countOf(obj[r])
BY DEF Lives, Wanted, Counts, wantedOf, countOf

\* A write that leaves life, spec and count of the rule alone is not visible.
LEMMA StoredUnseen ==
    ASSUME DataOK, NEW r \in Rules, NEW o, Stored(r, o), lifeOf(o) = lifeOf(obj[r]),
           wantedOf(o) = wantedOf(obj[r]), countOf(o) = countOf(obj[r])
    PROVE  UNCHANGED RuleData
<1>1. /\ Lives' = [Lives EXCEPT ![r] = Lives[r]]
      /\ Wanted' = [Wanted EXCEPT ![r] = Wanted[r]]
      /\ Counts' = [Counts EXCEPT ![r] = Counts[r]]
    BY StoredLife, LifeParts
<1>2. Lives' = Lives
    BY <1>1, Zenon DEF Lives
<1>3. Wanted' = Wanted
    BY <1>1, Zenon DEF Wanted
<1>4. Counts' = Counts
    BY <1>1, Zenon DEF Counts
<1> QED
    BY <1>2, <1>3, <1>4 DEF RuleData

LEMMA UnwrittenUnseen ==
    ASSUME obj' = obj
    PROVE  UNCHANGED RuleData
BY DEF RuleData, Lives, Wanted, Counts

\* Putting a task into the map schedules one rule, deleting one unschedules it.
LEMMA TaskMap ==
    ASSUME CtlInv, NEW r \in Rules
    PROVE  /\ tasks' = [tasks EXCEPT ![r] = NoTask] => Scheduled' = Scheduled \ {r}
           /\ \A t : t # NoTask /\ tasks' = [tasks EXCEPT ![r] = t]
                     => Scheduled' = Scheduled \cup {r}
           /\ tasks' = tasks => Scheduled' = Scheduled
<1>1. tasks \in [Rules -> ScheduledTask \cup {NoTask}]
    BY DEF CtlInv, CtlTypeOK, TypeOK
<1> QED
    BY <1>1 DEF Scheduled

ExecutionUnseen == UNCHANGED <<InWork, TriesLeft>>

LEMMA SameWork ==
    ASSUME UNCHANGED <<job, step, attempt>>
    PROVE  ExecutionUnseen
BY DEF ExecutionUnseen, InWork, TriesLeft

LEMMA ClientLife ==
    ASSUME CtlInv, DataOK, ClientStep
    PROVE  [Lifecycle!Next]_(Lifecycle!vars)
<1>1. tasks' = tasks /\ ExecutionUnseen
    BY ClientFrame, SameWork DEF vars, schedVars
<1>2. Scheduled' = Scheduled /\ UNCHANGED <<InWork, TriesLeft>>
    BY <1>1, Zenon DEF Scheduled, ExecutionUnseen
<1>3. ASSUME NEW q \in Rules, NEW s \in RuleSpecs, CreateRule(q, s)
      PROVE  Lifecycle!Create(q, s)
  <2> DEFINE o == [spec |-> s, deleting |-> FALSE, finalizer |-> FALSE,
                   status |-> NewStatus]
  <2>1. Stored(q, o) /\ obj[q] = NoRule
    BY <1>3 DEF CreateRule
  <2>2. o \in RuleObject
    BY ControllerAssumption DEF RuleObject, RuleStatus, NewStatus, OptTime, Phases
  <2>3. o # NoRule
    BY <2>2, ControllerAssumption
  <2>4. lifeOf(o) = "new" /\ wantedOf(o) = s /\ countOf(o) = 0
    BY <2>3 DEF lifeOf, wantedOf, countOf, NewStatus
  <2> HIDE DEF o
  <2>5. /\ Lives' = [Lives EXCEPT ![q] = "new"]
        /\ Wanted' = [Wanted EXCEPT ![q] = s]
        /\ Counts' = [Counts EXCEPT ![q] = 0]
    BY <2>1, <2>4, StoredLife
  <2>6. Lives[q] = "absent" /\ Counts[q] = 0
    BY <2>1 DEF Lives, Counts, lifeOf
  <2>7. Counts' = Counts
    BY <2>5, <2>6, Zenon DEF Counts
  <2> QED
    BY <1>2, <2>5, <2>6, <2>7 DEF Lifecycle!Create
<1>4. ASSUME NEW q \in Rules, NEW s \in RuleSpecs, EditRule(q, s)
      PROVE  Lifecycle!Edit(q, s)
  <2> DEFINE o == [obj[q] EXCEPT !.spec = s]
  <2>1. Stored(q, o) /\ obj[q] # NoRule /\ obj[q] \in RuleObject
    BY <1>4 DEF EditRule, DataOK
  <2>2. o \in RuleObject
    BY <2>1, ControllerAssumption DEF RuleObject
  <2>3. o # NoRule
    BY <2>2, ControllerAssumption
  <2>4. lifeOf(o) = lifeOf(obj[q]) /\ wantedOf(o) = s /\ countOf(o) = countOf(obj[q])
    BY <2>1, <2>3 DEF lifeOf, wantedOf, countOf, RuleObject
  <2> HIDE DEF o
  <2>5. /\ Lives' = [Lives EXCEPT ![q] = Lives[q]]
        /\ Wanted' = [Wanted EXCEPT ![q] = s]
        /\ Counts' = [Counts EXCEPT ![q] = Counts[q]]
    BY <2>1, <2>4, StoredLife, LifeParts
  <2>6. Lives' = Lives
    BY <2>5, Zenon DEF Lives
  <2>7. Counts' = Counts
    BY <2>5, Zenon DEF Counts
  <2>8. Lives[q] # "absent"
    BY <2>1 DEF Lives, lifeOf
  <2> QED
    BY <1>2, <2>5, <2>6, <2>7, <2>8 DEF Lifecycle!Edit
<1>5. ASSUME NEW q \in Rules, DeleteRule(q)
      PROVE  Lifecycle!Delete(q) \/ Lifecycle!MarkDeleted(q)
  <2>1. obj[q] # NoRule /\ obj[q] \in RuleObject /\ ~obj[q].deleting
    BY <1>5 DEF DeleteRule, DataOK
  <2>2. CASE obj[q].finalizer
    <3> DEFINE o == [obj[q] EXCEPT !.deleting = TRUE]
    <3>1. Stored(q, o)
      BY <1>5, <2>2 DEF DeleteRule
    <3>2. o \in RuleObject
      BY <2>1 DEF RuleObject
    <3>3. o # NoRule
      BY <3>2, ControllerAssumption
    <3>4. lifeOf(o) = "ending" /\ wantedOf(o) = wantedOf(obj[q])
          /\ countOf(o) = countOf(obj[q])
      BY <2>1, <3>3 DEF lifeOf, wantedOf, countOf, RuleObject
    <3> HIDE DEF o
    <3>5. /\ Lives' = [Lives EXCEPT ![q] = "ending"]
          /\ Wanted' = [Wanted EXCEPT ![q] = Wanted[q]]
          /\ Counts' = [Counts EXCEPT ![q] = Counts[q]]
      BY <3>1, <3>4, StoredLife, LifeParts
    <3>6. Wanted' = Wanted
      BY <3>5, Zenon DEF Wanted
    <3>7. Counts' = Counts
      BY <3>5, Zenon DEF Counts
    <3>8. Lives[q] = "held"
      BY <2>1, <2>2 DEF Lives, lifeOf
    <3> QED
      BY <1>2, <3>5, <3>6, <3>7, <3>8 DEF Lifecycle!MarkDeleted
  <2>3. CASE ~obj[q].finalizer
    <3>1. Stored(q, NoRule)
      BY <1>5, <2>3 DEF DeleteRule
    <3>2. Lives[q] = "new"
      BY <2>1, <2>3 DEF Lives, lifeOf
    <3>3. lifeOf(NoRule) = "absent" /\ wantedOf(NoRule) = NoRule /\ countOf(NoRule) = 0
      BY DEF lifeOf, wantedOf, countOf
    <3> QED
      BY <1>2, <3>1, <3>2, <3>3, StoredLife DEF Lifecycle!Delete, Lifecycle!Absent
  <2> QED
    BY <2>2, <2>3
<1>6. ASSUME NEW q \in Rules, TouchRule(q) PROVE UNCHANGED Lifecycle!vars
  <2>1. Stored(q, obj[q])
    BY <1>6 DEF TouchRule
  <2> QED
    BY <1>2, <2>1, StoredUnseen DEF RuleData, Lifecycle!vars
<1> QED
    BY <1>3, <1>4, <1>5, <1>6 DEF ClientStep, Lifecycle!Next

LEMMA FetchLife ==
    ASSUME CtlInv, FetchStep
    PROVE  [Lifecycle!Next]_(Lifecycle!vars)
<1>1. UNCHANGED RuleData /\ UNCHANGED <<InWork, TriesLeft>>
    BY ReconcilerFrame, SilentFrame, UnwrittenUnseen, SameWork DEF ExecutionUnseen
<1>2. ASSUME NEW r \in Rules, fetchRule(r) PROVE UNCHANGED Lifecycle!vars
  <2>1. Scheduled' = Scheduled
    BY <1>2, TaskMap DEF fetchRule, vars, schedVars
  <2> QED
    BY <1>1, <2>1 DEF RuleData, Lifecycle!vars
<1>3. ASSUME NEW r \in Rules, fetchRuleNotFound(r) PROVE Lifecycle!Unschedule(r)
  <2>1. Scheduled' = Scheduled \ {r}
    BY <1>3, TaskMap DEF fetchRuleNotFound, UnscheduleRule
  <2> QED
    BY <1>1, <2>1 DEF RuleData, Lifecycle!Unschedule
<1> QED
    BY <1>2, <1>3 DEF FetchStep, Lifecycle!Next

LEMMA SilentLife ==
    ASSUME CtlInv, SilentStep
    PROVE  [Lifecycle!Next]_(Lifecycle!vars)
<1>1. UNCHANGED RuleData /\ UNCHANGED <<InWork, TriesLeft>>
    BY ReconcilerFrame, SilentFrame, UnwrittenUnseen, SameWork DEF ExecutionUnseen
<1>2. CASE scheduleRule
  <2> DEFINE next == CalculateNextExecution(scheduleInput.schedule,
                                            scheduleInput.lastExecution, now)
  <2>1. req \in Rules /\ Finalized(req)
    BY <1>2, RequestFacts DEF CtlInv, FinalizerInv, scheduleRule
  <2>2. \/ tasks' = [tasks EXCEPT ![req] = NoTask]
        \/ /\ next # NoTime
           /\ GetExecutionAction(scheduleInput.schedule, scheduleInput.lastExecution) # ""
           /\ tasks' = [tasks EXCEPT ![req] = newTask(scheduleInput, next)]
    BY <1>2, Zenon DEF scheduleRule, ScheduleRule, scheduleInput
  <2>3. CASE tasks' = [tasks EXCEPT ![req] = NoTask]
    <3>1. Lifecycle!Unschedule(req)
      BY <1>1, <2>1, <2>3, TaskMap DEF RuleData, Lifecycle!Unschedule
    <3> QED
      BY <2>1, <3>1 DEF Lifecycle!Next
  <2>4. CASE /\ next # NoTime
             /\ GetExecutionAction(scheduleInput.schedule, scheduleInput.lastExecution) # ""
             /\ tasks' = [tasks EXCEPT ![req] = newTask(scheduleInput, next)]
    <3>1. newTask(scheduleInput, next) # NoTask
      <4>1. scheduleInput \in RuleInput /\ now \in Nat
        BY <1>2, ScheduleInputType DEF scheduleRule, CtlInv, CtlTypeOK, TypeOK
      <4>2. newTask(scheduleInput, next) \in ScheduledTask
        BY <1>2, <2>4, <4>1, NewTaskType DEF scheduleRule, ScheduleRule
      <4> QED
        BY <4>2, NoTaskAssumption
    <3>2. Lives[req] \in {"held", "ending"}
      BY <2>1 DEF Finalized, Lives, lifeOf
    <3>3. Lifecycle!Schedule(req)
      BY <1>1, <2>1, <2>4, <3>1, <3>2, TaskMap DEF RuleData, Lifecycle!Schedule
    <3> QED
      BY <2>1, <3>3 DEF Lifecycle!Next
  <2> QED
    BY <2>2, <2>3, <2>4
<1>3. CASE handleDeletion
  <2>1. req \in Rules /\ tasks' = [tasks EXCEPT ![req] = NoTask]
    BY <1>3, RequestFacts DEF handleDeletion, UnscheduleRule
  <2>2. Lifecycle!Unschedule(req)
    BY <1>1, <2>1, TaskMap DEF RuleData, Lifecycle!Unschedule
  <2> QED
    BY <2>1, <2>2 DEF Lifecycle!Next
<1>4. CASE ~scheduleRule /\ ~handleDeletion
  <2>1. tasks' = tasks
    BY <1>4 DEF SilentStep, safeReconcile, validationStatusError,
       scheduleRuleError, processNextExecutionTime, processNextExecutionTimeError,
       cleanupRuleAnnotations, cleanupRuleAnnotationsError, updateError, vars, schedVars
  <2>2. Scheduled' = Scheduled
    BY <2>1 DEF Scheduled
  <2> QED
    BY <1>1, <2>2 DEF RuleData, Lifecycle!vars
<1> QED
    BY <1>2, <1>3, <1>4

\* The status that the reconciler writes has the count of the object.
LEMMA WriteStatusLife ==
    ASSUME CtlInv, DataOK, rec \notin {"idle", "panic"}, NEW st \in RuleStatus,
           st.executions = rule.status.executions, WriteStatus(st)
    PROVE  UNCHANGED RuleData
<1> DEFINE o == [obj[req] EXCEPT !.status = st]
<1>1. /\ req \in Rules /\ obj[req] \in RuleObject /\ obj[req] # NoRule
      /\ SameRule(rule, obj[req])
    BY RequestFacts DEF WriteStatus
<1>2. CASE Stored(req, o)
  <2>1. o \in RuleObject
    BY <1>1 DEF RuleObject
  <2>2. o # NoRule
    BY <2>1, ControllerAssumption
  <2>3. /\ o.spec = obj[req].spec /\ o.deleting = obj[req].deleting
        /\ o.finalizer = obj[req].finalizer
        /\ o.status.executions = obj[req].status.executions
    BY <1>1 DEF RuleObject, SameRule
  <2> HIDE DEF o
  <2>4. /\ lifeOf(o) = lifeOf(obj[req]) /\ wantedOf(o) = wantedOf(obj[req])
        /\ countOf(o) = countOf(obj[req])
    BY <1>1, <2>2, <2>3 DEF lifeOf, wantedOf, countOf
  <2> QED
    BY <1>1, <1>2, <2>4, StoredUnseen
<1>3. CASE Unwritten
    BY <1>3, UnwrittenUnseen DEF Unwritten
<1> QED
    BY <1>2, <1>3 DEF WriteStatus

LEMMA WritingLife ==
    ASSUME CtlInv, DataOK, WritingStep
    PROVE  [Lifecycle!Next]_(Lifecycle!vars)
<1>1. tasks' = tasks
    BY DEF WritingStep, ensureFinalizer, validateAndUpdateRuleOnFailure,
       updateFailedStatus, updateRuleStatus, removeFinalizer, vars, schedVars
<1>2. Scheduled' = Scheduled /\ UNCHANGED <<InWork, TriesLeft>>
    BY <1>1, ReconcilerFrame, SameWork DEF Scheduled, ExecutionUnseen
<1>3. /\ req \in Rules /\ rule \in RuleObject /\ obj[req] # NoRule
      /\ SameRule(rule, obj[req]) /\ obj[req] \in RuleObject
    BY RequestFacts DEF WritingStep, ensureFinalizer, validateAndUpdateRuleOnFailure,
       updateFailedStatus, updateRuleStatus, removeFinalizer, WriteStatus
<1>4. CASE ensureFinalizer
  <2> DEFINE o == [rule EXCEPT !.finalizer = TRUE, !.status = obj[req].status]
  <2>1. Stored(req, o)
    BY <1>4 DEF ensureFinalizer
  <2>2. o \in RuleObject
    BY <1>3 DEF RuleObject
  <2>3. o # NoRule
    BY <2>2, ControllerAssumption
  <2>4. /\ o.status = obj[req].status /\ o.finalizer
        /\ o.spec = obj[req].spec /\ o.deleting = obj[req].deleting
    BY <1>3 DEF RuleObject, SameRule
  <2> HIDE DEF o
  <2>5. wantedOf(o) = wantedOf(obj[req]) /\ countOf(o) = countOf(obj[req])
    BY <1>3, <2>3, <2>4 DEF wantedOf, countOf
  <2>6. CASE Lives[req] = "new"
    <3>1. lifeOf(o) = "held"
      BY <1>3, <2>3, <2>4, <2>6 DEF Lives, lifeOf
    <3>2. /\ Lives' = [Lives EXCEPT ![req] = "held"]
          /\ Wanted' = [Wanted EXCEPT ![req] = Wanted[req]]
          /\ Counts' = [Counts EXCEPT ![req] = Counts[req]]
      BY <1>3, <2>1, <2>5, <3>1, StoredLife, LifeParts
    <3>3. Wanted' = Wanted
      BY <3>2, Zenon DEF Wanted
    <3>4. Counts' = Counts
      BY <3>2, Zenon DEF Counts
    <3>5. Lifecycle!Hold(req)
      BY <1>2, <2>6, <3>2, <3>3, <3>4 DEF Lifecycle!Hold
    <3> QED
      BY <1>3, <3>5 DEF Lifecycle!Next
  <2>7. CASE Lives[req] # "new"
    <3>1. lifeOf(o) = lifeOf(obj[req])
      BY <1>3, <2>3, <2>4, <2>7 DEF Lives, lifeOf
    <3> QED
      BY <1>2, <1>3, <2>1, <2>5, <3>1, StoredUnseen DEF RuleData, Lifecycle!vars
  <2> QED
    BY <2>6, <2>7
<1>5. CASE validateAndUpdateRuleOnFailure \/ updateFailedStatus \/ updateRuleStatus
  <2>1. /\ rule.status \in RuleStatus
        /\ [rule.status EXCEPT !.phase = "failed"] \in RuleStatus
        /\ [rule.status EXCEPT !.phase = "failed"].executions = rule.status.executions
    BY <1>3 DEF RuleObject, RuleStatus, Phases
  <2>2. UNCHANGED RuleData
    BY <1>5, <2>1, WriteStatusLife DEF validateAndUpdateRuleOnFailure,
       updateFailedStatus, updateRuleStatus
  <2> QED
    BY <1>2, <2>2 DEF RuleData, Lifecycle!vars
<1>6. CASE removeFinalizer
  <2>1. Stored(req, NoRule)
    BY <1>6 DEF removeFinalizer
  <2>2. Lives[req] = "ending" /\ req \notin Scheduled
    BY <1>3, <1>6, RemovalFacts DEF Lives, lifeOf, Scheduled
  <2>3. lifeOf(NoRule) = "absent" /\ wantedOf(NoRule) = NoRule /\ countOf(NoRule) = 0
    BY DEF lifeOf, wantedOf, countOf
  <2>4. Lifecycle!Release(req)
    BY <1>2, <1>3, <2>1, <2>2, <2>3, StoredLife DEF Lifecycle!Release, Lifecycle!Absent
  <2> QED
    BY <1>3, <2>4 DEF Lifecycle!Next
<1> QED
    BY <1>4, <1>5, <1>6 DEF WritingStep

LEMMA OwnLife ==
    ASSUME CtlInv, OwnStep
    PROVE  [Lifecycle!Next]_(Lifecycle!vars)
<1>1. UNCHANGED <<obj, step, attempt>> /\ TriesLeft' = TriesLeft
    BY OwnFrame DEF ctlVars, apiVars, execVars, TriesLeft
<1>2. UNCHANGED RuleData
    BY <1>1, UnwrittenUnseen
<1>3. CASE LoopStep \/ StartScheduler \/ (AdvanceClock /\ UNCHANGED ctlVars)
  <2>1. UNCHANGED <<tasks, job>>
    BY <1>3 DEF LoopStep, LoopTick, CheckTasks, QueueTask, StartScheduler, Start,
       AdvanceClock, schedVars
  <2>2. Scheduled' = Scheduled /\ InWork' = InWork
    BY <1>1, <2>1, SameWork DEF Scheduled, ExecutionUnseen
  <2> QED
    BY <1>1, <1>2, <2>2 DEF RuleData, Lifecycle!vars
<1>4. ASSUME NEW w \in Workers, WorkerStep(w)
      PROVE  [Lifecycle!Next]_(Lifecycle!vars)
  <2>1. step[w] = "off" /\ job \in [Workers -> ScheduledTask \cup {NoTask}]
    BY <1>4 DEF WorkerStep, WorkerTake, DeleteTask, CtlInv, WorkersInv, CtlTypeOK, TypeOK
  <2>2. \A v \in Workers : v # w => job'[v] = job[v]
    BY <1>4, <2>1 DEF WorkerStep, WorkerTake, DeleteTask
  <2>3. InWork' = InWork
    BY <1>1, <2>1, <2>2, Zenon DEF InWork
  <2>4. CASE WorkerTake(w)
    <3>1. Scheduled' = Scheduled
      BY <2>4 DEF WorkerTake, Scheduled
    <3> QED
      BY <1>1, <1>2, <2>3, <3>1 DEF RuleData, Lifecycle!vars
  <2>5. CASE DeleteTask(w)
    <3>1. job[w] # NoTask
      BY <2>5 DEF DeleteTask, CtlInv, WorkersInv
    <3>2. job[w].ruleID \in Rules
      BY <2>1, <3>1 DEF ScheduledTask
    <3>3. Lifecycle!Unschedule(job[w].ruleID)
      BY <1>1, <1>2, <2>3, <2>5, <3>2, TaskMap
      DEF DeleteTask, RuleData, Lifecycle!Unschedule
    <3> QED
      BY <3>2, <3>3 DEF Lifecycle!Next
  <2> QED
    BY <1>4, <2>4, <2>5 DEF WorkerStep
<1> QED
    BY <1>3, <1>4 DEF OwnStep

LEMMA ExecutorLife ==
    ASSUME CtlInv, DataOK, NEW w \in Workers, ExecutorNext(w)
    PROVE  [Lifecycle!Next]_(Lifecycle!vars)
<1>0. /\ step \in [Workers -> {"off", "run", "get", "put"}] /\ NoRule \notin Rules
      /\ attempt \in [Workers -> 0..MaxRetries] /\ MaxRetries \in Nat
    BY ControllerAssumption DEF CtlInv, CtlTypeOK
<1>e. ASSUME ExecuteTaskReturn(w)
      PROVE  Lifecycle!Tried(w)
  <2>1. /\ step' = [step EXCEPT ![w] = "off"] /\ attempt' = [attempt EXCEPT ![w] = 0]
        /\ job' = job
    BY <1>e DEF ExecuteTaskReturn, ExecuteReturn
  <2>2. InWork' = [InWork EXCEPT ![w] = NoRule]
    BY <1>0, <2>1 DEF InWork
  <2>3. TriesLeft' = [TriesLeft EXCEPT ![w] = MaxRetries + 1]
    <3>1. attempt'[w] = 0 /\ \A v \in Workers : v # w => attempt'[v] = attempt[v]
      BY <1>0, <2>1
    <3>2. /\ TriesLeft'[w] = MaxRetries + 1
          /\ \A v \in Workers : v # w => TriesLeft'[v] = TriesLeft[v]
      BY <1>0, <3>1 DEF TriesLeft
    <3> QED
      BY <3>2, Zenon DEF TriesLeft
  <2> QED
    BY <2>2, <2>3 DEF Lifecycle!Tried
<1>r. ASSUME Retried(w), step[w] # "off", job' = job
      PROVE  Lifecycle!Tried(w)
  <2>1. InWork' = InWork
    BY <1>0, <1>r DEF InWork, Retried
  <2>2. TriesLeft' = [TriesLeft EXCEPT ![w] = TriesLeft[w] - 1]
    <3>1. /\ attempt'[w] = attempt[w] + 1
          /\ \A v \in Workers : v # w => attempt'[v] = attempt[v]
      BY <1>0, <1>r DEF Retried
    <3>2. /\ TriesLeft'[w] = TriesLeft[w] - 1
          /\ \A v \in Workers : v # w => TriesLeft'[v] = TriesLeft[v]
      BY <1>0, <3>1 DEF TriesLeft
    <3> QED
      BY <3>2, Zenon DEF TriesLeft
  <2>3. TriesLeft[w] > 1
    BY <1>0, <1>r DEF TriesLeft, Retried
  <2> QED
    BY <2>1, <2>2, <2>3 DEF Lifecycle!Tried
<1>1. UNCHANGED <<tasks, job>>
    BY
    DEF ExecutorNext, ExecuteTask, AcquireSemaphore, executeApplyAction,
        executeRemoveAction, executed, statusGet, statusUpdate, statusUpdateFails,
        statusUpdateRetry, Retried, statusUpdateUnanswered, ExecuteTaskReturn,
        ExecuteReturn, vars, schedVars
<1>2. Scheduled' = Scheduled
    BY <1>1 DEF Scheduled
<1>3. CASE ExecuteTask(w)
  <2>1. worker[w] = "acquire"
    BY <1>3 DEF ExecuteTask, AcquireSemaphore
  <2>2. step[w] = "off" /\ job[w] \in ScheduledTask
    BY <2>1 DEF CtlInv, WorkersInv, CtlTypeOK, TypeOK
  <2>3. job[w].ruleID \in Rules
    BY <2>2 DEF ScheduledTask
  <2>4. step' = [step EXCEPT ![w] = "run"] /\ UNCHANGED RuleData
    BY <1>3, UnwrittenUnseen DEF ExecuteTask, apiVars
  <2>5. InWork' = [InWork EXCEPT ![w] = job[w].ruleID]
    BY <1>0, <1>1, <2>4 DEF InWork
  <2>6. InWork[w] = NoRule
    BY <2>2 DEF InWork
  <2>7. TriesLeft' = TriesLeft
    BY <1>3 DEF ExecuteTask, TriesLeft
  <2>8. Lifecycle!Begin(w, job[w].ruleID)
    BY <1>2, <2>4, <2>5, <2>6, <2>7 DEF Lifecycle!Begin, RuleData
  <2> QED
    BY <2>3, <2>8 DEF Lifecycle!Next
<1>4. CASE Recording(w)
  <2> DEFINE r == job[w].ruleID
             o == [obj[r] EXCEPT !.status = executedStatus(w)]
  <2>1. /\ r \in Rules /\ obj[r] \in RuleObject /\ obj[r] # NoRule
        /\ executedStatus(w) \in RuleStatus
        /\ executedStatus(w).executions = obj[r].status.executions + 1
        /\ Stored(r, o) /\ step[w] # "off"
    BY <1>4, ExecutionFacts DEF Recording, statusUpdate, statusUpdateUnanswered
  <2>2. o \in RuleObject
    BY <2>1 DEF RuleObject
  <2>3. o # NoRule
    BY <2>2, ControllerAssumption
  <2>4. /\ o.status.executions = obj[r].status.executions + 1
        /\ o.finalizer = obj[r].finalizer
        /\ o.spec = obj[r].spec /\ o.deleting = obj[r].deleting
    BY <2>1 DEF RuleObject
  <2>5. InWork[w] = r
    BY <2>1 DEF InWork
  <2>6. Lifecycle!Tried(w)
    BY <1>1, <1>4, <1>e, <1>r, <2>1 DEF Recording, statusUpdate, statusUpdateUnanswered
  <2> HIDE DEF o, r
  <2>7. /\ lifeOf(o) = lifeOf(obj[r]) /\ wantedOf(o) = wantedOf(obj[r])
        /\ countOf(o) = countOf(obj[r]) + 1 /\ lifeOf(obj[r]) # "absent"
    BY <2>1, <2>3, <2>4 DEF lifeOf, wantedOf, countOf
  <2>8. /\ Lives' = [Lives EXCEPT ![r] = Lives[r]]
        /\ Wanted' = [Wanted EXCEPT ![r] = Wanted[r]]
        /\ Counts' = [Counts EXCEPT ![r] = Counts[r] + 1]
        /\ Lives[r] # "absent"
    BY <2>1, <2>7, StoredLife, LifeParts
  <2>9. Lives' = Lives /\ Wanted' = Wanted
    BY <2>8, Zenon DEF Lives, Wanted
  <2>10. Lifecycle!Counted(w)
    BY <1>0, <1>2, <2>1, <2>5, <2>6, <2>8, <2>9 DEF Lifecycle!Counted
  <2> QED
    BY <2>10 DEF Lifecycle!Next
<1>5. CASE statusUpdateFails(w) \/ statusUpdateRetry(w)
  <2>1. UNCHANGED RuleData
    BY <1>5, UnwrittenUnseen DEF statusUpdateFails, statusUpdateRetry, apiVars
  <2>2. step[w] # "off" /\ Lifecycle!Tried(w)
    BY <1>1, <1>5, <1>e, <1>r DEF statusUpdateFails, statusUpdateRetry
  <2>3. InWork[w] # NoRule
    BY <1>0, <2>2, ExecutionFacts DEF InWork
  <2> QED
    BY <1>2, <2>1, <2>2, <2>3 DEF Lifecycle!Next, Lifecycle!Uncounted, RuleData
<1>6. CASE \/ \E ok \in BOOLEAN : executeApplyAction(w, ok) \/ executeRemoveAction(w, ok)
           \/ statusGet(w)
  <2>1. UNCHANGED RuleData /\ attempt' = attempt
    BY <1>6, UnwrittenUnseen DEF executeApplyAction, executeRemoveAction, executed,
       statusGet, apiVars
  <2>2. step[w] # "off" /\ \E s \in {"get", "put"} : step' = [step EXCEPT ![w] = s]
    BY <1>6 DEF executeApplyAction, executeRemoveAction, executed, statusGet
  <2>3. InWork' = InWork /\ TriesLeft' = TriesLeft
    BY <1>0, <1>1, <2>1, <2>2 DEF InWork, TriesLeft
  <2> QED
    BY <1>2, <2>1, <2>3 DEF RuleData, Lifecycle!vars
<1> QED
    BY <1>3, <1>4, <1>5, <1>6 DEF ExecutorNext, Recording

LEMMA LifeStep ==
    ASSUME CtlInv, [CtlNext]_allVars
    PROVE  [Lifecycle!Next]_(Lifecycle!vars)
<1>0. DataOK
    BY DEF CtlInv, CtlTypeOK, DatesInv, DataOK
<1>1. CASE Restart
  <2>1. UNCHANGED RuleData
    BY <1>1, UnwrittenUnseen DEF Restart
  <2>2. /\ Scheduled' = {} /\ InWork' = [w \in Workers |-> NoRule]
        /\ TriesLeft' = [w \in Workers |-> MaxRetries + 1]
    BY <1>1, ControllerAssumption DEF Restart, Scheduled, InWork, TriesLeft
  <2> QED
    BY <2>1, <2>2 DEF RuleData, Lifecycle!Next, Lifecycle!Reset
<1>2. CASE UNCHANGED allVars \/ \E r \in Rules : SyncInformer(r)
  <2>1. UNCHANGED <<obj, tasks, job, step, attempt>>
    BY <1>2 DEF SyncInformer, allVars, vars, schedVars, ctlVars, apiVars, execVars
  <2>2. UNCHANGED RuleData /\ Scheduled' = Scheduled /\ ExecutionUnseen
    BY <2>1, UnwrittenUnseen, SameWork DEF Scheduled
  <2> QED
    BY <2>2 DEF RuleData, ExecutionUnseen, Lifecycle!vars
<1> QED
    BY <1>0, <1>1, <1>2, CtlCases, ClientLife, FetchLife, SilentLife, WritingLife,
       OwnLife, ExecutorLife

\* Conflicts, stale copies and restarts never show: a rule comes and goes as
\* RuleLifecycle says, it vanishes from under the finalizer only when the
\* scheduler has no task of it, and an execution is counted at most once by
\* each of the MaxRetries + 1 attempts to record it.
THEOREM KeepsLifecycleCorrect == CtlSpec => KeepsLifecycle
<1>1. CtlInit => Lifecycle!Init
  <2>1. CtlInit => TriesLeft = [w \in Workers |-> MaxRetries + 1]
    BY ControllerAssumption DEF CtlInit, TriesLeft
  <2> QED
    BY <2>1, Zenon DEF CtlInit, Init, Lifecycle!Init, Lives, Wanted, Counts, Scheduled,
       InWork, lifeOf
<1>2. CtlInv /\ [CtlNext]_allVars => [Lifecycle!Next]_(Lifecycle!vars)
    BY LifeStep
<1> QED
    BY <1>1, <1>2, CtlInvInductive, PTL DEF CtlSpec, KeepsLifecycle, Lifecycle!Spec
=============================================================================
