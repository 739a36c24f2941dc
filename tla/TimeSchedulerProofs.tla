------------------------- MODULE TimeSchedulerProofs -------------------------
(***************************************************************************)
(* Proofs of the safety invariants of TimeScheduler for every set of       *)
(* rules, every finite set of workers and every queue capacity.            *)
(***************************************************************************)
EXTENDS TimeScheduler, FiniteSetTheorems, SequenceTheorems, TLAPS

-----------------------------------------------------------------------------
(* Facts about the operators.                                              *)

\* A sequence over a set is a sequence over any larger one.
LEMMA SeqMonotone ==
    ASSUME NEW S, NEW T, S \subseteq T, NEW s \in Seq(S)
    PROVE  s \in Seq(T)
<1>1. Len(s) \in Nat /\ s \in [1..Len(s) -> S]
    BY LenProperties
<1>2. s \in [1..Len(s) -> T]
    BY <1>1
<1> QED
    BY <1>1, <1>2, IsASeq

\* The next firing of a cron schedule is a time later than the one it is
\* computed from (robfig/cron's Next).
LEMMA CronNextLater ==
    ASSUME NEW p \in Nat \ {0}, NEW t \in Nat
    PROVE  CronNext(p, t) \in Nat /\ CronNext(p, t) > t
<1>1. t \div p \in Nat /\ p * (t \div p) \in Nat
    BY SMT
<1>2. t = p * (t \div p) + (t % p) /\ t % p \in 0..(p - 1)
    BY SMT
<1>3. p * ((t \div p) + 1) = p * (t \div p) + p
    BY <1>1, SMT
<1> QED
    BY <1>1, <1>2, <1>3, SMT DEF CronNext

\* CalculateNextExecution returns a time or nil.
LEMMA NextExecutionType ==
    ASSUME NEW s \in ScheduleConfig, ValidateSchedule(s),
           NEW last \in OptTime, NEW t \in Nat
    PROVE  CalculateNextExecution(s, last, t) \in OptTime
<1>1. CASE s.type = "datetime"
    BY <1>1, Zenon DEF CalculateNextExecution, calculateDateTimeNextExecution,
       ScheduleConfig, OptTime
<1>2. CASE s.type # "datetime"
  <2>1. s.cronExpression \in Nat \ {0}
    BY <1>2 DEF ScheduleConfig, CronExpression, ValidateSchedule, validateCronSchedule,
       NoCron, MalformedCron
  <2>2. (IF last # NoTime THEN last ELSE t) \in Nat
    BY DEF OptTime
  <2>3. CronNext(s.cronExpression, IF last # NoTime THEN last ELSE t) \in Nat
    BY <2>1, <2>2, CronNextLater
  <2> QED
    BY <1>2, <2>3 DEF CalculateNextExecution, calculateCronNextExecution, OptTime
<1> QED
    BY <1>1, <1>2

\* A next execution comes with an action.
LEMMA NextHasAction ==
    ASSUME NEW s \in ScheduleConfig, ValidateSchedule(s), NEW last \in OptTime,
           NEW t \in Nat, CalculateNextExecution(s, last, t) # NoTime
    PROVE  GetExecutionAction(s, last) # ""
<1>1. CASE s.type = "datetime"
    BY <1>1 DEF CalculateNextExecution, calculateDateTimeNextExecution,
       GetExecutionAction, getDateTimeAction
<1>2. CASE s.type # "datetime"
    BY <1>2 DEF GetExecutionAction, ValidateSchedule, validateCronSchedule, Actions
<1> QED
    BY <1>1, <1>2

\* A completed schedule has no next execution, and a window that has not been
\* executed has its start before it.
LEMMA PhaseAndNext ==
    ASSUME NEW s \in ScheduleConfig, NEW last \in OptTime, NEW t \in Nat
    PROVE  LET phase == GetSchedulePhase(s, t)
               next == CalculateNextExecution(s, last, t)
           IN  /\ phase = "completed" => next = NoTime
               /\ phase = "pending" /\ last = NoTime => next = s.startTime
<1>1. CASE ValidateSchedule(s) /\ s.type = "datetime"
  <2>1. /\ s.startTime \in Nat /\ s.startTime # NoTime
        /\ s.endTime # NoTime => s.endTime \in Nat /\ s.endTime > s.startTime
    BY <1>1 DEF ValidateSchedule, validateDateTimeSchedule, ScheduleConfig, OptTime
  <2> QED
    BY <1>1, <2>1 DEF GetSchedulePhase, getDateTimePhase, CalculateNextExecution,
       calculateDateTimeNextExecution
<1>2. CASE ~(ValidateSchedule(s) /\ s.type = "datetime")
    BY <1>2 DEF GetSchedulePhase
<1> QED
    BY <1>1, <1>2

\* Clock readings up to now are times.
LEMMA IntervalNat == \A n \in Nat : \A x \in 0..n : x \in Nat
BY SMT

\* What ScheduleRule puts in the map is a task.
LEMMA NewTaskType ==
    ASSUME now \in Nat, NEW rule \in RuleInput,
           ValidateSchedule(rule.schedule),
           CalculateNextExecution(rule.schedule, rule.lastExecution, now) # NoTime,
           GetExecutionAction(rule.schedule, rule.lastExecution) # ""
    PROVE  newTask(rule, CalculateNextExecution(rule.schedule, rule.lastExecution, now))
             \in ScheduledTask
<1> DEFINE next == CalculateNextExecution(rule.schedule, rule.lastExecution, now)
<1>1. rule.schedule \in ScheduleConfig /\ rule.lastExecution \in OptTime
  <2>1. rule.schedule \in Schedules /\ rule.lastExecution \in {NoTime} \cup 0..now
    BY DEF RuleInput
  <2>2. \A x \in 0..now : x \in Nat
    BY IntervalNat, Zenon
  <2> QED
    BY <2>1, <2>2, SchedulerAssumption, Zenon DEF OptTime
<1>2. next \in Nat
    BY <1>1, NextExecutionType DEF OptTime
<1>3. GetExecutionAction(rule.schedule, rule.lastExecution) \in Actions
    BY <1>1 DEF GetExecutionAction, getDateTimeAction, ScheduleConfig, Actions
<1> QED
    BY <1>2, <1>3 DEF newTask, ScheduledTask, RuleInput

-----------------------------------------------------------------------------
(* Types and the semaphore.  That sem stays a natural number when a worker *)
(* releases its token is the balance of the semaphore, and that Start, which *)
(* positions all workers, keeps the balance is that none ran before it.    *)

Holders == {w \in Workers : worker[w] \in {"execute", "delete"}}

NoneBeforeStart == loop = "off" => \A w \in Workers : worker[w] = "off"

TypeInv == TypeOK /\ SemaphoreBalanced /\ NoneBeforeStart

LEMMA HoldersFinite == IsFiniteSet(Holders)
BY FS_Subset, SchedulerAssumption DEF Holders

\* Changing one worker's position adds or removes at most that worker.
LEMMA HoldersStep ==
    ASSUME TypeOK, SemaphoreBalanced, NEW w \in Workers,
           NEW st \in WorkerStates, worker' = [worker EXCEPT ![w] = st]
    PROVE  /\ (worker[w] \in {"execute", "delete"} <=> st \in {"execute", "delete"})
                => Holders' = Holders
           /\ worker[w] \notin {"execute", "delete"} /\ st \in {"execute", "delete"}
                => Cardinality(Holders') = sem + 1
           /\ worker[w] \in {"execute", "delete"} /\ st \notin {"execute", "delete"}
                => sem > 0 /\ Cardinality(Holders') = sem - 1
<1>0. IsFiniteSet(Holders) /\ sem = Cardinality(Holders) /\ sem \in Nat
    BY HoldersFinite DEF SemaphoreBalanced, Holders, TypeOK
<1>1. ASSUME worker[w] \in {"execute", "delete"} <=> st \in {"execute", "delete"}
      PROVE  Holders' = Holders
    BY <1>1 DEF Holders, TypeOK
<1>2. ASSUME worker[w] \notin {"execute", "delete"}, st \in {"execute", "delete"}
      PROVE  Cardinality(Holders') = sem + 1
  <2>1. Holders' = Holders \cup {w} /\ w \notin Holders
    BY <1>2 DEF Holders, TypeOK
  <2> QED
    BY <1>0, <2>1, FS_AddElement
<1>3. ASSUME worker[w] \in {"execute", "delete"}, st \notin {"execute", "delete"}
      PROVE  sem > 0 /\ Cardinality(Holders') = sem - 1
  <2>1. Holders' = Holders \ {w} /\ w \in Holders
    BY <1>3 DEF Holders, TypeOK
  <2>2. sem # 0
    BY <1>0, <2>1, FS_EmptySet
  <2>3. Cardinality(Holders \ {w}) = Cardinality(Holders) - 1
    BY <1>0, <2>1, FS_RemoveElement
  <2> QED
    BY <1>0, <2>1, <2>2, <2>3
<1> QED
    BY <1>1, <1>2, <1>3

LEMMA TypeInit == Init => TypeInv
<1> SUFFICES ASSUME Init PROVE TypeInv
    OBVIOUS
<1>1. TypeOK
  <2>1. taskQueue \in Seq(ScheduledTask) /\ now \in Nat /\ sem \in Nat
    BY DEF Init
  <2> QED
    BY <2>1, Zenon DEF Init, TypeOK, LoopStates, WorkerStates
<1>2. {w \in Workers : worker[w] \in {"execute", "delete"}} = {}
    BY DEF Init
<1> QED
    BY <1>1, <1>2, FS_EmptySet DEF Init, TypeInv, SemaphoreBalanced, NoneBeforeStart

\* A worker is launched by Start, together with the loop.
LEMMA NoneBeforeStartStep ==
    NoneBeforeStart /\ [Next]_vars => NoneBeforeStart'
BY DEF NoneBeforeStart, Next, vars, schedVars, ClientNext, SchedulerNext,
   EnvNext, ScheduleRule, UnscheduleRule, Start, Stop, StopReturn, LoopNext,
   LoopTick, LoopExit, CheckTasks, QueueTask, WorkerNext, WorkerTake, WorkerExit,
   AcquireSemaphore, AbandonTask, ExecuteReturn, DeleteTask, AdvanceClock,
   CancelContext

LEMMA TypeStep == TypeInv /\ [Next]_vars => TypeInv'
<1> SUFFICES ASSUME TypeInv, [Next]_vars PROVE (TypeOK /\ SemaphoreBalanced)'
    BY NoneBeforeStartStep DEF TypeInv
<1> USE DEF TypeInv
<1>a. TypeOK /\ SemaphoreBalanced
    OBVIOUS
<1>1. ASSUME NEW rule \in RuleInput, ScheduleRule(rule) PROVE (TypeOK /\ SemaphoreBalanced)'
  <2>1. tasks' \in [Rules -> ScheduledTask \cup {NoTask}]
    <3>1. CASE tasks' = [tasks EXCEPT ![rule.ruleID] = NoTask]
      BY <3>1 DEF TypeOK
    <3>2. CASE tasks' # [tasks EXCEPT ![rule.ruleID] = NoTask]
      BY <1>1, <3>2, NewTaskType DEF ScheduleRule, TypeOK
    <3> QED
      BY <3>1, <3>2
  <2> QED
    BY <1>1, <2>1 DEF ScheduleRule, TypeOK, SemaphoreBalanced
<1>2. ASSUME NEW r \in Rules, UnscheduleRule(r) PROVE (TypeOK /\ SemaphoreBalanced)'
    BY <1>2 DEF UnscheduleRule, TypeOK, SemaphoreBalanced
<1>3. CASE Start
  <2>1. /\ {w \in Workers : worker[w] \in {"execute", "delete"}} = {}
        /\ {w \in Workers : worker[w] \in {"execute", "delete"}}' = {}
    BY <1>3 DEF Start, NoneBeforeStart
  <2>2. TypeOK'
    BY <1>3, Zenon DEF Start, TypeOK, LoopStates, WorkerStates
  <2>3. SemaphoreBalanced'
    BY <1>3, <2>1 DEF Start, SemaphoreBalanced
  <2> QED
    BY <2>2, <2>3
<1>4. CASE Stop
    BY <1>4 DEF Stop, TypeOK, SemaphoreBalanced
<1>5. CASE StopReturn
    BY <1>5 DEF StopReturn, TypeOK, SemaphoreBalanced
<1>6. CASE LoopTick \/ LoopExit
    BY <1>6 DEF LoopTick, LoopExit, TypeOK, LoopStates, SemaphoreBalanced
<1>7. CASE CheckTasks
  <2>1. dueTasks \subseteq ScheduledTask
    BY DEF dueTasks, TypeOK
  <2> QED
    BY <1>7, <2>1 DEF CheckTasks, TypeOK, LoopStates, SemaphoreBalanced
<1>8. ASSUME NEW t \in batch, QueueTask(t) PROVE (TypeOK /\ SemaphoreBalanced)'
  <2>1. t \in ScheduledTask
    BY DEF TypeOK
  <2>2. taskQueue' \in Seq(ScheduledTask)
    BY <1>8, <2>1, AppendProperties DEF QueueTask, TypeOK
  <2> QED
    BY <1>8, <2>2 DEF QueueTask, TypeOK, LoopStates, SemaphoreBalanced
<1>9. ASSUME NEW w \in Workers, WorkerNext(w) PROVE (TypeOK /\ SemaphoreBalanced)'
  <2>1. CASE WorkerTake(w)
    <3>1. Head(taskQueue) \in ScheduledTask /\ Tail(taskQueue) \in Seq(ScheduledTask)
      BY <2>1, HeadTailProperties DEF WorkerTake, TypeOK
    <3>2. Holders' = Holders
      BY <1>a, <2>1, HoldersStep DEF WorkerTake, WorkerStates
    <3> QED
      BY <2>1, <3>1, <3>2 DEF WorkerTake, TypeOK, WorkerStates, SemaphoreBalanced, Holders
  <2>2. CASE WorkerExit(w)
    <3>1. Holders' = Holders
      BY <1>a, <2>2, HoldersStep DEF WorkerExit, WorkerStates
    <3> QED
      BY <2>2, <3>1 DEF WorkerExit, TypeOK, WorkerStates, SemaphoreBalanced, Holders
  <2>3. CASE AcquireSemaphore(w)
    <3>1. Cardinality(Holders') = sem + 1
      BY <1>a, <2>3, HoldersStep DEF AcquireSemaphore, WorkerStates
    <3> QED
      BY <2>3, <3>1 DEF AcquireSemaphore, TypeOK, WorkerStates, SemaphoreBalanced, Holders
  <2>4. CASE AbandonTask(w)
    <3>1. Holders' = Holders
      BY <1>a, <2>4, HoldersStep DEF AbandonTask, WorkerStates
    <3> QED
      BY <2>4, <3>1 DEF AbandonTask, TypeOK, WorkerStates, SemaphoreBalanced, Holders
  <2>5. CASE ExecuteReturn(w)
    <3>1. Holders' = Holders
      BY <1>a, <2>5, HoldersStep DEF ExecuteReturn, WorkerStates
    <3> QED
      BY <2>5, <3>1 DEF ExecuteReturn, TypeOK, WorkerStates, SemaphoreBalanced, Holders
  <2>6. CASE DeleteTask(w)
    <3>1. sem > 0 /\ Cardinality(Holders') = sem - 1
      BY <1>a, <2>6, HoldersStep DEF DeleteTask, WorkerStates
    <3>2. sem' \in Nat
      BY <2>6, <3>1 DEF DeleteTask, TypeOK
    <3>3. tasks' \in [Rules -> ScheduledTask \cup {NoTask}]
      BY <2>6 DEF DeleteTask, TypeOK
    <3>4. TypeOK'
      BY <2>6, <3>2, <3>3 DEF DeleteTask, TypeOK, WorkerStates
    <3> QED
      BY <2>6, <3>1, <3>4 DEF DeleteTask, SemaphoreBalanced, Holders
  <2> QED
    BY <1>9, <2>1, <2>2, <2>3, <2>4, <2>5, <2>6 DEF WorkerNext
<1>10. CASE AdvanceClock
    BY <1>10 DEF AdvanceClock, schedVars, TypeOK, SemaphoreBalanced
<1>11. CASE CancelContext
    BY <1>11, Zenon DEF CancelContext, TypeOK, SemaphoreBalanced
<1>12. CASE UNCHANGED vars
    BY <1>12 DEF vars, schedVars, TypeOK, SemaphoreBalanced
<1> QED
    BY <1>1, <1>2, <1>3, <1>4, <1>5, <1>6, <1>7, <1>8, <1>9, <1>10, <1>11,
       <1>12
    DEF Next, ClientNext, SchedulerNext, LoopNext, EnvNext

\* Every variable of the scheduler keeps its type in every behaviour.
THEOREM TypeCorrect == Spec => []TypeOK
<1>1. TypeInv => TypeOK
    BY DEF TypeInv
<1> QED
    BY TypeInit, TypeStep, <1>1, PTL DEF Spec

\* A worker that has received a task always finds a token: the semaphore of
\* executeTaskWithSemaphore never makes it wait.
THEOREM SemaphoreCorrect == Spec => []SemaphoreNeverBlocks
<1>1. TypeInv => SemaphoreNeverBlocks
  <2> SUFFICES ASSUME TypeInv, NEW w \in Workers, worker[w] = "acquire"
               PROVE  sem < Cardinality(Workers)
    BY DEF SemaphoreNeverBlocks
  <2>1. Holders \subseteq Workers /\ Holders # Workers
    BY DEF Holders
  <2>2. /\ Cardinality(Holders) <= Cardinality(Workers)
        /\ Cardinality(Holders) # Cardinality(Workers)
    BY <2>1, FS_Subset, SchedulerAssumption
  <2>3. Cardinality(Holders) \in Nat /\ Cardinality(Workers) \in Nat
    BY FS_CardinalityType, HoldersFinite, SchedulerAssumption
  <2> QED
    BY <2>2, <2>3 DEF TypeInv, SemaphoreBalanced, Holders
<1> QED
    BY TypeInit, TypeStep, <1>1, PTL DEF Spec

-----------------------------------------------------------------------------
(* Times.  NotEarly speaks of the tasks in flight; it is inductive once it *)
(* is said of each place where they wait.                                  *)

Ripe == {t \in ScheduledTask : t.executeAt < now + Tolerance}

RipeInv ==
    /\ batch \subseteq Ripe
    /\ taskQueue \in Seq(Ripe)
    /\ job \in [Workers -> Ripe \cup {NoTask}]

\* Time passing keeps a ripe task ripe.
LEMMA RipeGrows ==
    ASSUME now \in Nat, now' \in Nat, now' >= now
    PROVE  Ripe \subseteq Ripe'
<1> SUFFICES ASSUME NEW t \in Ripe PROVE t \in Ripe'
    OBVIOUS
<1>1. t \in ScheduledTask /\ t.executeAt < now + Tolerance /\ t.executeAt \in Nat
    BY DEF Ripe, ScheduledTask
<1>2. t.executeAt < now' + Tolerance
    BY <1>1, TimeAssumption
<1> QED
    BY <1>1, <1>2 DEF Ripe, ScheduledTask

\* A step that leaves the clock alone leaves Ripe alone.
LEMMA RipeSame == now' = now => Ripe' = Ripe
BY DEF Ripe, ScheduledTask

LEMMA RipeStep == TypeOK /\ RipeInv /\ [Next]_vars => RipeInv'
<1> SUFFICES ASSUME TypeOK, RipeInv, [Next]_vars PROVE RipeInv'
    OBVIOUS
<1>1. ASSUME UNCHANGED <<now, batch, taskQueue, job>> PROVE RipeInv'
    BY <1>1, RipeSame DEF RipeInv
<1>2. CASE CheckTasks
  <2>1. dueTasks \subseteq Ripe
    BY DEF dueTasks, Ripe, ReadyAt, TypeOK
  <2> QED
    BY <1>2, <2>1, RipeSame DEF CheckTasks, RipeInv
<1>3. ASSUME NEW t \in batch, QueueTask(t) PROVE RipeInv'
  <2>1. taskQueue' \in Seq(Ripe)
    BY <1>3, AppendProperties DEF QueueTask, RipeInv
  <2> QED
    BY <1>3, <2>1, RipeSame DEF QueueTask, RipeInv
<1>4. ASSUME NEW w \in Workers, WorkerTake(w) PROVE RipeInv'
  <2>1. Head(taskQueue) \in Ripe /\ Tail(taskQueue) \in Seq(Ripe)
    BY <1>4, HeadTailProperties DEF WorkerTake, RipeInv
  <2> QED
    BY <1>4, <2>1, RipeSame DEF WorkerTake, RipeInv
<1>5. ASSUME NEW w \in Workers, AbandonTask(w) \/ DeleteTask(w) PROVE RipeInv'
    BY <1>5, RipeSame DEF AbandonTask, DeleteTask, RipeInv
<1>6. CASE AdvanceClock
  <2>1. Ripe \subseteq Ripe'
    BY <1>6, RipeGrows DEF AdvanceClock, TypeOK
  <2>2. taskQueue' \in Seq(Ripe')
    BY <1>6, <2>1, SeqMonotone DEF AdvanceClock, schedVars, RipeInv
  <2> QED
    BY <1>6, <2>1, <2>2 DEF AdvanceClock, schedVars, RipeInv
<1>7. CASE UNCHANGED vars
    BY <1>1, <1>7 DEF vars, schedVars
<1>8. ASSUME NEW rule \in RuleInput, ScheduleRule(rule) PROVE RipeInv'
    BY <1>1, <1>8 DEF ScheduleRule
<1>9. ASSUME NEW r \in Rules, UnscheduleRule(r) PROVE RipeInv'
    BY <1>1, <1>9 DEF UnscheduleRule
<1>10. CASE Start \/ Stop \/ StopReturn \/ LoopTick \/ LoopExit \/ CancelContext
    BY <1>1, <1>10 DEF Start, Stop, StopReturn, LoopTick, LoopExit, CancelContext
<1>11. ASSUME NEW w \in Workers,
              WorkerExit(w) \/ AcquireSemaphore(w) \/ ExecuteReturn(w)
       PROVE  RipeInv'
    BY <1>1, <1>11 DEF WorkerExit, AcquireSemaphore, ExecuteReturn
<1> QED
    BY <1>2, <1>3, <1>4, <1>5, <1>6, <1>7, <1>8, <1>9, <1>10, <1>11
    DEF Next, ClientNext, SchedulerNext, LoopNext, WorkerNext, EnvNext

\* No task is in flight before its time less the tolerance, through the
\* queue's delays and however the clock and the callers interleave.
THEOREM NotEarlyCorrect == Spec => []NotEarly
<1>1. Init => RipeInv
    BY EmptySeq, Zenon DEF Init, RipeInv
<1>2. RipeInv => NotEarly
  <2> SUFFICES ASSUME RipeInv, NEW t \in InFlight PROVE t \in Ripe
    BY DEF NotEarly, Ripe
  <2>1. ASSUME NEW i \in 1..Len(taskQueue) PROVE taskQueue[i] \in Ripe
    BY <2>1, ElementOfSeq DEF RipeInv
  <2> QED
    BY <2>1 DEF InFlight, RipeInv
<1> QED
    BY <1>1, <1>2, RipeStep, TypeCorrect, PTL DEF Spec

-----------------------------------------------------------------------------
(* What ScheduleRule reads off the parser.                                 *)

\* The fields of a rule are of the parser's types.
LEMMA RuleInputType ==
    ASSUME TypeOK, NEW rule \in RuleInput
    PROVE  rule.schedule \in ScheduleConfig /\ rule.lastExecution \in OptTime
BY IntervalNat, SchedulerAssumption DEF TypeOK, RuleInput, OptTime

\* ScheduleRule never finds a next execution without an action for it.
THEOREM ActionDefinedCorrect == Spec => []ActionDefined
<1>1. TypeOK => ActionDefined
    BY RuleInputType, NextHasAction DEF ActionDefined, TypeOK
<1> QED
    BY <1>1, TypeCorrect, PTL

\* The phase that the reconciler reports and the next execution that the
\* scheduler computes never contradict each other.
THEOREM PhaseAgreesCorrect == Spec => []PhaseAgrees
<1>1. TypeOK => PhaseAgrees
  <2> SUFFICES ASSUME TypeOK PROVE PhaseAgrees
    OBVIOUS
  <2>1. now \in Nat
    BY DEF TypeOK
  <2> QED
    BY <2>1, RuleInputType, PhaseAndNext DEF PhaseAgrees
<1> QED
    BY <1>1, TypeCorrect, PTL

-----------------------------------------------------------------------------
(* The end of the loop.                                                    *)

\* Once Stop has returned, schedulerLoop has ended and queues nothing more.
LoopEnded == stopCh /\ ~started => loop = "done"

LEMMA StopStep == LoopEnded /\ [Next]_vars => LoopEnded'
<1> SUFFICES ASSUME LoopEnded, [Next]_vars PROVE LoopEnded'
    OBVIOUS
<1>1. ASSUME UNCHANGED <<stopCh, started, loop>> PROVE LoopEnded'
    BY <1>1 DEF LoopEnded
<1>2. CASE Start \/ Stop \/ StopReturn
    BY <1>2, Zenon DEF Start, Stop, StopReturn, LoopEnded
<1>3. CASE LoopTick \/ LoopExit \/ CheckTasks \/ \E t \in batch : QueueTask(t)
    BY <1>3 DEF LoopTick, LoopExit, CheckTasks, QueueTask, LoopEnded
<1> QED
    BY <1>1, <1>2, <1>3
    DEF Next, vars, schedVars, ClientNext, SchedulerNext, EnvNext, ScheduleRule,
        UnscheduleRule, LoopNext, WorkerNext, WorkerTake, WorkerExit,
        AcquireSemaphore, AbandonTask, ExecuteReturn, DeleteTask, AdvanceClock,
        CancelContext

-----------------------------------------------------------------------------
(* The map.                                                                *)

\* A task leaves the map only through the interface or behind a worker that
\* has executed its rule; queueing it, or failing to, leaves it there.
THEOREM TasksNotLostCorrect == Spec => TasksNotLost
<1>1. ASSUME TypeOK, Next, NEW r \in Rules, tasks[r] # NoTask, tasks'[r] = NoTask
      PROVE  \/ \E w \in Workers : worker[w] = "delete" /\ job[w].ruleID = r
             \/ UNCHANGED <<loop, batch, taskQueue, worker, job>>
  <2>1. ASSUME NEW w \in Workers, DeleteTask(w)
        PROVE  worker[w] = "delete" /\ job[w].ruleID = r
    BY <1>1, <2>1 DEF DeleteTask, TypeOK
  <2>2. ASSUME NEW rule \in RuleInput, ScheduleRule(rule)
        PROVE  UNCHANGED <<loop, batch, taskQueue, worker, job>>
    BY <2>2 DEF ScheduleRule
  <2>3. ASSUME NEW q \in Rules, UnscheduleRule(q)
        PROVE  UNCHANGED <<loop, batch, taskQueue, worker, job>>
    BY <2>3 DEF UnscheduleRule
  <2>4. tasks' # tasks
    BY <1>1
  <2> QED
    BY <1>1, <2>1, <2>2, <2>3, <2>4
    DEF Next, ClientNext, SchedulerNext, LoopNext, WorkerNext, EnvNext, Start, Stop,
        StopReturn, LoopTick, LoopExit, CheckTasks, QueueTask, WorkerTake, WorkerExit,
        AcquireSemaphore, AbandonTask, ExecuteReturn, AdvanceClock, CancelContext,
        schedVars
<1>2. ASSUME TypeOK, [Next]_vars
      PROVE  [\A r \in Rules :
                tasks[r] # NoTask /\ tasks'[r] = NoTask =>
                   \/ \E w \in Workers : worker[w] = "delete" /\ job[w].ruleID = r
                   \/ UNCHANGED <<loop, batch, taskQueue, worker, job>>]_vars
    BY <1>1, <1>2
<1> QED
    BY <1>2, TypeCorrect, PTL DEF Spec, TasksNotLost

-----------------------------------------------------------------------------
(* The agenda.                                                             *)

\* Only the sending loop has a batch, and a worker past the receive has a
\* task.
HandInv ==
    /\ loop # "queue" => batch = {}
    /\ \A w \in Workers :
          worker[w] \in {"acquire", "execute", "delete"} => job[w] # NoTask

AgendaInv == TypeInv /\ LoopEnded /\ HandInv

LEMMA HandStep == TypeInv /\ HandInv /\ [Next]_vars => HandInv'
<1> SUFFICES ASSUME TypeOK, NoneBeforeStart, HandInv, [Next]_vars PROVE HandInv'
    BY DEF TypeInv
<1>1. ASSUME UNCHANGED <<loop, batch, worker, job>> PROVE HandInv'
    BY <1>1 DEF HandInv
<1>2. CASE Start
    BY <1>2 DEF Start, HandInv, TypeOK
<1>3. CASE LoopNext
    BY <1>3 DEF LoopNext, LoopTick, LoopExit, CheckTasks, QueueTask, HandInv
<1>4. ASSUME NEW w \in Workers, WorkerNext(w) PROVE HandInv'
  <2>1. CASE WorkerTake(w)
    <3>1. Head(taskQueue) \in ScheduledTask
      BY <2>1, HeadTailProperties DEF WorkerTake, TypeOK
    <3> QED
      BY <2>1, <3>1, NoTaskAssumption DEF WorkerTake, HandInv, TypeOK
  <2>2. CASE WorkerExit(w) \/ AcquireSemaphore(w) \/ AbandonTask(w)
    BY <2>2 DEF WorkerExit, AcquireSemaphore, AbandonTask, HandInv, TypeOK
  <2>3. CASE ExecuteReturn(w) \/ DeleteTask(w)
    BY <2>3 DEF ExecuteReturn, DeleteTask, HandInv, TypeOK
  <2> QED
    BY <1>4, <2>1, <2>2, <2>3 DEF WorkerNext
<1>5. CASE \/ \E rule \in RuleInput : ScheduleRule(rule)
           \/ \E r \in Rules : UnscheduleRule(r)
           \/ Stop \/ StopReturn \/ AdvanceClock \/ CancelContext \/ UNCHANGED vars
    BY <1>1, <1>5 DEF ScheduleRule, UnscheduleRule, Stop, StopReturn, AdvanceClock,
       CancelContext, vars, schedVars
<1> QED
    BY <1>2, <1>3, <1>4, <1>5 DEF Next, ClientNext, SchedulerNext, EnvNext

\* The tasks in the queue, when one is sent or received.
Queued == {taskQueue[i] : i \in 1..Len(taskQueue)}

LEMMA SentQueued ==
    ASSUME TypeOK, NEW t, taskQueue' = Append(taskQueue, t)
    PROVE  Queued' = Queued \cup {t}
<1>1. Len(taskQueue) \in Nat /\ Len(taskQueue') = Len(taskQueue) + 1
    BY DEF TypeOK
<1>2. \A i \in 1..Len(taskQueue) : taskQueue'[i] = taskQueue[i]
    BY DEF TypeOK
<1>3. taskQueue'[Len(taskQueue) + 1] = t
    BY DEF TypeOK
<1> QED
    BY <1>1, <1>2, <1>3 DEF Queued

LEMMA ReceivedQueued ==
    ASSUME TypeOK, taskQueue # <<>>, taskQueue' = Tail(taskQueue)
    PROVE  Queued' \subseteq Queued /\ Head(taskQueue) \in Queued
<1>1. /\ Len(taskQueue) \in Nat \ {0} /\ Len(taskQueue') = Len(taskQueue) - 1
      /\ Head(taskQueue) = taskQueue[1]
    BY DEF TypeOK
<1>2. \A i \in 1..Len(taskQueue') :
         i + 1 \in 1..Len(taskQueue) /\ taskQueue'[i] = taskQueue[i + 1]
    BY <1>1 DEF TypeOK
<1> QED
    BY <1>1, <1>2 DEF Queued

\* The parts of the mapping.
Acquiring == {job[w] : w \in {v \in Workers : worker[v] = "acquire"}}
Executed == [w \in Workers |->
               IF worker[w] \in {"execute", "delete"} THEN job[w] ELSE NoTask]
Closed == stopCh /\ ~started

LEMMA WaitingParts ==
    /\ Waiting = batch \cup Queued \cup Acquiring
    /\ Waiting' = batch' \cup Queued' \cup Acquiring'
BY DEF Waiting, Queued, Acquiring

LEMMA AgendaStutter ==
    ASSUME UNCHANGED <<now, tasks, batch, taskQueue>>, Acquiring' = Acquiring,
           Executed' = Executed, Closed' = Closed
    PROVE  UNCHANGED Agenda!vars
<1>1. Queued' = Queued
    BY DEF Queued
<1>2. Waiting' = Waiting
    BY <1>1, WaitingParts
<1> QED
    BY <1>2 DEF Agenda!vars, Executed, Closed

\* The calls change the agenda only.
LEMMA ClientAgenda ==
    ASSUME AgendaInv, ClientNext
    PROVE  Agenda!Next \/ UNCHANGED Agenda!vars
<1>0. TypeOK /\ LoopEnded /\ NoneBeforeStart
    BY DEF AgendaInv, TypeInv
<1>1. ASSUME NEW rule \in RuleInput, ScheduleRule(rule) PROVE Agenda!Next
  <2>1. rule.ruleID \in Rules
    BY DEF RuleInput
  <2>2. UNCHANGED <<now, Waiting, Executed, Closed>>
    BY <1>1 DEF ScheduleRule, Waiting, Executed, Closed
  <2> DEFINE next == CalculateNextExecution(rule.schedule, rule.lastExecution, now)
  <2>3. CASE tasks' = [tasks EXCEPT ![rule.ruleID] = NoTask]
    BY <2>1, <2>2, <2>3 DEF Agenda!Next, Agenda!Strike, Executed, Closed
  <2>4. CASE /\ next # NoTime
             /\ GetExecutionAction(rule.schedule, rule.lastExecution) # ""
             /\ tasks' = [tasks EXCEPT ![rule.ruleID] = newTask(rule, next)]
    <3>1. newTask(rule, next) \in ScheduledTask
      BY <1>0, <1>1, <2>4, NewTaskType DEF ScheduleRule, TypeOK
    <3>2. newTask(rule, next).ruleID = rule.ruleID
      BY DEF newTask
    <3> HIDE DEF next
    <3>3. tasks'[rule.ruleID] = newTask(rule, next)
      BY <1>0, <2>1, <2>4 DEF TypeOK
    <3> QED
      BY <2>1, <2>2, <2>4, <3>1, <3>2, <3>3
      DEF Agenda!Next, Agenda!Enter, Executed, Closed
  <2> QED
    BY <1>1, <2>3, <2>4 DEF ScheduleRule
<1>2. ASSUME NEW r \in Rules, UnscheduleRule(r) PROVE Agenda!Next
  <2>1. UNCHANGED <<now, Waiting, Executed, Closed>>
    BY <1>2 DEF UnscheduleRule, Waiting, Executed, Closed
  <2> QED
    BY <1>2, <2>1 DEF UnscheduleRule, Agenda!Next, Agenda!Strike, Executed, Closed
<1>3. CASE Start
  <2>1. \A w \in Workers : worker[w] = "off" /\ worker'[w] = "select"
    BY <1>0, <1>3 DEF Start, NoneBeforeStart
  <2>2. Acquiring' = Acquiring /\ Executed' = Executed
    BY <2>1 DEF Acquiring, Executed
  <2>3. Closed = FALSE /\ Closed' = FALSE
    BY <1>0, <1>3 DEF Start, LoopEnded, Closed
  <2> QED
    BY <1>3, <2>2, <2>3, AgendaStutter DEF Start
<1>4. CASE Stop
  <2>1. Acquiring' = Acquiring /\ Executed' = Executed
    BY <1>4 DEF Stop, Acquiring, Executed
  <2>2. Closed = FALSE /\ Closed' = FALSE
    BY <1>4 DEF Stop, Closed
  <2> QED
    BY <1>4, <2>1, <2>2, AgendaStutter DEF Stop
<1> QED
    BY <1>1, <1>2, <1>3, <1>4 DEF ClientNext

\* The loop hands out what is due, or drops it.
LEMMA LoopAgenda ==
    ASSUME AgendaInv, LoopNext
    PROVE  Agenda!Next \/ UNCHANGED Agenda!vars
<1>0. TypeOK /\ LoopEnded /\ HandInv
    BY DEF AgendaInv, TypeInv
<1>1. CASE LoopTick \/ LoopExit
  <2>1. Acquiring' = Acquiring /\ Executed' = Executed /\ Closed' = Closed
    BY <1>1 DEF LoopTick, LoopExit, Acquiring, Executed, Closed
  <2> QED
    BY <1>1, <2>1, AgendaStutter DEF LoopTick, LoopExit
<1>2. CASE CheckTasks
  <2>1. /\ UNCHANGED <<now, tasks, Queued, Acquiring, Executed, Closed>>
        /\ batch' = dueTasks /\ batch = {}
    BY <1>0, <1>2 DEF CheckTasks, HandInv, Queued, Acquiring, Executed, Closed
  <2>2. Waiting' = Waiting \cup dueTasks
    BY <2>1, WaitingParts
  <2>3. dueTasks = Agenda!DueTasks
    BY DEF dueTasks, ReadyAt, Agenda!DueTasks
  <2>4. ~Closed
    BY <1>0, <1>2 DEF CheckTasks, LoopEnded, Closed
  <2>5. Agenda!HandOut
    BY <2>1, <2>2, <2>3, <2>4 DEF Agenda!HandOut, Executed, Closed
  <2> QED
    BY <2>5 DEF Agenda!Next
<1>3. ASSUME NEW t \in batch, QueueTask(t) PROVE Agenda!Next
  <2>1. UNCHANGED <<now, tasks, Acquiring, Executed, Closed>> /\ batch' \subseteq batch
    BY <1>3 DEF QueueTask, Acquiring, Executed, Closed
  <2>2. Queued' \subseteq Queued \cup {t}
    <3>1. CASE taskQueue' = taskQueue
      BY <3>1 DEF Queued
    <3>2. CASE taskQueue' = Append(taskQueue, t)
      BY <1>0, <3>2, SentQueued
    <3> QED
      BY <1>3, <3>1, <3>2 DEF QueueTask
  <2>3. Waiting' \subseteq Waiting
    BY <2>1, <2>2, WaitingParts
  <2> QED
    BY <2>1, <2>3 DEF Agenda!Next, Agenda!Drop, Executed, Closed
<1> QED
    BY <1>1, <1>2, <1>3 DEF LoopNext

\* A worker begins what was handed out and ends it by deleting its rule's
\* task.
LEMMA WorkerAgenda ==
    ASSUME AgendaInv, NEW w \in Workers, WorkerNext(w)
    PROVE  Agenda!Next \/ UNCHANGED Agenda!vars
<1>0. /\ TypeOK /\ HandInv
      /\ worker \in [Workers -> WorkerStates] /\ job \in [Workers -> ScheduledTask \cup {NoTask}]
    BY DEF AgendaInv, TypeInv, TypeOK
<1>1. CASE WorkerTake(w)
  <2>1. /\ UNCHANGED <<now, tasks, batch, Closed>>
        /\ worker' = [worker EXCEPT ![w] = "acquire"]
        /\ job' = [job EXCEPT ![w] = Head(taskQueue)] /\ worker[w] = "select"
    BY <1>1 DEF WorkerTake, Closed
  <2>2. Executed' = Executed
    BY <1>0, <2>1 DEF Executed
  <2>3. Acquiring' \subseteq Acquiring \cup {Head(taskQueue)}
    BY <1>0, <2>1 DEF Acquiring
  <2>4. Queued' \subseteq Queued /\ Head(taskQueue) \in Queued
    BY <1>0, <1>1, ReceivedQueued DEF WorkerTake
  <2>5. Waiting' \subseteq Waiting
    BY <2>1, <2>3, <2>4, WaitingParts
  <2> QED
    BY <2>1, <2>2, <2>5 DEF Agenda!Next, Agenda!Drop, Executed, Closed
<1>2. CASE WorkerExit(w)
  <2>1. Acquiring' = Acquiring /\ Executed' = Executed /\ Closed' = Closed
    BY <1>0, <1>2 DEF WorkerExit, Acquiring, Executed, Closed
  <2> QED
    BY <1>2, <2>1, AgendaStutter DEF WorkerExit
<1>3. CASE AcquireSemaphore(w)
  <2>0. job[w] \in Waiting
    BY <1>3, WaitingParts DEF AcquireSemaphore, Acquiring
  <2> PICK t \in Waiting : t = job[w]
    BY <2>0
  <2>1. /\ UNCHANGED <<now, tasks, batch, Queued, Closed, job>>
        /\ worker[w] = "acquire" /\ worker' = [worker EXCEPT ![w] = "execute"]
    BY <1>3 DEF AcquireSemaphore, Queued, Closed
  <2>2. Executed[w] = NoTask /\ Executed' = [Executed EXCEPT ![w] = t]
    BY <1>0, <2>1 DEF Executed
  <2>3. Acquiring' \subseteq Acquiring /\ Acquiring \subseteq Acquiring' \cup {t}
    BY <1>0, <2>1 DEF Acquiring
  <2>4. Waiting' \in {Waiting, Waiting \ {t}}
    BY <2>1, <2>3, WaitingParts
  <2>5. Agenda!Begin(w, t)
    BY <2>1, <2>2, <2>4 DEF Agenda!Begin, Executed, Closed
  <2> QED
    BY <2>5 DEF Agenda!Next
<1>4. CASE AbandonTask(w)
  <2>1. /\ UNCHANGED <<now, tasks, batch, Queued, Closed>>
        /\ worker[w] = "acquire" /\ worker' = [worker EXCEPT ![w] = "select"]
        /\ job' = [job EXCEPT ![w] = NoTask]
    BY <1>4 DEF AbandonTask, Queued, Closed
  <2>2. Executed' = Executed
    BY <1>0, <2>1 DEF Executed
  <2>3. Acquiring' \subseteq Acquiring
    BY <1>0, <2>1 DEF Acquiring
  <2>4. Waiting' \subseteq Waiting
    BY <2>1, <2>3, WaitingParts
  <2> QED
    BY <2>1, <2>2, <2>4 DEF Agenda!Next, Agenda!Drop, Executed, Closed
<1>5. CASE ExecuteReturn(w)
  <2>1. Acquiring' = Acquiring /\ Executed' = Executed /\ Closed' = Closed
    BY <1>0, <1>5 DEF ExecuteReturn, Acquiring, Executed, Closed
  <2> QED
    BY <1>5, <2>1, AgendaStutter DEF ExecuteReturn
<1>6. CASE DeleteTask(w)
  <2>1. /\ UNCHANGED <<now, batch, Queued, Closed>>
        /\ worker[w] = "delete" /\ worker' = [worker EXCEPT ![w] = "select"]
        /\ job' = [job EXCEPT ![w] = NoTask]
        /\ tasks' = [tasks EXCEPT ![job[w].ruleID] = NoTask]
    BY <1>6 DEF DeleteTask, Queued, Closed
  <2>2. Executed[w] = job[w] /\ job[w] # NoTask /\ Executed' = [Executed EXCEPT ![w] = NoTask]
    BY <1>0, <2>1 DEF Executed, HandInv
  <2>3. Acquiring' = Acquiring
    BY <1>0, <2>1 DEF Acquiring
  <2>4. Waiting' = Waiting
    BY <2>1, <2>3, WaitingParts
  <2>5. Agenda!End(w)
    BY <2>1, <2>2, <2>4 DEF Agenda!End, Executed, Closed
  <2> QED
    BY <2>5 DEF Agenda!Next
<1> QED
    BY <1>1, <1>2, <1>3, <1>4, <1>5, <1>6 DEF WorkerNext

LEMMA StepAgenda == AgendaInv /\ [Next]_vars => [Agenda!Next]_(Agenda!vars)
<1> SUFFICES ASSUME AgendaInv, [Next]_vars PROVE Agenda!Next \/ UNCHANGED Agenda!vars
    OBVIOUS
<1>1. CASE StopReturn
  <2>1. /\ UNCHANGED <<now, tasks, Waiting, Executed>>
        /\ (Closed' <=> stopCh) /\ (Closed => stopCh)
    BY <1>1 DEF StopReturn, Waiting, Executed, Closed
  <2>2. stopCh \in BOOLEAN
    BY DEF AgendaInv, TypeInv, TypeOK
  <2>3. CASE stopCh = TRUE
    BY <2>1, <2>3 DEF Agenda!Next, Agenda!Close, Executed, Closed
  <2>4. CASE stopCh = FALSE
    BY <2>1, <2>4 DEF Agenda!vars, Executed, Closed
  <2> QED
    BY <2>2, <2>3, <2>4
<1>2. CASE AdvanceClock
    BY <1>2 DEF AdvanceClock, schedVars, AgendaInv, TypeInv, TypeOK, Waiting,
       Agenda!Next, Agenda!Pass
<1>3. CASE CancelContext \/ UNCHANGED vars
    BY <1>3 DEF CancelContext, vars, schedVars, Waiting, Agenda!vars
<1> QED
    BY <1>1, <1>2, <1>3, ClientAgenda, LoopAgenda, WorkerAgenda
    DEF Next, SchedulerNext, EnvNext

LEMMA InitAgenda == Init => AgendaInv /\ Agenda!Init
<1> SUFFICES ASSUME Init PROVE AgendaInv /\ Agenda!Init
    OBVIOUS
<1>1. AgendaInv
    BY TypeInit DEF Init, AgendaInv, LoopEnded, HandInv
<1>2. Queued = {} /\ Acquiring = {} /\ batch = {}
    BY DEF Init, Queued, Acquiring
<1>3. Waiting = {}
    BY <1>2, WaitingParts
<1>4. Executed = [w \in Workers |-> NoTask]
    BY DEF Init, Executed
<1> QED
    BY <1>1, <1>3, <1>4, Zenon DEF Init, Agenda!Init, Executed

\* The scheduler implements the agenda: whatever its goroutines do between the
\* calls, only due tasks are handed out, none after Stop has returned, and an
\* execution is of a task handed out and takes its rule off the map.
THEOREM AgendaKept == Spec => KeepsAgenda
<1>1. AgendaInv /\ [Next]_vars => AgendaInv'
    BY TypeStep, StopStep, HandStep DEF AgendaInv
<1> QED
    BY <1>1, InitAgenda, StepAgenda, PTL DEF Spec, KeepsAgenda, Agenda!Spec
=============================================================================
