--------------------------- MODULE ScheduleParser ---------------------------
(***************************************************************************)
(* The schedule arithmetic of internal/scheduler/parser.go, as operators   *)
(* of the schedule, the last execution time and the clock reading `now`    *)
(* (time.Now()).                                                           *)
(*                                                                         *)
(* Times are whole seconds: startTime and endTime come from the custom     *)
(* resource and lastExecution from its status, and metav1.Time keeps       *)
(* seconds only on the wire.  NoTime is a nil *time.Time.                  *)
(*                                                                         *)
(* A cron expression is abstracted to its period: a positive number p      *)
(* fires at every multiple of p; NoCron is the empty string and            *)
(* MalformedCron a string that the cron parser refuses.  A missing action  *)
(* is the empty string.                                                    *)
(***************************************************************************)
EXTENDS Integers

CONSTANTS
    NoTime,      \* the nil time
    Tolerance    \* the "1 minute tolerance" of parser.go and scheduler.go

ASSUME TimeAssumption ==
    /\ NoTime \notin Int
    /\ Tolerance \in Nat

NoCron == 0
MalformedCron == -1

OptTime == Nat \cup {NoTime}
CronExpression == Nat \cup {MalformedCron}
Actions == {"apply", "remove"}

\* schedulerv1.ScheduleConfig; the CRD schema restricts type and action.
ScheduleConfig ==
    [type : {"datetime", "cron"}, startTime : OptTime, endTime : OptTime,
     cronExpression : CronExpression, action : Actions \cup {""}]

-----------------------------------------------------------------------------
(* Validation.                                                             *)

validateDateTimeSchedule(s) ==
    /\ s.startTime # NoTime
    /\ s.endTime # NoTime => s.endTime > s.startTime
    /\ s.cronExpression = NoCron
    /\ s.action = ""

validateCronSchedule(s) ==
    /\ s.cronExpression # NoCron
    /\ s.action \in Actions
    /\ s.cronExpression # MalformedCron
    /\ s.startTime = NoTime
    /\ s.endTime = NoTime

ValidateSchedule(s) ==
    \/ s.type = "datetime" /\ validateDateTimeSchedule(s)
    \/ s.type = "cron" /\ validateCronSchedule(s)

-----------------------------------------------------------------------------
(* The next execution.  NoTime is the nil result, "no more executions".    *)

\* Mutant: the end follows whatever the last execution was.
calculateDateTimeNextExecution_anylast(s, lastExecution, now) ==
    IF lastExecution = NoTime /\ s.startTime > now
      THEN s.startTime
    ELSE IF s.endTime # NoTime /\ s.endTime > now
      THEN s.endTime
    ELSE NoTime

calculateDateTimeNextExecution(s, lastExecution, now) ==
    IF lastExecution = NoTime /\ s.startTime > now
      THEN s.startTime
    ELSE IF /\ s.endTime # NoTime
            /\ lastExecution = s.startTime
            /\ s.endTime > now
      THEN s.endTime
    ELSE NoTime

\* robfig/cron's Schedule.Next: the first firing strictly after t.
CronNext(period, t) == period * ((t \div period) + 1)

calculateCronNextExecution(s, lastExecution, now) ==
    CronNext(s.cronExpression,
             IF lastExecution # NoTime THEN lastExecution ELSE now)

\* Callers use the result only for schedules that ValidateSchedule accepts.
CalculateNextExecution(s, lastExecution, now) ==
    IF s.type = "datetime"
      THEN calculateDateTimeNextExecution(s, lastExecution, now)
      ELSE calculateCronNextExecution(s, lastExecution, now)

\* The test of checkAndQueueTasks (and of IsTimeToExecute, which no one calls).
ReadyAt(executeAt, now) == executeAt < now + Tolerance

-----------------------------------------------------------------------------
(* The action of the next execution; "" is the error "no action needed".   *)

getDateTimeAction(s, lastExecution) ==
    IF lastExecution = NoTime THEN "apply"
    ELSE IF s.endTime # NoTime /\ lastExecution = s.startTime THEN "remove"
    ELSE ""

GetExecutionAction(s, lastExecution) ==
    IF s.type = "datetime" THEN getDateTimeAction(s, lastExecution)
                           ELSE s.action

-----------------------------------------------------------------------------
(* The phase of a schedule.                                                *)

\* Mutant: the end time is not considered.
getDateTimePhase_noend(s, now) ==
    IF s.startTime > now THEN "pending"
    ELSE IF s.startTime < now THEN "completed"
    ELSE "active"

getDateTimePhase(s, now) ==
    IF s.startTime > now THEN "pending"
    ELSE IF \/ s.endTime # NoTime /\ s.endTime < now
            \/ s.endTime = NoTime /\ s.startTime < now
      THEN "completed"
    ELSE "active"

GetSchedulePhase(s, now) ==
    IF ~ValidateSchedule(s) THEN "failed"
    ELSE IF s.type = "datetime" THEN getDateTimePhase(s, now)
    ELSE "active"
=============================================================================
