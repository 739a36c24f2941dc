--------------------------- MODULE MCTimeScheduler ---------------------------
(***************************************************************************)
(* TimeScheduler with a bound on the number of calls of the interface, so  *)
(* that its state space is finite in the calls and a due task competes     *)
(* with finitely many newcomers.                                           *)
(***************************************************************************)
EXTENDS TimeScheduler

CONSTANTS MaxCalls   \* calls of ScheduleRule and UnscheduleRule

VARIABLE calls

mcVars == <<vars, calls>>

\* A window and a cron that fires every other second.
MCSchedules ==
    {[type |-> "datetime", startTime |-> 1, endTime |-> 3,
      cronExpression |-> NoCron, action |-> ""],
     [type |-> "cron", startTime |-> NoTime, endTime |-> NoTime,
      cronExpression |-> 2, action |-> "apply"]}

MCContents == {"spec"}

MCInit == Init /\ calls = 0

MCCall ==
    /\ calls < MaxCalls
    /\ calls' = calls + 1
    /\ \/ \E rule \in RuleInput : ScheduleRule(rule)
       \/ \E r \in Rules : UnscheduleRule(r)

MCNext ==
    \/ MCCall
    \/ (Start \/ Stop \/ SchedulerNext \/ EnvNext) /\ UNCHANGED calls

MCSpec == MCInit /\ [][MCNext]_mcVars

MCFairSpec == MCSpec /\ Fairness
=============================================================================
