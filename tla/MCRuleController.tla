-------------------------- MODULE MCRuleController --------------------------
(***************************************************************************)
(* RuleController with bounds on what the environment and the clock may    *)
(* bring about, and the specs of the rules that the runs use.              *)
(***************************************************************************)
EXTENDS RuleController, TLC

CONSTANTS
    SpecNames,     \* the specs of a run, by name
    MaxUser,       \* writes of other clients to rules
    MaxTouches,    \* those of them to fields outside the model
    MaxRestarts,   \* restarts of the process
    MaxRuns        \* executions of tasks

VARIABLES users, touches, restarts, runs

mcVars == <<allVars, users, touches, restarts, runs>>

Cron == [type |-> "cron", startTime |-> NoTime, endTime |-> NoTime,
         cronExpression |-> 1, action |-> "apply"]
RemoveCron == [Cron EXCEPT !.action = "remove"]
BadCron == [Cron EXCEPT !.cronExpression = MalformedCron]
Window == [type |-> "datetime", startTime |-> 1, endTime |-> 2,
           cronExpression |-> NoCron, action |-> ""]

MCSchedules == {Cron, RemoveCron, BadCron, Window}
MCContents == {"annotations", "groups"}
MCGroups == {"groups"}

spec(s, c, v) == [schedule |-> s, content |-> c, valid |-> v]

NamedSpec ==
    [cron    |-> spec(Cron, "annotations", TRUE),
     groups  |-> spec(RemoveCron, "groups", TRUE),
     badCron |-> spec(BadCron, "annotations", TRUE),
     invalid |-> spec(Cron, "annotations", FALSE),
     window  |-> spec(Window, "annotations", TRUE)]

MCRuleSpecs == {NamedSpec[n] : n \in SpecNames}

MCInit == CtlInit /\ users = 0 /\ touches = 0 /\ restarts = 0 /\ runs = 0

MCUser ==
    /\ users + touches < MaxUser
    /\ UserNext
    /\ users' = users + 1
    /\ UNCHANGED <<touches, restarts, runs>>

MCTouch ==
    /\ touches < MaxTouches /\ users + touches < MaxUser
    /\ \E r \in Rules : TouchRule(r)
    /\ touches' = touches + 1
    /\ UNCHANGED <<users, restarts, runs>>

MCRestart ==
    /\ restarts < MaxRestarts
    /\ Restart
    /\ restarts' = restarts + 1
    /\ UNCHANGED <<users, touches, runs>>

\* The clock and the loop go on, but only MaxRuns tasks are executed.
CountRuns ==
    /\ runs' = runs + Cardinality({w \in Workers : step[w] = "off" /\ step'[w] = "run"})
    /\ runs' <= MaxRuns

MCControl ==
    /\ ControllerNext
    /\ CountRuns
    /\ UNCHANGED <<users, touches, restarts>>

MCNext == MCUser \/ MCTouch \/ MCRestart \/ MCControl

MCSpec == MCInit /\ [][MCNext]_mcVars

\* WorkerFairness within the bound: a worker with a task beyond MaxRuns waits.
MCFairSpec ==
    /\ MCSpec
    /\ CtlFairness
    /\ \A w \in Workers : WF_mcVars(/\ ExecutorNext(w) \/ WorkerStep(w)
                                    /\ CountRuns
                                    /\ UNCHANGED <<users, touches, restarts>>)
=============================================================================
