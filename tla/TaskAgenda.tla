------------------------------ MODULE TaskAgenda ------------------------------
(***************************************************************************)
(* What the scheduler promises its callers, without loop, queue, channels, *)
(* mutex and semaphore: an agenda with at most one task per rule, tasks    *)
(* handed out for execution no earlier than they are due and never after   *)
(* the scheduler is closed, and executions that end by taking their rule   *)
(* off the agenda.  TimeScheduler implements this specification.           *)
(***************************************************************************)
EXTENDS Integers

CONSTANTS Rules, Workers, Tasks, NoTask, Tolerance

VARIABLES
    now,         \* the time
    agenda,      \* the task of each rule
    given,       \* the tasks that have been handed out and wait for a worker
    running,     \* the task each worker executes
    closed       \* whether the scheduler has been stopped

vars == <<now, agenda, given, running, closed>>

Init ==
    /\ now = 0
    /\ agenda = [r \in Rules |-> NoTask]
    /\ given = {}
    /\ running = [w \in Workers |-> NoTask]
    /\ closed = FALSE

\* A caller puts a task on the agenda, in place of the one the rule had ...
Enter(r) ==
    /\ agenda'[r] \in Tasks /\ agenda'[r].ruleID = r
    /\ agenda' = [agenda EXCEPT ![r] = agenda'[r]]
    /\ UNCHANGED <<now, given, running, closed>>

\* ... or takes a rule off.  What has been handed out stays so.
Strike(r) ==
    /\ agenda' = [agenda EXCEPT ![r] = NoTask]
    /\ UNCHANGED <<now, given, running, closed>>

DueTasks == {agenda[r] : r \in {q \in Rules : /\ agenda[q] # NoTask
                                              /\ agenda[q].executeAt < now + Tolerance}}

\* Due tasks are handed out, and stay on the agenda.
HandOut ==
    /\ ~closed
    /\ \E S \in SUBSET DueTasks : given' = given \cup S
    /\ UNCHANGED <<now, agenda, running, closed>>

\* Tasks that were handed out are not executed after all.
Drop ==
    /\ given' \subseteq given
    /\ UNCHANGED <<now, agenda, running, closed>>

\* A worker begins to execute a task, which may have been handed out several
\* times.
Begin(w, t) ==
    /\ running[w] = NoTask /\ t \in given
    /\ running' = [running EXCEPT ![w] = t]
    /\ given' \in {given, given \ {t}}
    /\ UNCHANGED <<now, agenda, closed>>

\* Its rule is off the agenda when it is over, whatever task the rule has by
\* then.
End(w) ==
    /\ running[w] # NoTask
    /\ running' = [running EXCEPT ![w] = NoTask]
    /\ agenda' = [agenda EXCEPT ![running[w].ruleID] = NoTask]
    /\ UNCHANGED <<now, given, closed>>

Pass ==
    /\ now' \in Nat /\ now' > now
    /\ UNCHANGED <<agenda, given, running, closed>>

Close ==
    /\ closed' = TRUE
    /\ UNCHANGED <<now, agenda, given, running>>

Next ==
    \/ \E r \in Rules : Enter(r) \/ Strike(r)
    \/ HandOut \/ Drop
    \/ \E w \in Workers : (\E t \in given : Begin(w, t)) \/ End(w)
    \/ Pass \/ Close

Spec == Init /\ [][Next]_vars

\* A new process starts with an empty agenda.
Reset ==
    /\ agenda' = [r \in Rules |-> NoTask]
    /\ given' = {}
    /\ running' = [w \in Workers |-> NoTask]
    /\ closed' = FALSE
    /\ UNCHANGED now

RestartSpec == Init /\ [][Next \/ Reset]_vars
=============================================================================
