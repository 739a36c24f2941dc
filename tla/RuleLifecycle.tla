----------------------------- MODULE RuleLifecycle -----------------------------
(***************************************************************************)
(* What the controller promises the users of rules, without work queue,    *)
(* informer, copies and versions: how a rule comes and goes, when it can   *)
(* be scheduled, and how often an execution is counted: each try to record *)
(* it counts it at most once, and there are MaxTries of them at most.      *)
(* RuleController implements this specification.                           *)
(***************************************************************************)
EXTENDS Integers

CONSTANTS
    Rules, Workers, Specs, None,
    MaxTries     \* the tries to record one execution

VARIABLES
    life,        \* "absent", "new", "held" by the finalizer, or "ending"
    spec,        \* what the users want
    count,       \* the executions in the status
    scheduled,   \* the rules with a task
    executing,   \* the rule each worker executes a task of
    tries        \* the tries each worker has left to record that

vars == <<life, spec, count, scheduled, executing, tries>>

Init ==
    /\ life = [r \in Rules |-> "absent"]
    /\ spec = [r \in Rules |-> None]
    /\ count = [r \in Rules |-> 0]
    /\ scheduled = {}
    /\ executing = [w \in Workers |-> None]
    /\ tries = [w \in Workers |-> MaxTries]

Absent(r) ==
    /\ life' = [life EXCEPT ![r] = "absent"]
    /\ spec' = [spec EXCEPT ![r] = None]
    /\ count' = [count EXCEPT ![r] = 0]
    /\ UNCHANGED <<scheduled, executing, tries>>

\* The users create and edit rules ...
Create(r, s) ==
    /\ life[r] = "absent"
    /\ life' = [life EXCEPT ![r] = "new"]
    /\ spec' = [spec EXCEPT ![r] = s]
    /\ UNCHANGED <<count, scheduled, executing, tries>>

Edit(r, s) ==
    /\ life[r] # "absent"
    /\ spec' = [spec EXCEPT ![r] = s]
    /\ UNCHANGED <<life, count, scheduled, executing, tries>>

\* ... and delete them: at once, while the controller does not hold them.
Delete(r) == life[r] = "new" /\ Absent(r)

MarkDeleted(r) ==
    /\ life[r] = "held"
    /\ life' = [life EXCEPT ![r] = "ending"]
    /\ UNCHANGED <<spec, count, scheduled, executing, tries>>

Hold(r) ==
    /\ life[r] = "new"
    /\ life' = [life EXCEPT ![r] = "held"]
    /\ UNCHANGED <<spec, count, scheduled, executing, tries>>

\* A marked rule goes when it has no task.
Release(r) == life[r] = "ending" /\ r \notin scheduled /\ Absent(r)

\* Only a rule that the controller holds gets a task, be it in its last moments.
Schedule(r) ==
    /\ life[r] \in {"held", "ending"}
    /\ scheduled' = scheduled \cup {r}
    /\ UNCHANGED <<life, spec, count, executing, tries>>

Unschedule(r) ==
    /\ scheduled' = scheduled \ {r}
    /\ UNCHANGED <<life, spec, count, executing, tries>>

\* An execution is for one name.
Begin(w, r) ==
    /\ executing[w] = None
    /\ executing' = [executing EXCEPT ![w] = r]
    /\ UNCHANGED <<life, spec, count, scheduled, tries>>

\* A try is used up, or it is the last.
Tried(w) ==
    \/ /\ tries[w] > 1
       /\ tries' = [tries EXCEPT ![w] = @ - 1]
       /\ UNCHANGED executing
    \/ /\ tries' = [tries EXCEPT ![w] = MaxTries]
       /\ executing' = [executing EXCEPT ![w] = None]

\* It has counted the execution on the rule that has the name by then ...
Counted(w) ==
    LET r == executing[w]
    IN  /\ r # None /\ life[r] # "absent"
        /\ count' = [count EXCEPT ![r] = @ + 1]
        /\ Tried(w)
        /\ UNCHANGED <<life, spec, scheduled>>

\* ... or nowhere.
Uncounted(w) ==
    /\ executing[w] # None
    /\ Tried(w)
    /\ UNCHANGED <<life, spec, count, scheduled>>

\* A new process knows of no task and no execution; the rules stay.
Reset ==
    /\ scheduled' = {}
    /\ executing' = [w \in Workers |-> None]
    /\ tries' = [w \in Workers |-> MaxTries]
    /\ UNCHANGED <<life, spec, count>>

Next ==
    \/ \E r \in Rules :
          \/ \E s \in Specs : Create(r, s) \/ Edit(r, s)
          \/ Delete(r) \/ MarkDeleted(r) \/ Hold(r) \/ Release(r)
          \/ Schedule(r) \/ Unschedule(r)
    \/ \E w \in Workers : (\E r \in Rules : Begin(w, r)) \/ Counted(w) \/ Uncounted(w)
    \/ Reset

Spec == Init /\ [][Next]_vars
=============================================================================
