--------------------------- MODULE AnnotationStore ---------------------------
(***************************************************************************)
(* What ApplyAnnotations and RemoveAnnotations promise to their callers,   *)
(* without informer, cache, resource versions, copies and retries: a call  *)
(* has a set of targets, and on each of them its operation happens at one  *)
(* instant, on the object as it is at that instant, or does not happen.    *)
(* ResourceManager implements this specification.                          *)
(***************************************************************************)

CONSTANTS Resources, Rules, Keys, Values, NoValue, Procs, Calls

VARIABLES
    content,     \* the annotations of each object
    active,      \* whether the goroutine is in a call
    call,        \* its current or last call
    targets,     \* the objects the running call has found, once it has
    done,        \* those it has dealt with
    failed       \* whether the call reports an error

vars == <<content, active, call, targets, done, failed>>

\* The keys a call is about, and those that belong to its rule on an object.
Named(c) == {k \in Keys : c.ann[k] # NoValue}
Owned(a, c) == Named(c) \cap a.track[c.rule]

\* The rule has set what the call says and owns just that.
Applied(a, c) ==
    [val   |-> [k \in Keys |-> IF k \in Named(c) THEN c.ann[k] ELSE a.val[k]],
     track |-> [a.track EXCEPT ![c.rule] = Named(c)]]

\* The rule no longer sets what it owned of the call's keys.
Removed(a, c) ==
    [val   |-> [k \in Keys |-> IF k \in Owned(a, c) THEN NoValue ELSE a.val[k]],
     track |-> [a.track EXCEPT ![c.rule] = @ \ Named(c)]]

Effect(a, c) == IF c.op = "apply" THEN Applied(a, c) ELSE Removed(a, c)

Init ==
    /\ content = [x \in Resources |->
                    [val |-> [k \in Keys |-> NoValue], track |-> [r \in Rules |-> {}]]]
    /\ active = [p \in Procs |-> FALSE]
    /\ call = [p \in Procs |-> CHOOSE c \in Calls : TRUE]
    /\ targets = [p \in Procs |-> {}]
    /\ done = [p \in Procs |-> {}]
    /\ failed = [p \in Procs |-> FALSE]

Begin(p, c) ==
    /\ ~active[p]
    /\ active' = [active EXCEPT ![p] = TRUE]
    /\ call' = [call EXCEPT ![p] = c]
    /\ failed' = [failed EXCEPT ![p] = FALSE]
    /\ UNCHANGED <<content, targets, done>>

\* The query is answered; without targets, or for a query on its own, this is
\* also the return.
Find(p, S) ==
    /\ active[p] /\ targets[p] = {}
    /\ targets' = [targets EXCEPT ![p] = IF call[p].op = "query" THEN {} ELSE S]
    /\ active' = [active EXCEPT ![p] = call[p].op # "query" /\ S # {}]
    /\ UNCHANGED <<content, call, done, failed>>

\* The call takes effect on x.
Perform(p, x) ==
    /\ active[p] /\ x \in targets[p] \ done[p]
    /\ content' = [content EXCEPT ![x] = Effect(@, call[p])]
    /\ done' = [done EXCEPT ![p] = @ \cup {x}]
    /\ UNCHANGED <<active, call, targets, failed>>

\* A remove that saw nothing of its rule on x is done with it.
Pass(p, x) ==
    /\ active[p] /\ x \in targets[p] \ done[p]
    /\ call[p].op = "remove"
    /\ done' = [done EXCEPT ![p] = @ \cup {x}]
    /\ UNCHANGED <<content, active, call, targets, failed>>

\* The call gives up on some target, and will say so.
GiveUp(p) ==
    /\ active[p] /\ targets[p] \ done[p] # {}
    /\ failed' = [failed EXCEPT ![p] = TRUE]
    /\ UNCHANGED <<content, active, call, targets, done>>

\* The call takes effect on x and gives up without knowing that it did.
PerformUnseen(p, x) ==
    /\ active[p] /\ x \in targets[p] \ done[p]
    /\ content' = [content EXCEPT ![x] = Effect(@, call[p])]
    /\ failed' = [failed EXCEPT ![p] = TRUE]
    /\ UNCHANGED <<active, call, targets, done>>

\* A call that has not failed has dealt with all its targets.
Return(p) ==
    /\ active[p] /\ targets[p] # {}
    /\ failed[p] \/ done[p] = targets[p]
    /\ active' = [active EXCEPT ![p] = FALSE]
    /\ targets' = [targets EXCEPT ![p] = {}]
    /\ done' = [done EXCEPT ![p] = {}]
    /\ UNCHANGED <<content, call, failed>>

\* Another client sets or deletes an annotation.
Foreign(x, k, v) ==
    /\ content' = [content EXCEPT ![x].val[k] = v]
    /\ UNCHANGED <<active, call, targets, done, failed>>

Next ==
    \/ \E p \in Procs :
          \/ \E c \in Calls : Begin(p, c)
          \/ \E S \in SUBSET Resources : Find(p, S)
          \/ \E x \in Resources : Perform(p, x) \/ PerformUnseen(p, x) \/ Pass(p, x)
          \/ GiveUp(p) \/ Return(p)
    \/ \E x \in Resources, k \in Keys, v \in Values \cup {NoValue} : Foreign(x, k, v)

Spec == Init /\ [][Next]_vars
=============================================================================
