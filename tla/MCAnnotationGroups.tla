------------------------- MODULE MCAnnotationGroups -------------------------
(***************************************************************************)
(* A goroutine with plain calls and one with calls for groups, on rules    *)
(* that share keys.                                                        *)
(***************************************************************************)
EXTENDS AnnotationGroups, TLC

CONSTANTS ra, rb, k1, k2, v1, v2, MaxCalls

VARIABLE calls   \* calls made so far

mcVars == <<groupVars, calls>>

Sets(k, v, prio) ==
    [key |-> k, value |-> v, action |-> "apply", priority |-> prio]
Removes(k, v, prio) == [Sets(k, v, prio) EXCEPT !.action = "remove"]

Atomic(ops) == [operations |-> ops, atomic |-> TRUE]
Loose(ops) == [operations |-> ops, atomic |-> FALSE]

of(op, gs, res) ==
    [op |-> op, rule |-> ra, groups |-> gs, conflictResolution |-> res]

\* One atomic group, two groups that follow one another and skip, and the
\* removal of both.
MCGroupCalls ==
    {of("apply", <<Atomic({Sets(k1, v1, 1), Sets(k2, v2, 2)})>>, "override"),
     of("apply", <<Loose({Sets(k2, v2, 0), Removes(k1, v1, 0)}),
                   Loose({Sets(k1, v2, 0)})>>, "skip"),
     of("remove", <<Loose({Sets(k1, v1, 0)}), Loose({Sets(k2, v1, 0)})>>, "skip")}

\* Plain calls: another rule applies, and the cleanup of the same rule.
MCCalls ==
    {[op |-> "apply", rule |-> rb, ann |-> [k \in Keys |-> v1]],
     [op |-> "remove", rule |-> ra, ann |-> [k \in Keys |-> v1]]}

\* As many types as workloads.
EachItsOwn == [x \in Resources |-> x]

\* Two operations that disagree on a key.
Disputed ==
    {of("apply", <<Loose({Sets(k1, v1, 2), Sets(k1, v2, 1)})>>, "override")}

OneGroup == {of("apply", <<Loose({Sets(k1, v2, 0)})>>, "override")}

MCInit == GroupInit /\ calls = 0

MCNext ==
    \/ /\ calls < MaxCalls
       /\ \/ /\ \E p \in Procs, c \in Calls : Call(p, c)
             /\ UNCHANGED work
          \/ /\ \E p \in GroupProcs, c \in GroupCalls : GroupCall(p, c)
             /\ UNCHANGED procVars
       /\ calls' = calls + 1
    \/ /\ \/ \E p \in Procs : Step(p) /\ UNCHANGED work
          \/ \E p \in GroupProcs : GroupStep(p) /\ UNCHANGED procVars
          \/ StoreEnv /\ UNCHANGED <<procVars, work>>
       /\ UNCHANGED calls

MCSpec == MCInit /\ [][MCNext]_mcVars

MCFairSpec ==
    /\ MCSpec
    /\ \A p \in Procs : WF_mcVars(Step(p) /\ UNCHANGED <<work, calls>>)
    /\ \A p \in GroupProcs : WF_mcVars(GroupStep(p) /\ UNCHANGED <<procVars, calls>>)
=============================================================================
