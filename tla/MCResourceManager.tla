-------------------------- MODULE MCResourceManager --------------------------
(***************************************************************************)
(* ResourceManager on two rules that share a key.  Rule ra applies k1 and  *)
(* k2, rule rb only k1; the shrunken call is rule ra after its k2 has been *)
(* dropped from the spec.                                                  *)
(***************************************************************************)
EXTENDS ResourceManager, TLC

CONSTANTS ra, rb, k1, k2, v1, MaxCalls

VARIABLES
    calls,       \* calls made so far
    overlapped   \* goroutines whose remove runs or ran beside an apply

mcVars == <<vars, calls, overlapped>>

Both == [k \in Keys |-> v1]
One == [k \in Keys |-> IF k = k1 THEN v1 ELSE NoValue]

SharedCalls ==
    {[op |-> "apply", rule |-> ra, ann |-> Both],
     [op |-> "apply", rule |-> rb, ann |-> One],
     [op |-> "remove", rule |-> rb, ann |-> One]}

OneRuleCalls == {[op |-> o, rule |-> ra, ann |-> One] : o \in {"query", "apply", "remove"}}

OneType == [x \in Resources |-> "pods"]

MCSymmetry == Permutations(Procs)

MCInit == Init /\ calls = 0 /\ overlapped = {}

\* The removes that overlap an apply once p makes the call c.
Overlapping(p, c) ==
    LET running(op) == {q \in Procs \ {p} : pc[q] # "idle" /\ call[q].op = op}
    IN  CASE c.op = "apply" -> running("remove")
          [] c.op = "remove" /\ running("apply") # {} -> {p}
          [] OTHER -> {}

MCNext ==
    \/ \E p \in Procs, c \in Calls :
          /\ calls < MaxCalls /\ Call(p, c) /\ calls' = calls + 1
          /\ overlapped' = overlapped \cup Overlapping(p, c)
    \/ /\ (\E p \in Procs : Step(p)) \/ (StoreEnv /\ UNCHANGED procVars)
       /\ overlapped' = {q \in overlapped : pc'[q] # "idle"}
       /\ UNCHANGED calls

MCSpec == MCInit /\ [][MCNext]_mcVars

\* "Invalidate cache for affected resources" (manager.go:476) serves that a
\* remove sees what applies that returned before it was called have applied:
\* a remove that overlapped no apply and succeeded on an object leaves no key
\* of its call tracked there.
RemoveEffective ==
    [][\A p \in Procs, x \in Resources :
          /\ x \in done'[p] \ done[p]
          /\ call[p].op = "remove" /\ p \notin overlapped
          => store'[x].ann.track[call[p].rule] \cap KeysOf(call[p]) = {}]_mcVars
=============================================================================
