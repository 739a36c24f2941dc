---------------------------- MODULE MCMaintenance ----------------------------
(***************************************************************************)
(* What StartPerformanceOptimizations starts: the orphan cleanup beside a  *)
(* goroutine of the manager, and the limiter's cleanup beside goroutines   *)
(* that ask the limiter before their calls.  The two share no state, and   *)
(* the limiter only delays or refuses a call before it starts: a behaviour *)
(* is of one part or the other.  Rule team-a/web has a hyphen: its         *)
(* recovered ID is that of the other rule.                                 *)
(***************************************************************************)
EXTENDS OrphanCleanup, RateLimiter, TLC

CONSTANTS k1, v1, MaxCalls, MaxEdits

VARIABLES
    part,    \* which of the two parts runs
    calls,   \* calls made so far
    edits    \* rules created or deleted so far

mcVars == <<cleanupVars, limiterVars, part, calls, edits>>

web == <<"a/web">>
teamweb == <<"team", "a/web">>
MCRules == {web, teamweb}

One == [k \in Keys |-> v1]
MCCalls == {[op |-> o, rule |-> r, ann |-> One] : o \in {"apply", "remove"}, r \in MCRules}
OneType == [x \in Resources |-> "pods"]

MCInit ==
    /\ CleanupInit /\ LimiterInit
    /\ part \in {"cleanup", "limiter"} /\ calls = 0 /\ edits = 0

InCleanup == part = "cleanup" /\ UNCHANGED <<limiterVars, part>>
InLimiter == part = "limiter" /\ UNCHANGED <<cleanupVars, part, calls, edits>>

ManagerCall ==
    /\ calls < MaxCalls /\ calls' = calls + 1
    /\ \E p \in Procs, c \in Calls : c.rule \in rules /\ Call(p, c)
    /\ UNCHANGED <<rules, cleaner, edits>>

ManagerStep(p) == Step(p) /\ UNCHANGED <<rules, cleaner, calls, edits>>

EditRules ==
    /\ edits < MaxEdits /\ edits' = edits + 1
    /\ \E r \in Rules : CreateRule(r) \/ DeleteRule(r)
    /\ UNCHANGED calls

MCNext ==
    \/ InCleanup /\ \/ ManagerCall \/ EditRules
                    \/ \E p \in Procs : ManagerStep(p)
                    \/ StoreEnv /\ UNCHANGED <<procVars, rules, cleaner, calls, edits>>
                    \/ CleanupStep /\ UNCHANGED <<calls, edits>>
    \/ InLimiter /\ LimiterNext

\* The ticker keeps firing, API requests return, and neither lists nor
\* updates that would be accepted fail for ever.
CleanupFairness ==
    /\ WF_mcVars(InCleanup /\ CleanupStep /\ UNCHANGED <<calls, edits>>)
    /\ \A t \in Types :
          SF_mcVars(InCleanup /\ getResourcesWithSchedulerAnnotations(t)
                    /\ UNCHANGED <<calls, edits>>)
    /\ \A x \in Resources :
          SF_mcVars(InCleanup /\ cleanupResourceAnnotations(x) /\ UNCHANGED <<calls, edits>>)
    /\ \A p \in Procs : WF_mcVars(InCleanup /\ ManagerStep(p))

\* Goroutines run, time passes, and rate.Limiter serves its waiters in turn.
\* Nothing makes a request fail.
LimiterFairness ==
    /\ WF_mcVars(InLimiter /\ Refill)
    /\ \A c \in Callers :
          /\ WF_mcVars(InLimiter /\ (lookupLimiters(c) \/ touchLimiters(c) \/ createLimiters(c)))
          /\ SF_mcVars(InLimiter /\ waitGlobal(c))
          /\ SF_mcVars(InLimiter /\ waitNamespace(c))

MCSpec == MCInit /\ [][MCNext]_mcVars

MCFairSpec == MCSpec /\ CleanupFairness /\ LimiterFairness
=============================================================================
