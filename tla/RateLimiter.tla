----------------------------- MODULE RateLimiter -----------------------------
(***************************************************************************)
(* AnnotationRateLimiter of internal/resource/ratelimiter.go: a token      *)
(* bucket for everybody and one per namespace that has been used lately.   *)
(* Apply, remove and query have buckets of their own; one kind stands for  *)
(* the three.  rate.Limiter is external: Wait takes a token once there is  *)
(* one, or fails with its context.                                         *)
(***************************************************************************)
EXTENDS Integers, FiniteSets

CONSTANTS
    Callers,        \* goroutines that call Wait
    Namespaces,
    NoLimiter,      \* a namespace without an entry
    GlobalBurst,
    Burst,          \* tokens of a namespace's bucket
    MaxLimiters     \* bound on the namespace limiters created

ASSUME LimiterAssumption ==
    /\ GlobalBurst \in Nat \ {0} /\ Burst \in Nat \ {0}
    /\ NoLimiter \notin Nat /\ Namespaces # {}
    /\ MaxLimiters \in Nat /\ Cardinality(Namespaces) <= MaxLimiters

VARIABLES
    global,              \* tokens of the global bucket
    namespaceLimiters,   \* the map from namespaces to limiters
    created,             \* limiters created so far; they are 1..created
    tokens,              \* tokens of each limiter
    lastUsed,            \* TRUE for the limiters whose lastUsed is not older than maxAge
    waiting,             \* for each caller its place in Wait, namespace and limiter
    deleted,             \* limiters that the cleanup has deleted
    used                 \* what each namespace has used up of its rate and burst
                         \* with limiters that were not deleted

limiterVars ==
    <<global, namespaceLimiters, created, tokens, lastUsed, waiting, deleted, used>>

Limiters == 1..MaxLimiters

LimiterTypeOK ==
    /\ global \in 0..GlobalBurst
    /\ namespaceLimiters \in [Namespaces -> 1..created \cup {NoLimiter}]
    /\ created \in 0..MaxLimiters
    /\ tokens \in [Limiters -> 0..Burst]
    /\ lastUsed \in [Limiters -> BOOLEAN]
    /\ waiting \in [Callers -> [at : {"idle", "global", "lookup", "touch", "create", "namespace"},
                                ns : Namespaces, limiter : 1..created \cup {NoLimiter}]]
    /\ deleted \subseteq 1..created
    /\ used \in [Namespaces -> Nat]

NoWait == [at |-> "idle", ns |-> CHOOSE n \in Namespaces : TRUE, limiter |-> NoLimiter]

LimiterInit ==
    /\ global = GlobalBurst
    /\ namespaceLimiters = [n \in Namespaces |-> NoLimiter]
    /\ created = 0
    /\ tokens = [l \in Limiters |-> Burst]
    /\ lastUsed = [l \in Limiters |-> FALSE]
    /\ waiting = [c \in Callers |-> NoWait]
    /\ deleted = {}
    /\ used = [n \in Namespaces |-> 0]

WaitsAt(c, place) == waiting[c].at = place

-----------------------------------------------------------------------------

Wait(c, n) ==
    /\ WaitsAt(c, "idle")
    /\ waiting' = [waiting EXCEPT ![c] = [@ EXCEPT !.at = "global", !.ns = n]]
    /\ UNCHANGED <<global, namespaceLimiters, created, tokens, lastUsed, deleted, used>>

waitGlobal(c) ==
    /\ WaitsAt(c, "global")
    /\ global > 0
    /\ global' = global - 1
    /\ waiting' = [waiting EXCEPT ![c].at = "lookup"]
    /\ UNCHANGED <<namespaceLimiters, created, tokens, lastUsed, deleted, used>>

\* The context ends, or its deadline is before the next token.  Allow takes
\* the steps of Wait and fails where Wait would have to wait.
WaitFails(c) ==
    /\ waiting[c].at \in {"global", "namespace"}
    /\ waiting' = [waiting EXCEPT ![c] = NoWait]
    /\ UNCHANGED <<global, namespaceLimiters, created, tokens, lastUsed, deleted, used>>

\* getOrCreateNamespaceLimiters: the lookup under the read lock ...
lookupLimiters(c) ==
    /\ WaitsAt(c, "lookup")
    /\ LET l == namespaceLimiters[waiting[c].ns]
       IN  waiting' = [waiting EXCEPT ![c] =
              [@ EXCEPT !.at = IF l = NoLimiter THEN "create" ELSE "touch", !.limiter = l]]
    /\ UNCHANGED <<global, namespaceLimiters, created, tokens, lastUsed, deleted, used>>

\* ... the write of lastUsed under no lock (a data race with the cleanup's
\* read; the monotonic reading is one word, so that it sees the old or the
\* new time) ...
touchLimiters(c) ==
    /\ WaitsAt(c, "touch")
    /\ lastUsed' = [lastUsed EXCEPT ![waiting[c].limiter] = TRUE]
    /\ waiting' = [waiting EXCEPT ![c].at = "namespace"]
    /\ UNCHANGED <<global, namespaceLimiters, created, tokens, deleted, used>>

\* Mutant of createLimiters: no second check under the write lock.
createLimiters_unchecked(c) ==
    /\ WaitsAt(c, "create")
    /\ created < MaxLimiters
    /\ created' = created + 1
    /\ namespaceLimiters' = [namespaceLimiters EXCEPT ![waiting[c].ns] = created']
    /\ lastUsed' = [lastUsed EXCEPT ![created'] = TRUE]
    /\ waiting' = [waiting EXCEPT ![c] = [@ EXCEPT !.at = "namespace", !.limiter = created']]
    /\ UNCHANGED <<global, tokens, deleted, used>>

\* Mutant of createLimiters: the new limiters are not stored, and it looks again.
createLimiters_unstored(c) ==
    /\ WaitsAt(c, "create")
    /\ waiting' = [waiting EXCEPT ![c].at = "lookup"]
    /\ UNCHANGED <<global, namespaceLimiters, created, tokens, lastUsed, deleted, used>>

\* ... and the second check and the creation under the write lock.
createLimiters(c) ==
    /\ WaitsAt(c, "create")
    /\ LET n == waiting[c].ns
       IN  /\ IF namespaceLimiters[n] = NoLimiter
                THEN /\ created < MaxLimiters
                     /\ created' = created + 1
                     /\ namespaceLimiters' = [namespaceLimiters EXCEPT ![n] = created']
                ELSE UNCHANGED <<created, namespaceLimiters>>
           /\ lastUsed' = [lastUsed EXCEPT ![namespaceLimiters'[n]] = TRUE]
           /\ waiting' = [waiting EXCEPT ![c] =
                 [@ EXCEPT !.at = "namespace", !.limiter = namespaceLimiters'[n]]]
    /\ UNCHANGED <<global, tokens, deleted, used>>

\* The call is allowed.
waitNamespace(c) ==
    /\ WaitsAt(c, "namespace")
    /\ tokens[waiting[c].limiter] > 0
    /\ tokens' = [tokens EXCEPT ![waiting[c].limiter] = @ - 1]
    /\ used' = [used EXCEPT ![waiting[c].ns] = IF waiting[c].limiter \in deleted THEN @ ELSE @ + 1]
    /\ waiting' = [waiting EXCEPT ![c] = NoWait]
    /\ UNCHANGED <<global, namespaceLimiters, created, lastUsed, deleted>>

Unused(n) == namespaceLimiters[n] # NoLimiter /\ ~lastUsed[namespaceLimiters[n]]

\* CleanupUnusedNamespaceLimiters, in the background; bounded, since what it
\* deletes is created again.
CleanupUnusedNamespaceLimiters ==
    /\ created + Cardinality(Namespaces) <= MaxLimiters
    /\ \E n \in Namespaces : Unused(n)
    /\ namespaceLimiters' =
          [n \in Namespaces |-> IF Unused(n) THEN NoLimiter ELSE namespaceLimiters[n]]
    /\ deleted' = deleted \cup {namespaceLimiters[n] : n \in {m \in Namespaces : Unused(m)}}
    /\ UNCHANGED <<global, created, tokens, lastUsed, waiting, used>>

Least(a, b) == IF a < b THEN a ELSE b

\* The time of one token passes for every bucket.
Refill ==
    /\ global' = Least(global + 1, GlobalBurst)
    /\ tokens' = [l \in Limiters |-> Least(tokens[l] + 1, Burst)]
    /\ used' = [n \in Namespaces |-> IF used[n] = 0 THEN 0 ELSE used[n] - 1]
    /\ UNCHANGED <<namespaceLimiters, created, lastUsed, waiting, deleted>>

\* The hour of maxAge passes.  Requests wait for seconds only, and the
\* buckets are long full.
MaxAgePasses ==
    /\ \A c \in Callers : WaitsAt(c, "idle")
    /\ global' = GlobalBurst
    /\ tokens' = [l \in Limiters |-> Burst]
    /\ lastUsed' = [l \in Limiters |-> FALSE]
    /\ used' = [n \in Namespaces |-> 0]
    /\ UNCHANGED <<namespaceLimiters, created, waiting, deleted>>

-----------------------------------------------------------------------------

WaitStep(c) ==
    \/ waitGlobal(c) \/ WaitFails(c) \/ lookupLimiters(c) \/ touchLimiters(c)
    \/ createLimiters(c) \/ waitNamespace(c)

LimiterEnv == CleanupUnusedNamespaceLimiters \/ Refill \/ MaxAgePasses

LimiterNext ==
    \/ \E c \in Callers : (\E n \in Namespaces : Wait(c, n)) \/ WaitStep(c)
    \/ LimiterEnv

LimiterSpec == LimiterInit /\ [][LimiterNext]_limiterVars

-----------------------------------------------------------------------------
(* Properties.                                                             *)

\* However goroutines race to create the limiters of a namespace, the calls
\* allowed there stay within its rate and burst; the only ones beyond them
\* are those of goroutines that had looked a limiter up before the cleanup
\* deleted it.
RateBounded == \A n \in Namespaces : used[n] <= Burst

\* Every request is answered in the end, as tokens keep coming.
WaitReturns == \A c \in Callers : ~WaitsAt(c, "idle") ~> WaitsAt(c, "idle")
=============================================================================
