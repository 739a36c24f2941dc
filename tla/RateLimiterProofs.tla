-------------------------- MODULE RateLimiterProofs --------------------------
(***************************************************************************)
(* Proofs of the safety invariants of RateLimiter for any number of        *)
(* callers, namespaces and limiters and any bursts.                        *)
(***************************************************************************)
EXTENDS RateLimiter, TLAPS

-----------------------------------------------------------------------------
(* The inductive invariant.                                                *)

\* A caller that has got its limiters holds those of its namespace, unless
\* they have been deleted since; once it waits on them they are marked as
\* used.
HoldersInv ==
    \A c \in Callers :
       /\ waiting[c].at \in {"touch", "namespace"} =>
             /\ waiting[c].limiter \in 1..created
             /\ waiting[c].limiter \in deleted \/ waiting[c].limiter = namespaceLimiters[waiting[c].ns]
       /\ waiting[c].at = "namespace" =>
             waiting[c].limiter \in deleted \/ lastUsed[waiting[c].limiter]

\* Namespaces do not share limiters, and those in the map are not deleted.
OwnersInv ==
    \A n \in Namespaces :
       namespaceLimiters[n] # NoLimiter =>
          /\ namespaceLimiters[n] \notin deleted
          /\ \A m \in Namespaces : namespaceLimiters[m] = namespaceLimiters[n] => m = n

\* What a namespace has used up is missing in its bucket, and is nothing if
\* the bucket is unused or not there; buckets to come are full.
BucketsInv ==
    /\ \A n \in Namespaces :
          IF namespaceLimiters[n] = NoLimiter
            THEN used[n] = 0
            ELSE /\ used[n] + tokens[namespaceLimiters[n]] <= Burst
                 /\ ~lastUsed[namespaceLimiters[n]] => used[n] = 0
    /\ \A l \in Limiters : l > created => tokens[l] = Burst

LimiterInv == LimiterTypeOK /\ HoldersInv /\ OwnersInv /\ BucketsInv

USE LimiterAssumption

LEMMA NoWaitType ==
    NoWait = [at |-> "idle", ns |-> NoWait.ns, limiter |-> NoLimiter] /\ NoWait.ns \in Namespaces
BY DEF NoWait

LEMMA InitLimiterInv == ASSUME LimiterInit PROVE LimiterInv
<1>1. LimiterTypeOK
    BY NoWaitType DEF LimiterInit, LimiterTypeOK, Limiters
<1>2. HoldersInv
    BY DEF LimiterInit, HoldersInv, NoWait
<1>3. OwnersInv /\ BucketsInv
    BY DEF LimiterInit, OwnersInv, BucketsInv, Limiters
<1> QED
    BY <1>1, <1>2, <1>3 DEF LimiterInv

\* Each step of a caller and of its environment keeps the invariant.
LEMMA WaitKeeps ==
    ASSUME LimiterInv, NEW c \in Callers, NEW n \in Namespaces, Wait(c, n)
    PROVE  LimiterInv'
<1>1. LimiterTypeOK'
    BY DEF LimiterInv, LimiterTypeOK, Wait
<1>2. HoldersInv'
    BY DEF LimiterInv, LimiterTypeOK, HoldersInv, Wait
<1>3. OwnersInv' /\ BucketsInv'
    BY DEF LimiterInv, OwnersInv, BucketsInv, Wait, Limiters
<1> QED
    BY <1>1, <1>2, <1>3 DEF LimiterInv

LEMMA waitGlobalKeeps ==
    ASSUME LimiterInv, NEW c \in Callers, waitGlobal(c)
    PROVE  LimiterInv'
<1>1. LimiterTypeOK'
    BY DEF LimiterInv, LimiterTypeOK, waitGlobal
<1>2. HoldersInv'
    BY DEF LimiterInv, LimiterTypeOK, HoldersInv, waitGlobal, WaitsAt
<1>3. OwnersInv' /\ BucketsInv'
    BY DEF LimiterInv, OwnersInv, BucketsInv, waitGlobal, Limiters
<1> QED
    BY <1>1, <1>2, <1>3 DEF LimiterInv

LEMMA WaitFailsKeeps ==
    ASSUME LimiterInv, NEW c \in Callers, WaitFails(c)
    PROVE  LimiterInv'
<1>1. LimiterTypeOK'
    BY NoWaitType DEF LimiterInv, LimiterTypeOK, WaitFails
<1>2. HoldersInv'
    BY NoWaitType DEF LimiterInv, LimiterTypeOK, HoldersInv, WaitFails
<1>3. OwnersInv' /\ BucketsInv'
    BY DEF LimiterInv, OwnersInv, BucketsInv, WaitFails, Limiters
<1> QED
    BY <1>1, <1>2, <1>3 DEF LimiterInv

LEMMA lookupKeeps ==
    ASSUME LimiterInv, NEW c \in Callers, lookupLimiters(c)
    PROVE  LimiterInv'
<1>1. LimiterTypeOK'
  <2> DEFINE l == namespaceLimiters[waiting[c].ns]
  <2>1. l \in 1..created \cup {NoLimiter}
    BY DEF LimiterInv, LimiterTypeOK
  <2> DEFINE W == [at : {"idle", "global", "lookup", "touch", "create", "namespace"},
                   ns : Namespaces, limiter : 1..created \cup {NoLimiter}]
  <2>2. \A place \in {"touch", "create"} :
           [waiting[c] EXCEPT !.at = place, !.limiter = l] \in W
    <3> HIDE DEF l
    <3> QED
      BY <2>1 DEF LimiterInv, LimiterTypeOK
  <2>3. PICK place \in {"touch", "create"} :
           waiting' = [waiting EXCEPT ![c] = [@ EXCEPT !.at = place, !.limiter = l]]
    <3> HIDE DEF W
    <3> QED
      BY DEF lookupLimiters
  <2>4. waiting' \in [Callers -> W]
    <3> HIDE DEF W, l
    <3>1. waiting \in [Callers -> W]
      BY DEF LimiterInv, LimiterTypeOK, W
    <3> QED
      BY <2>2, <2>3, <3>1
  <2> QED
    BY <2>4 DEF LimiterInv, LimiterTypeOK, lookupLimiters
<1>2. HoldersInv'
    BY DEF LimiterInv, LimiterTypeOK, HoldersInv, lookupLimiters
<1>3. OwnersInv' /\ BucketsInv'
    BY DEF LimiterInv, OwnersInv, BucketsInv, lookupLimiters, Limiters
<1> QED
    BY <1>1, <1>2, <1>3 DEF LimiterInv

LEMMA touchKeeps ==
    ASSUME LimiterInv, NEW c \in Callers, touchLimiters(c)
    PROVE  LimiterInv'
<1>1. LimiterTypeOK'
    BY DEF LimiterInv, LimiterTypeOK, touchLimiters
<1>2. HoldersInv'
    BY DEF LimiterInv, LimiterTypeOK, HoldersInv, touchLimiters, WaitsAt, Limiters
<1>3. OwnersInv'
    BY DEF LimiterInv, OwnersInv, touchLimiters
<1>4. BucketsInv'
    BY DEF LimiterInv, LimiterTypeOK, BucketsInv, touchLimiters, Limiters
<1> QED
    BY <1>1, <1>2, <1>3, <1>4 DEF LimiterInv

LEMMA createKeeps ==
    ASSUME LimiterInv, NEW c \in Callers, createLimiters(c)
    PROVE  LimiterInv'
<1> DEFINE n == waiting[c].ns
<1>1. n \in Namespaces
    BY DEF LimiterInv, LimiterTypeOK
<1>2. CASE namespaceLimiters[n] # NoLimiter
  <2>1. LimiterTypeOK'
    BY <1>1, <1>2 DEF LimiterInv, LimiterTypeOK, createLimiters, Limiters
  <2>2. HoldersInv'
    BY <1>1, <1>2 DEF LimiterInv, LimiterTypeOK, HoldersInv, createLimiters, Limiters
  <2>3. OwnersInv' /\ BucketsInv'
    BY <1>1, <1>2 DEF LimiterInv, LimiterTypeOK, OwnersInv, BucketsInv, createLimiters, Limiters
  <2> QED
    BY <2>1, <2>2, <2>3 DEF LimiterInv
<1>3. CASE namespaceLimiters[n] = NoLimiter
  <2>1. created' = created + 1 /\ created < MaxLimiters /\ created \in Nat
    BY <1>3 DEF LimiterInv, LimiterTypeOK, createLimiters
  <2>2. namespaceLimiters' = [namespaceLimiters EXCEPT ![n] = created + 1]
    BY <1>3 DEF createLimiters
  <2>3. lastUsed' = [lastUsed EXCEPT ![created + 1] = TRUE]
    BY <1>1, <2>2 DEF createLimiters, LimiterInv, LimiterTypeOK
  <2>4. waiting' = [waiting EXCEPT ![c] =
                       [@ EXCEPT !.at = "namespace", !.limiter = created + 1]]
    BY <1>1, <2>2 DEF createLimiters, LimiterInv, LimiterTypeOK
  <2>5. UNCHANGED <<global, tokens, deleted, used>>
    BY DEF createLimiters
  <2>6. 1..created \subseteq 1..created' /\ created + 1 \in 1..created' /\ created + 1 \in Limiters
    BY <2>1 DEF Limiters
  <2>7. LimiterTypeOK'
    <3>1. created' \in 0..MaxLimiters
      BY <2>1
    <3>2. namespaceLimiters' \in [Namespaces -> 1..created' \cup {NoLimiter}]
      BY <2>2, <2>6 DEF LimiterInv, LimiterTypeOK
    <3>3. lastUsed' \in [Limiters -> BOOLEAN]
      BY <2>3 DEF LimiterInv, LimiterTypeOK
    <3>4. waiting' \in [Callers -> [at : {"idle", "global", "lookup", "touch", "create",
                                        "namespace"},
                                  ns : Namespaces, limiter : 1..created' \cup {NoLimiter}]]
      BY <2>4, <2>6 DEF LimiterInv, LimiterTypeOK
    <3> QED
      BY <2>5, <2>6, <3>1, <3>2, <3>3, <3>4 DEF LimiterInv, LimiterTypeOK
  <2>8. HoldersInv'
    BY <1>1, <1>3, <2>1, <2>2, <2>3, <2>4, <2>5, <2>6 DEF LimiterInv, LimiterTypeOK, HoldersInv
  <2>9. OwnersInv'
    BY <1>1, <1>3, <2>1, <2>2, <2>5, <2>6 DEF LimiterInv, LimiterTypeOK, OwnersInv
  <2>10. BucketsInv'
    BY <1>1, <1>3, <2>1, <2>2, <2>3, <2>5, <2>6
       DEF LimiterInv, LimiterTypeOK, BucketsInv, Limiters
  <2> QED
    BY <2>7, <2>8, <2>9, <2>10 DEF LimiterInv
<1> QED
    BY <1>2, <1>3

LEMMA waitNamespaceKeeps ==
    ASSUME LimiterInv, NEW c \in Callers, waitNamespace(c)
    PROVE  LimiterInv'
<1> DEFINE l == waiting[c].limiter
           n == waiting[c].ns
<1>1. n \in Namespaces /\ l \in 1..created /\ l \in Limiters
    BY DEF LimiterInv, LimiterTypeOK, HoldersInv, waitNamespace, WaitsAt, Limiters
<1>2. tokens' = [tokens EXCEPT ![l] = tokens[l] - 1] /\ tokens[l] \in 1..Burst
    BY <1>1 DEF waitNamespace, LimiterInv, LimiterTypeOK
<1>3. used' = [used EXCEPT ![n] = IF l \in deleted THEN used[n] ELSE used[n] + 1]
    BY DEF waitNamespace
<1>4. LimiterTypeOK'
    BY <1>1, <1>2, <1>3, NoWaitType DEF LimiterInv, LimiterTypeOK, waitNamespace
<1>5. HoldersInv'
    BY NoWaitType DEF LimiterInv, LimiterTypeOK, HoldersInv, waitNamespace
<1>6. OwnersInv'
    BY DEF LimiterInv, OwnersInv, waitNamespace
<1>7. BucketsInv'
  <2>1. l \in deleted \/ (l = namespaceLimiters[n] /\ lastUsed[l])
    BY DEF LimiterInv, HoldersInv, waitNamespace, WaitsAt
  <2>2. UNCHANGED <<namespaceLimiters, created, lastUsed>>
    BY DEF waitNamespace
  <2>3. \A k \in Limiters : k > created' => tokens'[k] = Burst
    BY <1>1, <1>2, <2>2 DEF LimiterInv, LimiterTypeOK, BucketsInv
  <2>4. ASSUME NEW m \in Namespaces
        PROVE  IF namespaceLimiters'[m] = NoLimiter
                 THEN used'[m] = 0
                 ELSE /\ used'[m] + tokens'[namespaceLimiters'[m]] <= Burst
                      /\ ~lastUsed'[namespaceLimiters'[m]] => used'[m] = 0
    <3>1. CASE l \in deleted
      <4>1. used' = used
        BY <1>1, <1>3, <3>1 DEF LimiterInv, LimiterTypeOK
      <4>2. namespaceLimiters[m] # NoLimiter => namespaceLimiters[m] # l
        BY <3>1 DEF LimiterInv, OwnersInv
      <4> QED
        BY <1>1, <1>2, <2>2, <4>1, <4>2 DEF LimiterInv, LimiterTypeOK, BucketsInv, Limiters
    <3>2. CASE l \notin deleted /\ m = n
      BY <1>1, <1>2, <1>3, <2>1, <2>2, <3>2 DEF LimiterInv, LimiterTypeOK, BucketsInv, Limiters
    <3>3. CASE l \notin deleted /\ m # n
      <4>1. namespaceLimiters[m] # l
        BY <1>1, <2>1, <3>3 DEF LimiterInv, OwnersInv
      <4> QED
        BY <1>1, <1>2, <1>3, <2>2, <3>3, <4>1
           DEF LimiterInv, LimiterTypeOK, BucketsInv, Limiters
    <3> QED
      BY <3>1, <3>2, <3>3
  <2> QED
    BY <2>3, <2>4 DEF BucketsInv
<1> QED
    BY <1>4, <1>5, <1>6, <1>7 DEF LimiterInv

LEMMA CleanupKeeps ==
    ASSUME LimiterInv, CleanupUnusedNamespaceLimiters
    PROVE  LimiterInv'
<1> DEFINE gone == {namespaceLimiters[m] : m \in {k \in Namespaces : Unused(k)}}
<1>1. deleted' = deleted \cup gone
    BY DEF CleanupUnusedNamespaceLimiters
<1>2. namespaceLimiters' =
         [m \in Namespaces |-> IF Unused(m) THEN NoLimiter ELSE namespaceLimiters[m]]
    BY DEF CleanupUnusedNamespaceLimiters
<1>3. UNCHANGED <<global, created, tokens, lastUsed, waiting, used>>
    BY DEF CleanupUnusedNamespaceLimiters
<1>4. \A m \in Namespaces : Unused(m) => used[m] = 0
    BY DEF LimiterInv, BucketsInv, Unused
<1>5. LimiterTypeOK'
    BY <1>1, <1>2, <1>3 DEF LimiterInv, LimiterTypeOK, Unused
<1>6. HoldersInv'
    BY <1>1, <1>2, <1>3 DEF LimiterInv, LimiterTypeOK, HoldersInv, Unused
<1>7. OwnersInv'
    BY <1>1, <1>2, <1>3 DEF LimiterInv, OwnersInv, Unused
<1>8. BucketsInv'
    BY <1>2, <1>3, <1>4 DEF LimiterInv, BucketsInv
<1> QED
    BY <1>5, <1>6, <1>7, <1>8 DEF LimiterInv

LEMMA RefillKeeps ==
    ASSUME LimiterInv, Refill
    PROVE  LimiterInv'
<1>1. LimiterTypeOK'
    BY DEF LimiterInv, LimiterTypeOK, Refill, Least
<1>2. HoldersInv' /\ OwnersInv'
    BY DEF LimiterInv, HoldersInv, OwnersInv, Refill
<1>3. BucketsInv'
  <2>1. UNCHANGED <<namespaceLimiters, created, lastUsed>>
    BY DEF Refill
  <2>2. \A l \in Limiters : tokens'[l] = IF tokens[l] < Burst THEN tokens[l] + 1 ELSE Burst
    BY DEF LimiterInv, LimiterTypeOK, Refill, Least
  <2>3. \A n \in Namespaces : used'[n] = IF used[n] = 0 THEN 0 ELSE used[n] - 1
    BY DEF Refill
  <2>4. \A l \in Limiters : l > created' => tokens'[l] = Burst
    BY <2>1, <2>2 DEF LimiterInv, LimiterTypeOK, BucketsInv
  <2>5. ASSUME NEW n \in Namespaces
        PROVE  IF namespaceLimiters'[n] = NoLimiter
                 THEN used'[n] = 0
                 ELSE /\ used'[n] + tokens'[namespaceLimiters'[n]] <= Burst
                      /\ ~lastUsed'[namespaceLimiters'[n]] => used'[n] = 0
    <3>1. CASE namespaceLimiters[n] = NoLimiter
      BY <2>1, <2>3, <3>1 DEF LimiterInv, BucketsInv
    <3>2. CASE namespaceLimiters[n] # NoLimiter
      <4> DEFINE l == namespaceLimiters[n]
      <4>1. l \in Limiters
        BY <3>2 DEF LimiterInv, LimiterTypeOK, Limiters
      <4>2. used[n] \in Nat /\ tokens[l] \in 0..Burst
        BY <4>1 DEF LimiterInv, LimiterTypeOK
      <4>3. used[n] + tokens[l] <= Burst /\ (~lastUsed[l] => used[n] = 0)
        BY <3>2 DEF LimiterInv, BucketsInv
      <4>4. used'[n] + tokens'[l] <= Burst
        BY <2>2, <2>3, <4>1, <4>2, <4>3
      <4> QED
        BY <2>1, <2>3, <3>2, <4>3, <4>4
    <3> QED
      BY <3>1, <3>2
  <2> QED
    BY <2>4, <2>5 DEF BucketsInv
<1> QED
    BY <1>1, <1>2, <1>3 DEF LimiterInv

LEMMA MaxAgeKeeps ==
    ASSUME LimiterInv, MaxAgePasses
    PROVE  LimiterInv'
<1>1. LimiterTypeOK'
    BY DEF LimiterInv, LimiterTypeOK, MaxAgePasses
<1>2. HoldersInv' /\ OwnersInv'
    BY DEF LimiterInv, HoldersInv, OwnersInv, MaxAgePasses, WaitsAt
<1>3. BucketsInv'
    BY DEF LimiterInv, LimiterTypeOK, BucketsInv, MaxAgePasses, Limiters
<1> QED
    BY <1>1, <1>2, <1>3 DEF LimiterInv

LEMMA NextLimiterInv == ASSUME LimiterInv, [LimiterNext]_limiterVars PROVE LimiterInv'
<1>1. ASSUME NEW c \in Callers, NEW n \in Namespaces, Wait(c, n) PROVE LimiterInv'
    BY <1>1, WaitKeeps
<1>2. ASSUME NEW c \in Callers, WaitStep(c) PROVE LimiterInv'
    BY <1>2, waitGlobalKeeps, WaitFailsKeeps, lookupKeeps, touchKeeps, createKeeps,
       waitNamespaceKeeps DEF WaitStep
<1>3. CASE LimiterEnv
    BY <1>3, CleanupKeeps, RefillKeeps, MaxAgeKeeps DEF LimiterEnv
<1>4. CASE UNCHANGED limiterVars
    BY <1>4 DEF LimiterInv, LimiterTypeOK, HoldersInv, OwnersInv, BucketsInv, limiterVars
<1> QED
    BY <1>1, <1>2, <1>3, <1>4 DEF LimiterNext

-----------------------------------------------------------------------------
(* The theorems.                                                           *)

\* getOrCreateNamespaceLimiters, Wait and the cleanup together keep the
\* invariant.
THEOREM LimiterInvariant == LimiterSpec => []LimiterInv
<1> QED
    BY InitLimiterInv, NextLimiterInv, PTL DEF LimiterSpec

\* The limiter's variables keep their types; no bucket is overdrawn or filled
\* above its burst.
THEOREM LimiterTypeCorrect == LimiterSpec => []LimiterTypeOK
<1>1. LimiterInv => LimiterTypeOK
    BY DEF LimiterInv
<1> QED
    BY <1>1, LimiterInvariant, PTL

\* The calls allowed in a namespace stay within its rate and burst, whoever
\* races to create its limiters, except for calls with deleted ones.
THEOREM RateBoundedCorrect == LimiterSpec => []RateBounded
<1>1. LimiterInv => RateBounded
  <2> SUFFICES ASSUME LimiterInv, NEW n \in Namespaces PROVE used[n] <= Burst
    BY DEF RateBounded
  <2>1. namespaceLimiters[n] # NoLimiter =>
           tokens[namespaceLimiters[n]] \in Nat
    BY DEF LimiterInv, LimiterTypeOK, Limiters
  <2>2. used[n] \in Nat
    BY DEF LimiterInv, LimiterTypeOK
  <2> QED
    BY <2>1, <2>2 DEF LimiterInv, BucketsInv
<1> QED
    BY <1>1, LimiterInvariant, PTL
=============================================================================
