------------------------ MODULE ResourceManagerProofs ------------------------
(***************************************************************************)
(* Proofs about the plain-annotation path of the resource manager, for     *)
(* every number of goroutines, objects, rules and keys.  The argument is   *)
(* optimistic concurrency: a copy that still has the object's version is   *)
(* the object, so what an accepted update writes is its call applied to    *)
(* the object as it is.                                                    *)
(***************************************************************************)
EXTENDS ResourceManager, TLAPS

-----------------------------------------------------------------------------
(* Types.                                                                  *)

\* The two changes to an object's annotations yield annotations.
LEMMA ChangeType ==
    ASSUME NEW a \in Annotations, NEW c \in CallType
    PROVE  applied(a, c) \in Annotations /\ removed(a, c) \in Annotations
BY DEF applied, removed, KeysOf, removable, Annotations, CallType

\* Reads return objects.
LEMMA ObservedType ==
    ASSUME StoreTypeOK, NEW x \in Resources
    PROVE  Observed(x) \in Object
BY DEF StoreTypeOK, Observed

\* An accepted update leaves objects in the store.
LEMMA WrittenType ==
    ASSUME StoreTypeOK, NEW x \in Resources, NEW a \in Annotations
    PROVE  Written(x, a) \in [Resources -> Object]
BY DEF StoreTypeOK, Written, Object

\* The values of locals that are out of scope have the right types.
LEMMA ScopeType ==
    /\ NoCopy \in Object
    /\ NoResource \in Resources
    /\ IsSnapshot(NoSnapshot)
    /\ 0 \in 0..(MaxRetries - 1)
<1>1. Bare \in Annotations /\ NoCopy \in Object
    BY DEF Bare, NoCopy, Annotations, Object
<1>2. NoResource \in Resources
    BY ManagerAssumption DEF NoResource
<1>3. IsSnapshot(NoSnapshot)
    BY DEF NoSnapshot, IsSnapshot
<1> QED
    BY <1>1, <1>2, <1>3, ManagerAssumption

\* What a list adds to a snapshot keeps it one.
LEMMA ListedType ==
    ASSUME StoreTypeOK, NEW s, IsSnapshot(s), NEW t
    PROVE  /\ IsSnapshot(Listed(s, t))
           /\ \A x \in DOMAIN Listed(s, t) :
                 \/ x \in Resources /\ Listed(s, t)[x] = Observed(x)
                 \/ x \in DOMAIN s /\ Listed(s, t)[x] = s[x]
BY ObservedType DEF Listed, OfType, IsSnapshot

\* The loop visits resources of its own snapshot, and only an apply has
\* attempts left after its first.
LoopOK(p) ==
    /\ pc[p] \in {"loop", "update"} => todo[p] \subseteq DOMAIN snap[p]
    /\ pc[p] = "update" /\ call[p].op # "apply" => attempt[p] = MaxRetries - 1

LoopInv == \A p \in Procs : LoopOK(p)

LEMMA InitType == Init => TypeOK
<1> SUFFICES ASSUME Init PROVE TypeOK
    OBVIOUS
<1>1. NoCopy \in Object /\ NoCopy = [ann |-> Bare, rv |-> 0]
    BY ScopeType DEF NoCopy
<1>2. StoreTypeOK
    BY <1>1 DEF Init, StoreInit, StoreTypeOK
<1>3. (CHOOSE c \in Calls : TRUE) \in CallType
    BY ManagerAssumption
<1>4. NoResource \in Resources
    BY ScopeType
<1>5. 0 \in 0..(MaxRetries - 1)
    BY ScopeType
<1>6. \A p \in Procs : IsSnapshot(snap[p])
    BY ScopeType DEF Init
<1>7. DOMAIN snap = Procs /\ pc \in [Procs -> PcStates] /\ todo \in [Procs -> SUBSET Resources]
      /\ done \in [Procs -> SUBSET Resources] /\ copy \in [Procs -> Object]
    BY <1>1 DEF Init, PcStates
<1>8. call \in [Procs -> CallType] /\ cur \in [Procs -> Resources]
    BY <1>3, <1>4, Zenon DEF Init
<1>9. attempt \in [Procs -> 0..(MaxRetries - 1)]
    BY <1>5, Zenon DEF Init
<1>10. failed \in [Procs -> BOOLEAN]
    BY Zenon DEF Init
<1> QED
    BY <1>2, <1>6, <1>7, <1>8, <1>9, <1>10 DEF TypeOK

LEMMA NextType == TypeOK /\ LoopInv /\ [Next]_vars => TypeOK'
<1> SUFFICES ASSUME TypeOK, LoopInv, [Next]_vars PROVE TypeOK'
    OBVIOUS
<1>0. StoreTypeOK
    BY DEF TypeOK
<1>1. ASSUME NEW p \in Procs, NEW c \in Calls, Call(p, c) PROVE TypeOK'
    BY <1>1, ManagerAssumption
    DEF Call, TypeOK, StoreTypeOK, storeVars, PcStates, IsSnapshot
<1>2. ASSUME NEW p \in Procs, NEW s, IsSnapshot(s), Matched(p, s),
             UNCHANGED <<store, informer, call, cur, copy, attempt, done, failed>>,
             cache' = cache \/ cache' = s
      PROVE  TypeOK'
  <2>1. DOMAIN snap' = Procs /\ \A q \in Procs : IsSnapshot(snap'[q])
    BY <1>2, ScopeType DEF Matched, TypeOK
  <2>2. todo' \in [Procs -> SUBSET Resources] /\ pc' \in [Procs -> PcStates]
    BY <1>2 DEF Matched, TypeOK, IsSnapshot, PcStates
  <2>3. StoreTypeOK'
    BY <1>0, <1>2 DEF StoreTypeOK, IsSnapshot
  <2> QED
    BY <1>2, <2>1, <2>2, <2>3 DEF TypeOK, IsSnapshot
<1>3. ASSUME NEW p \in Procs, MatchCached(p) PROVE TypeOK'
    BY <1>2, <1>3 DEF MatchCached, TypeOK, StoreTypeOK, storeVars
<1>4. ASSUME NEW p \in Procs, CacheResources(p) PROVE TypeOK'
    BY <1>2, <1>4 DEF CacheResources, TypeOK
<1>5. ASSUME NEW p \in Procs, NEW t \in Types, MatchList(p, t) PROVE TypeOK'
  <2>1. IsSnapshot(Listed(snap[p], t))
    BY <1>0, ListedType DEF TypeOK
  <2>2. DOMAIN snap' = Procs /\ \A q \in Procs : IsSnapshot(snap'[q])
    BY <1>5, <2>1 DEF MatchList, TypeOK
  <2> QED
    BY <1>5, <2>2 DEF MatchList, TypeOK, StoreTypeOK, storeVars, PcStates, IsSnapshot
<1>14. ASSUME NEW p \in Procs, MatchMiss(p) \/ \E t \in Types : MatchListFails(p, t)
       PROVE  TypeOK'
    BY <1>14
    DEF MatchMiss, MatchListFails, TypeOK, StoreTypeOK, storeVars, PcStates, IsSnapshot
<1>6. ASSUME NEW p \in Procs, NEW x \in Resources, ApplyNext(p, x) PROVE TypeOK'
  <2>1. snap[p][x] \in Object /\ call[p] \in CallType
    BY <1>6 DEF ApplyNext, TypeOK, LoopInv, LoopOK, IsSnapshot
  <2>2. [ann |-> applied(snap[p][x].ann, call[p]), rv |-> snap[p][x].rv] \in Object
    BY <2>1, ChangeType DEF Object
  <2>3. 0 \in 0..(MaxRetries - 1)
    BY ManagerAssumption
  <2> QED
    BY <1>6, <2>2, <2>3
    DEF ApplyNext, TypeOK, StoreTypeOK, storeVars, PcStates, IsSnapshot
<1>7. ASSUME NEW p \in Procs, NEW x \in Resources, RemoveNext(p, x) PROVE TypeOK'
  <2>1. snap[p][x] \in Object /\ call[p] \in CallType
    BY <1>7 DEF RemoveNext, TypeOK, LoopInv, LoopOK, IsSnapshot
  <2>2. [ann |-> removed(snap[p][x].ann, call[p]), rv |-> snap[p][x].rv] \in Object
    BY <2>1, ChangeType DEF Object
  <2>3. MaxRetries - 1 \in 0..(MaxRetries - 1)
    BY ManagerAssumption
  <2>4. StoreTypeOK' /\ DOMAIN snap' = Procs /\ \A q \in Procs : IsSnapshot(snap'[q])
    BY <1>0, <1>7 DEF RemoveNext, TypeOK, StoreTypeOK, storeVars, IsSnapshot
  <2>5. CASE removable(snap[p][x].ann, call[p]) # {}
    BY <1>7, <2>2, <2>3, <2>4, <2>5 DEF RemoveNext, TypeOK, PcStates
  <2>6. CASE removable(snap[p][x].ann, call[p]) = {}
    BY <1>7, <2>4, <2>6 DEF RemoveNext, TypeOK
  <2> QED
    BY <2>5, <2>6
<1>8. ASSUME NEW p \in Procs, UpdateOK(p) \/ UpdateUnanswered(p) PROVE TypeOK'
  <2>0. Accepted(p)
    BY <1>8 DEF UpdateOK, UpdateUnanswered
  <2>1. store' \in [Resources -> Object]
    BY <1>0, <2>0, WrittenType DEF Accepted, TypeOK, Object
  <2>2. failed' \in [Procs -> BOOLEAN]
    BY <1>8, Zenon DEF UpdateOK, UpdateUnanswered, TypeOK
  <2>3. done' \in [Procs -> SUBSET Resources]
    BY <1>8 DEF UpdateOK, UpdateUnanswered, TypeOK
  <2>4. /\ cur' \in [Procs -> Resources] /\ copy' \in [Procs -> Object]
        /\ attempt' \in [Procs -> 0..(MaxRetries - 1)]
    BY <2>0, ScopeType DEF Accepted, NextResource, TypeOK
  <2>5. pc' \in [Procs -> PcStates] /\ todo' \in [Procs -> SUBSET Resources]
    BY <2>0 DEF Accepted, NextResource, TypeOK, PcStates
  <2> QED
    BY <2>0, <2>1, <2>2, <2>3, <2>4, <2>5 DEF Accepted, TypeOK, StoreTypeOK, IsSnapshot
<1>9. ASSUME NEW p \in Procs, RetryConflict(p) PROVE TypeOK'
  <2>1. Observed(cur[p]) \in Object /\ call[p] \in CallType
    BY <1>0, ObservedType DEF TypeOK
  <2>2. [ann |-> applied(Observed(cur[p]).ann, call[p]), rv |-> Observed(cur[p]).rv] \in Object
    BY <2>1, ChangeType DEF Object
  <2>3. attempt[p] + 1 \in 0..(MaxRetries - 1)
    BY <1>9, ManagerAssumption DEF RetryConflict, TypeOK
  <2> QED
    BY <1>9, <2>2, <2>3 DEF RetryConflict, TypeOK, StoreTypeOK, storeVars, IsSnapshot
<1>10. ASSUME NEW p \in Procs, UpdateFails(p) PROVE TypeOK'
  <2>1. failed' \in [Procs -> BOOLEAN]
    BY <1>10, Zenon DEF UpdateFails, TypeOK
  <2>2. /\ cur' \in [Procs -> Resources] /\ copy' \in [Procs -> Object]
        /\ attempt' \in [Procs -> 0..(MaxRetries - 1)]
    BY <1>10, ScopeType DEF UpdateFails, NextResource, TypeOK
  <2>3. pc' \in [Procs -> PcStates] /\ todo' \in [Procs -> SUBSET Resources]
    BY <1>10 DEF UpdateFails, NextResource, TypeOK, PcStates
  <2> QED
    BY <1>10, <2>1, <2>2, <2>3
    DEF UpdateFails, TypeOK, StoreTypeOK, storeVars, IsSnapshot
<1>11. ASSUME NEW p \in Procs, Finish(p) PROVE TypeOK'
  <2>1. DOMAIN snap' = Procs /\ \A q \in Procs : IsSnapshot(snap'[q])
    BY <1>11, ScopeType DEF Finish, TypeOK
  <2>2. done' \in [Procs -> SUBSET Resources] /\ pc' \in [Procs -> PcStates]
    BY <1>11 DEF Finish, TypeOK, PcStates
  <2> QED
    BY <1>11, <2>1, <2>2 DEF Finish, TypeOK, StoreTypeOK
<1>12. ASSUME StoreEnv, UNCHANGED procVars PROVE TypeOK'
  <2>1. ASSUME NEW x \in Resources, NEW k \in Keys, NEW v \in Values \cup {NoValue},
               ExternalWrite(x, k, v)
        PROVE  StoreTypeOK'
    <3>1. [store[x].ann EXCEPT !.val[k] = v] \in Annotations
      BY <1>0 DEF StoreTypeOK, Object, Annotations
    <3> QED
      BY <1>0, <2>1, <3>1, WrittenType DEF ExternalWrite, StoreTypeOK, IsSnapshot
  <2>2. ASSUME NEW x \in Resources, SyncInformer(x) PROVE StoreTypeOK'
    BY <1>0, <2>2 DEF SyncInformer, StoreTypeOK, IsSnapshot
  <2>3. ASSUME ExpireCache PROVE StoreTypeOK'
    BY <1>0, <2>3 DEF ExpireCache, StoreTypeOK
  <2>4. StoreTypeOK'
    BY <1>12, <2>1, <2>2, <2>3 DEF StoreEnv
  <2> QED
    BY <1>12, <2>4 DEF procVars, TypeOK, IsSnapshot
<1>13. CASE UNCHANGED vars
    BY <1>13 DEF vars, storeVars, procVars, TypeOK, StoreTypeOK, IsSnapshot
<1> QED
    BY <1>1, <1>3, <1>4, <1>5, <1>6, <1>7, <1>8, <1>9, <1>10, <1>11, <1>12, <1>13,
       <1>14
    DEF Next, Step

LEMMA NextLoop == TypeOK /\ LoopInv /\ [Next]_vars => LoopInv'
<1> SUFFICES ASSUME TypeOK, LoopInv, [Next]_vars, NEW q \in Procs PROVE LoopOK(q)'
    BY DEF LoopInv
<1>0. LoopOK(q)
    BY DEF LoopInv
<1>1. ASSUME UNCHANGED <<pc[q], todo[q], snap[q], call[q], attempt[q]>>
      PROVE  LoopOK(q)'
    BY <1>0, <1>1 DEF LoopOK
<1>2. ASSUME NEW p \in Procs, NEW c \in Calls, Call(p, c) PROVE LoopOK(q)'
    BY <1>0, <1>2 DEF Call, TypeOK, LoopOK
<1>3. ASSUME NEW p \in Procs, MatchCached(p) \/ CacheResources(p) PROVE LoopOK(q)'
    BY <1>0, <1>3 DEF MatchCached, CacheResources, Matched, TypeOK, LoopOK
<1>4. ASSUME NEW p \in Procs, NEW t \in Types, MatchList(p, t) \/ MatchListFails(p, t)
      PROVE  LoopOK(q)'
    BY <1>0, <1>4 DEF MatchList, MatchListFails, TypeOK, LoopOK
<1>10. ASSUME NEW p \in Procs, MatchMiss(p) PROVE LoopOK(q)'
    BY <1>0, <1>10 DEF MatchMiss, TypeOK, LoopOK
<1>5. ASSUME NEW p \in Procs, NEW x \in Resources, ApplyNext(p, x) \/ RemoveNext(p, x)
      PROVE  LoopOK(q)'
    BY <1>0, <1>5 DEF ApplyNext, RemoveNext, TypeOK, LoopOK
<1>6. ASSUME NEW p \in Procs, Accepted(p) \/ UpdateFails(p) PROVE LoopOK(q)'
    BY <1>0, <1>6 DEF Accepted, UpdateFails, NextResource, TypeOK, LoopOK
<1>7. ASSUME NEW p \in Procs, RetryConflict(p) PROVE LoopOK(q)'
    BY <1>0, <1>7, ManagerAssumption DEF RetryConflict, TypeOK, LoopOK
<1>8. ASSUME NEW p \in Procs, Finish(p) PROVE LoopOK(q)'
    BY <1>0, <1>8 DEF Finish, TypeOK, LoopOK
<1>9. CASE UNCHANGED procVars
    BY <1>1, <1>9 DEF procVars
<1> QED
    BY <1>2, <1>3, <1>4, <1>5, <1>6, <1>7, <1>8, <1>9, <1>10
    DEF Next, Step, vars, UpdateOK, UpdateUnanswered

\* Every variable of the manager keeps its type in every behaviour.
THEOREM TypeCorrect == Spec => []TypeOK
<1>1. Init => LoopInv
    BY DEF Init, LoopInv, LoopOK
<1> QED
    BY InitType, <1>1, NextType, NextLoop, PTL DEF Spec

-----------------------------------------------------------------------------
(* Versions.                                                               *)

\* A step either leaves an object as it is or raises its version.
VersionStep(x) == store'[x] = store[x] \/ store'[x].rv = store[x].rv + 1

LEMMA WrittenVersion ==
    ASSUME StoreTypeOK, NEW y, NEW a, store' = Written(y, a), NEW x \in Resources
    PROVE  VersionStep(x)
BY DEF StoreTypeOK, Written, VersionStep

LEMMA VersionsRise ==
    ASSUME TypeOK, [Next]_vars, NEW x \in Resources
    PROVE  VersionStep(x)
<1>0. StoreTypeOK
    BY DEF TypeOK
<1>1. ASSUME NEW p \in Procs, Accepted(p) PROVE VersionStep(x)
    BY <1>0, <1>1, WrittenVersion DEF Accepted
<1>2. ASSUME NEW y \in Resources, NEW k \in Keys, NEW v \in Values \cup {NoValue},
             ExternalWrite(y, k, v)
      PROVE  VersionStep(x)
    BY <1>0, <1>2, WrittenVersion DEF ExternalWrite
<1>3. ASSUME UNCHANGED store PROVE VersionStep(x)
    BY <1>3 DEF VersionStep
<1> QED
    BY <1>1, <1>2, <1>3
    DEF Next, Step, StoreEnv, vars, storeVars, Call, MatchCached, CacheResources,
        MatchMiss, MatchList, MatchListFails, ApplyNext, RemoveNext, UpdateOK,
        UpdateUnanswered, RetryConflict, UpdateFails, Finish, SyncInformer, ExpireCache

\* A coherent copy stays coherent, and one that has the new version has the
\* object's content and shows that the object has not changed.
LEMMA CoherentStep ==
    ASSUME TypeOK, NEW x \in Resources, VersionStep(x),
           NEW o, o.rv \in Nat, Coherent(o, x)
    PROVE  /\ o.rv <= store'[x].rv
           /\ o.rv = store'[x].rv => store'[x] = store[x] /\ o.ann = store'[x].ann
BY DEF TypeOK, StoreTypeOK, Object, VersionStep, Coherent

\* Whatever is read, from the API server or from the informer, is coherent.
LEMMA ObservedCoherent ==
    ASSUME TypeOK, VersionsCoherent, NEW x \in Resources
    PROVE  Coherent(Observed(x), x)
<1>1. Coherent(store[x], x)
    BY DEF Coherent, TypeOK, StoreTypeOK, Object
<1> QED
    BY <1>1 DEF Observed, VersionsCoherent

LEMMA NextCoherent ==
    TypeOK /\ VersionsCoherent /\ [Next]_vars => VersionsCoherent'
<1> SUFFICES ASSUME TypeOK, VersionsCoherent, [Next]_vars PROVE VersionsCoherent'
    OBVIOUS
<1>0. ASSUME NEW x \in Resources, NEW o \in Object, Coherent(o, x)
      PROVE  o.rv <= store'[x].rv /\ (o.rv = store'[x].rv => o.ann = store'[x].ann)
  <2>1. o.rv \in Nat /\ VersionStep(x)
    BY VersionsRise DEF Object
  <2> QED
    BY <1>0, <2>1, CoherentStep
<1>1. ASSUME NEW x \in Resources PROVE Coherent(informer[x], x)'
  <2>1. informer[x] \in Object /\ store[x] \in Object
    BY DEF TypeOK, StoreTypeOK
  <2>2. CASE informer'[x] = informer[x]
    BY <1>0, <2>1, <2>2 DEF VersionsCoherent, Coherent
  <2>3. CASE informer'[x] = store[x] /\ store' = store
    BY <2>1, <2>3 DEF Coherent, Object
  <2>4. informer' = informer \/ \E y \in Resources : SyncInformer(y)
    BY
    DEF Next, Step, StoreEnv, vars, storeVars, Call, MatchCached, CacheResources,
        MatchMiss, MatchList, MatchListFails, ApplyNext, RemoveNext, UpdateOK,
        UpdateUnanswered, Accepted, RetryConflict, UpdateFails, Finish, ExternalWrite,
        ExpireCache
  <2> QED
    BY <2>2, <2>3, <2>4 DEF SyncInformer, TypeOK, StoreTypeOK
<1>2. ASSUME NEW s, IsSnapshot(s), \A x \in DOMAIN s : Coherent(s[x], x),
             NEW x \in DOMAIN s
      PROVE  s[x].rv <= store'[x].rv /\ (s[x].rv = store'[x].rv => s[x].ann = store'[x].ann)
    BY <1>0, <1>2 DEF IsSnapshot
<1>3. ASSUME cache' # NoEntry, NEW x \in DOMAIN cache' PROVE Coherent(cache[x], x)'
  <2>1. \/ cache' = cache \/ cache' = NoEntry
        \/ \E p \in Procs : cache' = snap[p]
    BY
    DEF Next, Step, StoreEnv, vars, storeVars, Call, MatchCached, CacheResources,
        MatchMiss, MatchList, MatchListFails, ApplyNext, RemoveNext, UpdateOK,
        UpdateUnanswered, Accepted, RetryConflict, UpdateFails, Finish, ExternalWrite,
        SyncInformer, ExpireCache
  <2>2. CASE cache' = cache
    BY <1>2, <1>3, <2>2 DEF TypeOK, StoreTypeOK, VersionsCoherent, Coherent
  <2>3. ASSUME NEW p \in Procs, cache' = snap[p] PROVE Coherent(cache[x], x)'
    BY <1>2, <1>3, <2>3 DEF TypeOK, VersionsCoherent, Coherent
  <2> QED
    BY <1>3, <2>1, <2>2, <2>3
<1>4. ASSUME NEW q \in Procs, NEW x \in DOMAIN snap'[q] PROVE Coherent(snap[q][x], x)'
  <2>1. \/ snap'[q] = snap[q]
        \/ cache # NoEntry /\ snap'[q] = cache
        \/ \E t \in Types : snap'[q] = Listed(snap[q], t) /\ store' = store
        \/ snap'[q] = NoSnapshot
    <3>1. \/ UNCHANGED snap
          \/ \E p \in Procs : MatchCached(p) \/ CacheResources(p) \/ Finish(p)
          \/ \E p \in Procs, t \in Types : MatchList(p, t)
      BY
      DEF Next, Step, vars, procVars, Call, MatchMiss, MatchListFails, ApplyNext,
          RemoveNext, UpdateOK, UpdateUnanswered, Accepted, RetryConflict, UpdateFails
    <3>2. ASSUME NEW p \in Procs, MatchCached(p) \/ CacheResources(p) \/ Finish(p)
          PROVE  \/ snap'[q] \in {snap[q], NoSnapshot}
                 \/ cache # NoEntry /\ snap'[q] = cache
      BY <3>2 DEF MatchCached, CacheResources, Matched, Finish, TypeOK
    <3>3. ASSUME NEW p \in Procs, NEW t \in Types, MatchList(p, t)
          PROVE  \/ snap'[q] = snap[q]
                 \/ snap'[q] = Listed(snap[q], t) /\ store' = store
      BY <3>3 DEF MatchList, TypeOK, storeVars
    <3> QED
      BY <3>1, <3>2, <3>3
  <2>2. CASE snap'[q] = snap[q]
    BY <1>2, <1>4, <2>2 DEF TypeOK, VersionsCoherent, Coherent
  <2>3. CASE cache # NoEntry /\ snap'[q] = cache
    BY <1>2, <1>4, <2>3 DEF TypeOK, StoreTypeOK, VersionsCoherent, Coherent
  <2>4. ASSUME NEW t \in Types, snap'[q] = Listed(snap[q], t), store' = store
        PROVE  Coherent(snap[q][x], x)'
    <3>1. IsSnapshot(snap[q]) /\ StoreTypeOK
      BY DEF TypeOK
    <3>2. \/ x \in Resources /\ snap'[q][x] = Observed(x)
          \/ x \in DOMAIN snap[q] /\ snap'[q][x] = snap[q][x]
      BY <1>4, <2>4, <3>1, ListedType
    <3>3. Coherent(snap'[q][x], x)
      BY <3>2, ObservedCoherent DEF VersionsCoherent
    <3> QED
      BY <2>4, <3>3 DEF Coherent
  <2>5. snap'[q] # NoSnapshot
    BY <1>4 DEF NoSnapshot
  <2> QED
    BY <2>1, <2>2, <2>3, <2>4, <2>5
<1> QED
    BY <1>1, <1>3, <1>4 DEF VersionsCoherent

\* A call's change to the annotations of an object.
Operation(a, c) == IF c.op = "apply" THEN applied(a, c) ELSE removed(a, c)

CopyOK(q) ==
    pc[q] = "update" =>
       /\ copy[q].rv <= store[cur[q]].rv
       /\ copy[q].rv = store[cur[q]].rv =>
             copy[q].ann = Operation(store[cur[q]].ann, call[q])

LEMMA CopyIsCurrentDef == CopyIsCurrent <=> \A q \in Procs : CopyOK(q)
BY DEF CopyIsCurrent, CopyOK, Operation

LEMMA NextCopy ==
    TypeOK /\ LoopInv /\ VersionsCoherent /\ CopyIsCurrent /\ [Next]_vars
      => CopyIsCurrent'
<1> SUFFICES ASSUME TypeOK, LoopInv, VersionsCoherent, CopyIsCurrent, [Next]_vars,
                    NEW q \in Procs, pc'[q] = "update"
             PROVE  CopyOK(q)'
    BY DEF CopyIsCurrent, CopyOK, Operation
<1>0. CopyOK(q)
    BY CopyIsCurrentDef
<1>1. /\ cur[q] \in Resources /\ store[cur[q]] \in Object /\ copy[q].rv \in Nat
      /\ VersionStep(cur[q])
    BY VersionsRise DEF TypeOK, StoreTypeOK, Object
<1>2. ASSUME pc[q] = "update", UNCHANGED <<cur[q], copy[q], call[q]>>
      PROVE  CopyOK(q)'
    BY <1>0, <1>1, <1>2 DEF CopyOK, VersionStep, Object
<1>3. ASSUME NEW x \in Resources, ApplyNext(q, x) \/ RemoveNext(q, x)
      PROVE  CopyOK(q)'
  <2>1. /\ x \in DOMAIN snap[q] /\ Coherent(snap[q][x], x)
        /\ store' = store /\ cur'[q] = x /\ call'[q] = call[q]
        /\ copy'[q] = [ann |-> Operation(snap[q][x].ann, call[q]), rv |-> snap[q][x].rv]
    <3>1. x \in DOMAIN snap[q]
      BY <1>3 DEF ApplyNext, RemoveNext, LoopInv, LoopOK
    <3>2. CASE ApplyNext(q, x)
      BY <3>1, <3>2 DEF ApplyNext, VersionsCoherent, storeVars, Operation, TypeOK
    <3>3. CASE RemoveNext(q, x)
      BY <3>1, <3>3 DEF RemoveNext, VersionsCoherent, storeVars, Operation, TypeOK
    <3> QED
      BY <1>3, <3>2, <3>3
  <2> QED
    BY <2>1 DEF CopyOK, Coherent
<1>4. CASE RetryConflict(q)
  <2>1. call[q].op = "apply"
    BY <1>4, ManagerAssumption DEF RetryConflict, LoopInv, LoopOK, TypeOK
  <2>2. /\ store' = store /\ cur'[q] = cur[q] /\ call'[q] = call[q]
        /\ copy'[q] = [ann |-> Operation(Observed(cur[q]).ann, call[q]),
                       rv  |-> Observed(cur[q]).rv]
    BY <1>4, <2>1 DEF RetryConflict, storeVars, Operation, TypeOK
  <2>3. Coherent(Observed(cur[q]), cur[q])
    BY <1>1, ObservedCoherent
  <2> QED
    BY <2>2, <2>3 DEF CopyOK, Coherent
<1>5. \/ pc[q] = "update" /\ UNCHANGED <<cur[q], copy[q], call[q]>>
      \/ \E x \in Resources : ApplyNext(q, x) \/ RemoveNext(q, x)
      \/ RetryConflict(q)
  <2>1. ASSUME NEW p \in Procs, p # q, (\E c \in Calls : Call(p, c)) \/ Step(p)
        PROVE  UNCHANGED <<pc[q], cur[q], copy[q], call[q]>>
    BY <2>1
    DEF Step, Call, MatchCached, CacheResources, Matched, MatchMiss, MatchList,
        MatchListFails, ApplyNext, RemoveNext, UpdateOK, UpdateUnanswered, Accepted,
        NextResource, RetryConflict, UpdateFails, Finish, TypeOK
  <2>2. ASSUME (\E c \in Calls : Call(q, c)) \/ Step(q)
        PROVE  \/ \E x \in Resources : ApplyNext(q, x) \/ RemoveNext(q, x)
               \/ RetryConflict(q)
    BY <2>2
    DEF Step, Call, MatchCached, CacheResources, Matched, MatchMiss, MatchList,
        MatchListFails, UpdateOK, UpdateUnanswered, Accepted, NextResource, UpdateFails,
        Finish, TypeOK
  <2> QED
    BY <2>1, <2>2 DEF Next, vars, procVars
<1> QED
    BY <1>2, <1>3, <1>4, <1>5

Inv == TypeOK /\ LoopInv /\ VersionsCoherent /\ CopyIsCurrent

LEMMA InvInit == Init => Inv
<1> SUFFICES ASSUME Init PROVE Inv
    OBVIOUS
<1>1. LoopInv /\ CopyIsCurrent
    BY DEF Init, LoopInv, LoopOK, CopyIsCurrent
<1>2. \A x \in Resources : Coherent(informer[x], x)
    BY DEF Init, StoreInit, Coherent
<1>3. cache = NoEntry /\ \A p \in Procs : DOMAIN snap[p] = {}
    BY DEF Init, StoreInit, NoSnapshot
<1>4. VersionsCoherent
    BY <1>2, <1>3 DEF VersionsCoherent
<1> QED
    BY InitType, <1>1, <1>4 DEF Inv

LEMMA InvInductive == Spec => []Inv
BY InvInit, NextType, NextLoop, NextCoherent, NextCopy, PTL DEF Spec, Inv

\* What a goroutine is about to write at the current version is its call
\* applied to the object as it is now.
THEOREM CopyCorrect == Spec => []CopyIsCurrent
<1>1. Inv => CopyIsCurrent
    BY DEF Inv
<1> QED
    BY InvInductive, <1>1, PTL

-----------------------------------------------------------------------------
(* What an accepted update does.                                           *)

\* The object after an accepted update is the call applied to the object
\* before it; the other objects are as they were.
LEMMA AcceptedIsOperation ==
    ASSUME Inv, NEW p \in Procs, Accepted(p)
    PROVE  /\ cur[p] \in Resources
           /\ store'[cur[p]].ann = Operation(store[cur[p]].ann, call[p])
           /\ \A y \in Resources \ {cur[p]} : store'[y] = store[y]
           /\ store[cur[p]].ann \in Annotations /\ call[p] \in CallType
<1>1. copy[p].ann = Operation(store[cur[p]].ann, call[p])
    BY CopyIsCurrentDef DEF Inv, CopyOK, Accepted
<1>2. store' = Written(cur[p], copy[p].ann)
    BY DEF Accepted
<1>3. store \in [Resources -> Object] /\ cur[p] \in Resources
      /\ store[cur[p]].ann \in Annotations /\ call[p] \in CallType
    BY DEF Inv, TypeOK, StoreTypeOK, Object
<1> QED
    BY <1>1, <1>2, <1>3 DEF Written

\* The steps that change an object are accepted updates.
LEMMA UpdateIsAccepted ==
    ASSUME Inv, [Next]_vars, NEW p \in Procs, NEW x \in Resources, Updates(p, x)
    PROVE  Accepted(p) /\ cur[p] = x
<1>1. pc[p] = "update" /\ pc'[p] = "loop" /\ store' # store /\ cur[p] = x
    BY DEF Updates
<1>2. ASSUME NEW q \in Procs, q # p, (\E c \in Calls : Call(q, c)) \/ Step(q)
      PROVE  pc'[p] = pc[p]
    BY <1>2
    DEF Inv, TypeOK, Step, Call, MatchCached, CacheResources, Matched, MatchMiss,
        MatchList, MatchListFails, ApplyNext, RemoveNext, UpdateOK, UpdateUnanswered,
        Accepted, NextResource, RetryConflict, UpdateFails, Finish
<1>3. ASSUME (\E c \in Calls : Call(p, c)) \/ Step(p) PROVE Accepted(p)
    BY <1>1, <1>3
    DEF Step, Call, MatchCached, CacheResources, MatchMiss, MatchList, MatchListFails,
        storeVars, ApplyNext, RemoveNext, UpdateOK, UpdateUnanswered, RetryConflict,
        UpdateFails, Finish
<1> QED
    BY <1>1, <1>2, <1>3 DEF Next, vars, procVars

\* Both together.
LEMMA UpdateIsOperation ==
    ASSUME Inv, [Next]_vars, NEW p \in Procs, NEW x \in Resources, Updates(p, x)
    PROVE  /\ store'[x].ann = Operation(store[x].ann, call[p])
           /\ \A y \in Resources \ {x} : store'[y] = store[y]
           /\ store[x].ann \in Annotations /\ call[p] \in CallType
BY UpdateIsAccepted, AcceptedIsOperation

\* An update changes the keys of its own call and its own rule's tracking
\* annotation only.
UpdateKeepsOthers ==
    \A p \in Procs, x \in Resources :
       Updates(p, x) =>
          /\ \A y \in Resources \ {x} : store'[y] = store[y]
          /\ \A k \in Keys \ KeysOf(call[p]) :
                store'[x].ann.val[k] = store[x].ann.val[k]
          /\ \A r \in Rules \ {call[p].rule} :
                store'[x].ann.track[r] = store[x].ann.track[r]

\* A remove deletes what is tracked as its rule's only.
RemoveTakesOwn ==
    \A p \in Procs, x \in Resources, k \in Keys :
       /\ Updates(p, x) /\ call[p].op = "remove"
       /\ store[x].ann.val[k] # NoValue /\ store'[x].ann.val[k] = NoValue
       => k \in store[x].ann.track[call[p].rule]

LEMMA OperationKeepsOthers ==
    ASSUME NEW a \in Annotations, NEW c \in CallType
    PROVE  /\ \A k \in Keys \ KeysOf(c) : Operation(a, c).val[k] = a.val[k]
           /\ \A r \in Rules \ {c.rule} : Operation(a, c).track[r] = a.track[r]
<1>1. c.rule \in Rules /\ a.val \in [Keys -> Values \cup {NoValue}]
      /\ a.track \in [Rules -> SUBSET Keys]
  BY DEF CallType, Annotations
<1>2. /\ \A k \in Keys \ KeysOf(c) : applied(a, c).val[k] = a.val[k]
      /\ \A r \in Rules \ {c.rule} : applied(a, c).track[r] = a.track[r]
  BY <1>1 DEF applied
<1>3. /\ \A k \in Keys \ KeysOf(c) : removed(a, c).val[k] = a.val[k]
      /\ \A r \in Rules \ {c.rule} : removed(a, c).track[r] = a.track[r]
  BY <1>1 DEF removed, removable
<1> QED
  BY <1>2, <1>3 DEF Operation

LEMMA StepKeepsOthers == Inv /\ [Next]_vars => UpdateKeepsOthers
<1> SUFFICES ASSUME Inv, [Next]_vars, NEW p \in Procs, NEW x \in Resources, Updates(p, x)
             PROVE  /\ \A y \in Resources \ {x} : store'[y] = store[y]
                    /\ \A k \in Keys \ KeysOf(call[p]) :
                          store'[x].ann.val[k] = store[x].ann.val[k]
                    /\ \A r \in Rules \ {call[p].rule} :
                          store'[x].ann.track[r] = store[x].ann.track[r]
    BY DEF UpdateKeepsOthers
<1>1. /\ store'[x].ann = Operation(store[x].ann, call[p])
      /\ \A y \in Resources \ {x} : store'[y] = store[y]
      /\ store[x].ann \in Annotations /\ call[p] \in CallType
    BY UpdateIsOperation
<1> QED
    BY <1>1, OperationKeepsOthers

LEMMA StepTakesOwn == Inv /\ [Next]_vars => RemoveTakesOwn
<1> SUFFICES ASSUME Inv, [Next]_vars, NEW p \in Procs, NEW x \in Resources, NEW k \in Keys,
                    Updates(p, x), call[p].op = "remove",
                    store[x].ann.val[k] # NoValue, store'[x].ann.val[k] = NoValue
             PROVE  k \in store[x].ann.track[call[p].rule]
    BY DEF RemoveTakesOwn
<1>1. store'[x].ann = removed(store[x].ann, call[p])
    BY UpdateIsOperation DEF Operation
<1>2. store'[x].ann.val[k] = IF k \in removable(store[x].ann, call[p])
                               THEN NoValue ELSE store[x].ann.val[k]
    BY <1>1 DEF removed
<1>3. k \in removable(store[x].ann, call[p])
    BY <1>2
<1> QED
    BY <1>3 DEF removable

\* An update never loses what others wrote.
THEOREM NoLostUpdateCorrect == Spec => NoLostUpdate
<1>1. Inv /\ [Next]_vars => [UpdateKeepsOthers]_vars
    BY StepKeepsOthers
<1> QED
    BY <1>1, InvInductive, PTL DEF Spec, NoLostUpdate, UpdateKeepsOthers

\* A remove deletes only annotations tracked as its own rule's.
THEOREM RemovesOnlyOwnCorrect == Spec => RemovesOnlyOwn
<1>1. Inv /\ [Next]_vars => [RemoveTakesOwn]_vars
    BY StepTakesOwn
<1> QED
    BY <1>1, InvInductive, PTL DEF Spec, RemovesOnlyOwn, RemoveTakesOwn
-----------------------------------------------------------------------------
(* Calls that follow one another on an object.                             *)

\* RemoveAnnotations takes back ApplyAnnotations of the same rule and keys:
\* nothing of it is left, nothing stays tracked, and what belongs to others
\* is as it was.  A value that the apply replaced does not come back.
THEOREM RemoveTakesBack ==
    ASSUME NEW a \in Annotations, NEW c \in CallType
    PROVE  LET b == removed(applied(a, c), c)
           IN  /\ \A k \in KeysOf(c) : b.val[k] = NoValue
               /\ \A k \in Keys \ KeysOf(c) : b.val[k] = a.val[k]
               /\ b.track[c.rule] = {}
               /\ \A r \in Rules \ {c.rule} : b.track[r] = a.track[r]
BY DEF applied, removed, removable, KeysOf, Annotations, CallType

\* Which of two goroutines gets its update in first does not matter when
\* their calls are for different rules with different keys, whether they
\* apply or remove.
THEOREM DisjointCallsCommute ==
    ASSUME NEW a \in Annotations, NEW c \in CallType, NEW d \in CallType,
           c.rule # d.rule, KeysOf(c) \cap KeysOf(d) = {}
    PROVE  Operation(Operation(a, c), d) = Operation(Operation(a, d), c)
<1>1. applied(applied(a, c), d) = applied(applied(a, d), c)
    BY DEF applied, KeysOf, Annotations, CallType
<1>2. applied(removed(a, c), d) = removed(applied(a, d), c)
    BY DEF applied, removed, removable, KeysOf, Annotations, CallType
<1>3. removed(applied(a, c), d) = applied(removed(a, d), c)
    BY DEF applied, removed, removable, KeysOf, Annotations, CallType
<1>4. removed(removed(a, c), d) = removed(removed(a, d), c)
    BY DEF removed, removable, KeysOf, Annotations, CallType
<1> QED
    BY <1>1, <1>2, <1>3, <1>4 DEF Operation, CallType
=============================================================================
