------------------------- MODULE OrphanCleanupProofs -------------------------
(***************************************************************************)
(* Proofs about the orphan cleanup beside the manager's calls, for any     *)
(* rules, workloads and goroutines.  The cleaner's listed copies obey the  *)
(* manager's argument: one that still has the object's version is the      *)
(* object.                                                                 *)
(***************************************************************************)
EXTENDS OrphanCleanup, ResourceManagerRefinement

-----------------------------------------------------------------------------
(* The inductive invariant.                                                *)

\* The cleaner's locals; CleanupTypeOK says it of each of them.
CleanerType ==
    [pc : {"idle", "types", "batch"}, validRuleIDs : SUBSET Rules,
     types : SUBSET Types, resources : UNION {[S -> Object] : S \in SUBSET Resources}]

\* The cleaner's copies of the objects are coherent, like the manager's.
CleanerCoherent ==
    \A x \in DOMAIN cleaner.resources : Coherent(cleaner.resources[x], x)

CleanupInv ==
    /\ TypeOK /\ LoopInv /\ VersionsCoherent
    /\ rules \subseteq Rules /\ cleaner \in CleanerType
    /\ CleanerCoherent

LEMMA SnapshotType ==
    \A s : IsSnapshot(s) <=> s \in UNION {[S -> Object] : S \in SUBSET Resources}
BY DEF IsSnapshot

LEMMA CleanupInvInit == CleanupInit => CleanupInv
<1> SUFFICES ASSUME CleanupInit PROVE CleanupInv
    OBVIOUS
<1>1. Inv
    BY InvInit DEF CleanupInit
<1>2. NoSnapshot \in UNION {[S -> Object] : S \in SUBSET Resources}
    BY ScopeType, SnapshotType
<1>3. cleaner \in CleanerType
    BY <1>2 DEF CleanupInit, CleanerType
<1>4. CleanerCoherent
    BY DEF CleanupInit, CleanerCoherent, NoSnapshot
<1> QED
    BY <1>1, <1>3, <1>4 DEF CleanupInit, CleanupInv, Inv

-----------------------------------------------------------------------------
(* The steps of the others.                                                *)

\* Coherent copies stay coherent when versions only rise.
LEMMA CleanerStays ==
    ASSUME CleanupInv, UNCHANGED cleaner,
           \A x \in Resources : VersionStep(x)
    PROVE  CleanerCoherent'
<1> SUFFICES ASSUME NEW x \in DOMAIN cleaner.resources
             PROVE  Coherent(cleaner.resources[x], x)'
    BY DEF CleanerCoherent
<1>1. x \in Resources /\ cleaner.resources[x] \in Object
    BY DEF CleanupInv, CleanerType
<1>2. Coherent(cleaner.resources[x], x) /\ VersionStep(x)
    BY <1>1 DEF CleanupInv, CleanerCoherent
<1>3. cleaner.resources[x].rv \in Nat /\ TypeOK
    BY <1>1 DEF CleanupInv, Object
<1> HIDE DEF CleanupInv
<1> QED
    BY <1>1, <1>2, <1>3, CoherentStep DEF Coherent

LEMMA OthersKeepInv ==
    ASSUME CleanupInv, [Next]_vars, UNCHANGED cleaner, rules' \subseteq Rules
    PROVE  CleanupInv'
<1>1. (TypeOK /\ LoopInv /\ VersionsCoherent)'
    BY NextType, NextLoop, NextCoherent DEF CleanupInv
<1>2. CleanerCoherent'
    BY CleanerStays, VersionsRise DEF CleanupInv
<1> QED
    BY <1>1, <1>2 DEF CleanupInv

-----------------------------------------------------------------------------
(* The cleaner's steps.                                                    *)

\* It deletes tracking annotations as a whole and keeps the rest.
LEMMA CleanedUpKeeps ==
    ASSUME NEW a \in Annotations
    PROVE  /\ cleanedUp(a) \in Annotations
           /\ cleanedUp(a).val = a.val
           /\ \A r \in Rules : cleanedUp(a).track[r] \in {a.track[r], {}}
BY DEF cleanedUp, Annotations

\* An update leaves the manager's invariant as it is: its copies stay behind
\* the object or equal to it.
LEMMA WriteKeepsManager ==
    ASSUME TypeOK, LoopInv, VersionsCoherent, UNCHANGED <<informer, cache, procVars>>,
           NEW y \in Resources, NEW a \in Annotations,
           store' = Written(y, a)
    PROVE  /\ (TypeOK /\ LoopInv /\ VersionsCoherent)'
           /\ \A x \in Resources : VersionStep(x)
<1>0. StoreTypeOK
    BY DEF TypeOK
<1>1. store' \in [Resources -> Object] /\ \A x \in Resources : VersionStep(x)
    BY <1>0, WrittenType, WrittenVersion
<1>2. StoreTypeOK'
    BY <1>0, <1>1 DEF StoreTypeOK, IsSnapshot
<1>3. TypeOK' /\ LoopInv'
    BY <1>2 DEF TypeOK, LoopInv, LoopOK, procVars, IsSnapshot
<1>4. ASSUME NEW x \in Resources, NEW o \in Object, Coherent(o, x)
      PROVE  o.rv <= store'[x].rv /\ (o.rv = store'[x].rv => o.ann = store'[x].ann)
  <2>1. o.rv \in Nat /\ VersionStep(x)
    BY <1>1 DEF Object
  <2> QED
    BY <1>4, <2>1, CoherentStep
<1>5. VersionsCoherent'
  <2>1. ASSUME NEW x \in Resources PROVE Coherent(informer[x], x)'
    BY <1>0, <1>4 DEF StoreTypeOK, VersionsCoherent, Coherent
  <2>2. ASSUME cache # NoEntry, NEW x \in DOMAIN cache PROVE Coherent(cache[x], x)'
    <3>1. x \in Resources /\ cache[x] \in Object
      BY <1>0, <2>2 DEF StoreTypeOK, IsSnapshot
    <3> QED
      BY <1>4, <2>2, <3>1 DEF VersionsCoherent, Coherent
  <2>3. ASSUME NEW p \in Procs, NEW x \in DOMAIN snap[p] PROVE Coherent(snap[p][x], x)'
    <3>1. x \in Resources /\ snap[p][x] \in Object
      BY <2>3 DEF TypeOK, IsSnapshot
    <3> QED
      BY <1>4, <2>3, <3>1 DEF VersionsCoherent, Coherent, procVars
  <2> QED
    BY <2>1, <2>2, <2>3 DEF VersionsCoherent, procVars
<1> QED
    BY <1>1, <1>3, <1>5

\* A step that leaves the objects alone.
LEMMA ReadKeepsInv ==
    ASSUME CleanupInv, UNCHANGED <<vars, rules>>, cleaner' \in CleanerType,
           \A x \in DOMAIN cleaner'.resources : Coherent(cleaner'.resources[x], x)
    PROVE  CleanupInv'
<1>1. (TypeOK /\ LoopInv /\ VersionsCoherent)'
    BY NextType, NextLoop, NextCoherent DEF CleanupInv
<1>2. CleanerCoherent'
    BY DEF CleanerCoherent, Coherent, vars, storeVars
<1> QED
    BY <1>1, <1>2 DEF CleanupInv

\* The rest of the batch are copies the cleaner had before.
LEMMA NextCleanupType ==
    ASSUME CleanupInv, NEW x \in Resources, NextCleanup(x)
    PROVE  /\ cleaner' \in CleanerType
           /\ \A y \in DOMAIN cleaner'.resources :
                 y \in DOMAIN cleaner.resources
                    /\ cleaner'.resources[y] = cleaner.resources[y]
<1>1. cleaner \in CleanerType /\ cleaner' = [cleaner EXCEPT !.resources = [y \in DOMAIN @ \ {x} |-> @[y]]]
    BY DEF CleanupInv, NextCleanup
<1>2. cleaner'.resources = [y \in DOMAIN cleaner.resources \ {x} |-> cleaner.resources[y]]
    BY <1>1 DEF CleanerType
<1>3. cleaner'.resources \in UNION {[S -> Object] : S \in SUBSET Resources}
    BY <1>1, <1>2 DEF CleanerType
<1> QED
    BY <1>1, <1>2, <1>3 DEF CleanerType

\* What an accepted update writes is the cleaned-up object as it is.
LEMMA CleansCurrent ==
    ASSUME CleanupInv, NEW x \in Resources, cleanupResourceAnnotations(x)
    PROVE  /\ store[x].ann \in Annotations
           /\ store' = Written(x, cleanedUp(store[x].ann))
<1>1. x \in DOMAIN cleaner.resources /\ cleaner.resources[x].rv = store[x].rv
    BY DEF cleanupResourceAnnotations, NextCleanup
<1>2. cleaner.resources[x].ann = store[x].ann
    BY <1>1 DEF CleanupInv, CleanerCoherent, Coherent
<1>3. store[x].ann \in Annotations
    BY DEF CleanupInv, TypeOK, StoreTypeOK, Object
<1> QED
    BY <1>2, <1>3 DEF cleanupResourceAnnotations

LEMMA CleanupKeepsInv == CleanupInv /\ CleanupStep => CleanupInv'
<1> SUFFICES ASSUME CleanupInv, CleanupStep PROVE CleanupInv'
    OBVIOUS
<1>0. cleaner \in CleanerType /\ TypeOK /\ VersionsCoherent /\ LoopInv
    BY DEF CleanupInv
<1>1. CASE getValidRuleIDs \/ cleanupResourceTypeReturn \/ CleanupReturn
  <2>1. cleaner' \in CleanerType /\ cleaner'.resources = cleaner.resources
    BY <1>0, <1>1 DEF getValidRuleIDs, cleanupResourceTypeReturn, CleanupReturn,
        CleanerType, CleanupInv
  <2> QED
    BY <1>1, <2>1, ReadKeepsInv
    DEF getValidRuleIDs, cleanupResourceTypeReturn, CleanupReturn, CleanupInv, CleanerCoherent
<1>2. ASSUME NEW t \in Types, getResourcesWithSchedulerAnnotations(t) PROVE CleanupInv'
  <2> DEFINE found == {x \in Resources : TypeOf[x] = t
                                         /\ hasSchedulerAnnotations(Observed(x).ann)}
  <2>1. cleaner' = [cleaner EXCEPT !.pc = "batch", !.types = @ \ {t},
                                   !.resources = [x \in found |-> Observed(x)]]
    BY <1>2 DEF getResourcesWithSchedulerAnnotations
  <2>2. found \subseteq Resources
    OBVIOUS
  <2> HIDE DEF found
  <2>3. [x \in found |-> Observed(x)] \in UNION {[S -> Object] : S \in SUBSET Resources}
    BY <1>0, <2>2, ObservedType DEF TypeOK
  <2>4. cleaner' \in CleanerType /\ cleaner'.resources = [x \in found |-> Observed(x)]
    BY <1>0, <2>1, <2>3 DEF CleanerType
  <2>5. \A x \in DOMAIN cleaner'.resources : Coherent(cleaner'.resources[x], x)
    BY <1>0, <2>2, <2>4, ObservedCoherent
  <2> QED
    BY <1>2, <2>4, <2>5, ReadKeepsInv DEF getResourcesWithSchedulerAnnotations
<1>3. ASSUME NEW t \in Types, getResourcesFails(t) PROVE CleanupInv'
  <2>1. cleaner' \in CleanerType /\ cleaner'.resources = cleaner.resources
    BY <1>0, <1>3 DEF getResourcesFails, CleanerType
  <2> QED
    BY <1>3, <2>1, ReadKeepsInv DEF getResourcesFails, CleanupInv, CleanerCoherent
<1>4. ASSUME NEW x \in Resources, cleanupResourceSkips(x) PROVE CleanupInv'
  <2>1. /\ cleaner' \in CleanerType
        /\ \A y \in DOMAIN cleaner'.resources :
              y \in DOMAIN cleaner.resources /\ cleaner'.resources[y] = cleaner.resources[y]
    BY <1>4, NextCleanupType DEF cleanupResourceSkips
  <2> QED
    BY <1>4, <2>1, ReadKeepsInv
    DEF cleanupResourceSkips, NextCleanup, CleanupInv, CleanerCoherent, vars, storeVars
<1>5. ASSUME NEW x \in Resources, cleanupResourceAnnotations(x) PROVE CleanupInv'
  <2>1. NextCleanup(x) /\ UNCHANGED <<informer, cache, procVars, rules>>
    BY <1>5 DEF cleanupResourceAnnotations, NextCleanup
  <2>2. /\ cleaner' \in CleanerType
        /\ \A y \in DOMAIN cleaner'.resources :
              y \in DOMAIN cleaner.resources /\ cleaner'.resources[y] = cleaner.resources[y]
    BY <2>1, NextCleanupType
  <2>3. /\ (TypeOK /\ LoopInv /\ VersionsCoherent)'
        /\ \A y \in Resources : VersionStep(y)
    BY <1>0, <1>5, <2>1, CleansCurrent, CleanedUpKeeps, WriteKeepsManager
  <2>4. ASSUME NEW y \in DOMAIN cleaner'.resources PROVE Coherent(cleaner.resources[y], y)'
    <3>1. /\ y \in Resources /\ cleaner.resources[y] \in Object
          /\ Coherent(cleaner.resources[y], y) /\ VersionStep(y)
          /\ cleaner'.resources[y] = cleaner.resources[y]
      BY <1>0, <2>2, <2>3 DEF CleanerType, CleanupInv, CleanerCoherent
    <3>2. cleaner.resources[y].rv \in Nat
      BY <3>1 DEF Object
    <3> QED
      BY <1>0, <3>1, <3>2, CoherentStep DEF Coherent
  <2> QED
    BY <2>1, <2>2, <2>3, <2>4 DEF CleanupInv, CleanerCoherent
<1> QED
    BY <1>1, <1>2, <1>3, <1>4, <1>5 DEF CleanupStep

LEMMA CleanupInvStep == CleanupInv /\ [CleanupNext]_cleanupVars => CleanupInv'
<1> SUFFICES ASSUME CleanupInv, [CleanupNext]_cleanupVars PROVE CleanupInv'
    OBVIOUS
<1>1. CASE CleanupStep
    BY <1>1, CleanupKeepsInv
<1>2. ASSUME [Next]_vars, UNCHANGED cleaner, rules' \subseteq Rules PROVE CleanupInv'
    BY <1>2, OthersKeepInv
<1>3. ASSUME ~CleanupStep PROVE [Next]_vars /\ UNCHANGED cleaner /\ rules' \subseteq Rules
    BY <1>3 DEF CleanupNext, Next, CreateRule, DeleteRule, cleanupVars, CleanupInv
<1> QED
    BY <1>1, <1>2, <1>3

LEMMA CleanupInductive == CleanupSpec => []CleanupInv
BY CleanupInvInit, CleanupInvStep, PTL DEF CleanupSpec

-----------------------------------------------------------------------------
(* Results.                                                                *)

\* The cleaner's locals and the rules keep their types.
THEOREM CleanupTypeCorrect == CleanupSpec => []CleanupTypeOK
<1>1. CleanupInv => CleanupTypeOK
    BY SnapshotType DEF CleanupInv, CleanerType, CleanupTypeOK
<1> QED
    BY <1>1, CleanupInductive, PTL

\* Whatever the manager and other clients wrote since the cleaner's list, an
\* update of the cleaner deletes tracking annotations as a whole, nothing else.
THEOREM CleanupPreservesCorrect == CleanupSpec => CleanupPreserves
<1>1. ASSUME CleanupInv, CleanupNext, NEW x \in Resources, Cleans(x)
      PROVE  /\ store'[x].ann.val = store[x].ann.val
             /\ \A r \in Rules : store'[x].ann.track[r] \in {store[x].ann.track[r], {}}
  <2>1. cleaner' # cleaner /\ store' # store
    BY <1>1 DEF Cleans
  <2>2. CleanupStep
    BY <1>1, <2>1 DEF CleanupNext, CreateRule, DeleteRule
  <2>3. PICK y \in Resources : cleanupResourceAnnotations(y)
    BY <2>1, <2>2
    DEF CleanupStep, getValidRuleIDs, cleanupResourceTypeReturn, CleanupReturn,
        getResourcesWithSchedulerAnnotations, getResourcesFails, cleanupResourceSkips,
        vars, storeVars
  <2>4. store' = Written(y, cleanedUp(store[y].ann)) /\ store[y].ann \in Annotations
    BY <1>1, <2>3, CleansCurrent
  <2>5. store \in [Resources -> Object] /\ store'[x] # store[x]
    BY <1>1 DEF CleanupInv, TypeOK, StoreTypeOK, Cleans
  <2>6. y = x /\ store'[x].ann = cleanedUp(store[x].ann)
    BY <2>4, <2>5 DEF Written
  <2> QED
    BY <2>4, <2>6, CleanedUpKeeps
<1>2. ASSUME CleanupInv, [CleanupNext]_cleanupVars
      PROVE  [\A x \in Resources :
                Cleans(x) =>
                   /\ store'[x].ann.val = store[x].ann.val
                   /\ \A r \in Rules :
                         store'[x].ann.track[r] \in {store[x].ann.track[r], {}}
             ]_cleanupVars
    BY <1>1, <1>2
<1> QED
    BY <1>2, CleanupInductive, PTL DEF CleanupSpec, CleanupPreserves

-----------------------------------------------------------------------------
(* The manager's calls beside the cleaner.                                 *)

\* A write of the cleaner makes the copies that goroutines hold of the object
\* old, so that the API server refuses them.
LEMMA WriteKeepsCopies ==
    ASSUME CopyIsCurrent, TypeOK, UNCHANGED procVars,
           \A x \in Resources : VersionStep(x)
    PROVE  CopyIsCurrent'
<1> SUFFICES ASSUME NEW q \in Procs PROVE CopyOK(q)'
    BY DEF CopyIsCurrent, CopyOK, Operation
<1>1. CopyOK(q) /\ UNCHANGED <<pc, cur, copy, call>>
    BY CopyIsCurrentDef DEF procVars
<1>2. /\ cur[q] \in Resources /\ store[cur[q]] \in Object /\ copy[q].rv \in Nat
      /\ VersionStep(cur[q])
    BY DEF TypeOK, StoreTypeOK, Object
<1> QED
    BY <1>1, <1>2 DEF CopyOK, VersionStep, Object

\* A step of the whole is one of the manager's path or leaves its locals
\* alone, and versions rise in either.
LEMMA CleanupStepPlain ==
    ASSUME CleanupInv, [CleanupNext]_cleanupVars
    PROVE  /\ [Next]_vars \/ UNCHANGED procVars
           /\ \A x \in Resources : VersionStep(x)
<1>0. TypeOK /\ LoopInv /\ VersionsCoherent
    BY DEF CleanupInv
<1>1. CASE [Next]_vars
    BY <1>0, <1>1, VersionsRise
<1>2. ASSUME NEW x \in Resources, cleanupResourceAnnotations(x)
      PROVE  UNCHANGED procVars /\ \A y \in Resources : VersionStep(y)
  <2>1. UNCHANGED <<informer, cache, procVars>>
    BY <1>2 DEF cleanupResourceAnnotations, NextCleanup
  <2> QED
    BY <1>0, <1>2, <2>1, CleansCurrent, CleanedUpKeeps, WriteKeepsManager
<1>3. ASSUME UNCHANGED <<store, procVars>>
      PROVE  UNCHANGED procVars /\ \A y \in Resources : VersionStep(y)
    BY <1>3 DEF VersionStep
<1>4. CASE CleanupStep
    BY <1>2, <1>3, <1>4
    DEF CleanupStep, getValidRuleIDs, cleanupResourceTypeReturn, CleanupReturn,
        getResourcesWithSchedulerAnnotations, getResourcesFails, cleanupResourceSkips,
        NextCleanup, vars, storeVars
<1> QED
    BY <1>1, <1>4 DEF CleanupNext, Next, CreateRule, DeleteRule, cleanupVars

LEMMA ManagerInductive == CleanupSpec => [](CleanupInv /\ StrongInv)
<1>1. CleanupInit => StrongInv
    BY InvInit DEF CleanupInit, StrongInv, Init, Tallies, Tally, NoSnapshot
<1>2. CleanupInv /\ StrongInv /\ [CleanupNext]_cleanupVars /\ CleanupInv' => StrongInv'
  <2> SUFFICES ASSUME CleanupInv, StrongInv, [CleanupNext]_cleanupVars, CleanupInv'
               PROVE  StrongInv'
      OBVIOUS
  <2>1. (TypeOK /\ LoopInv /\ VersionsCoherent)'
    BY DEF CleanupInv
  <2>2. Tallies'
    BY CleanupStepPlain, StepBesideOthers
  <2>3. CopyIsCurrent'
    <3>1. CASE [Next]_vars
      BY <3>1, NextCopy DEF StrongInv, Inv
    <3>2. CASE UNCHANGED procVars
      BY <3>2, CleanupStepPlain, WriteKeepsCopies DEF StrongInv, Inv
    <3> QED
      BY <3>1, <3>2, CleanupStepPlain
  <2> QED
    BY <2>1, <2>2, <2>3 DEF StrongInv, Inv
<1> QED
    BY <1>1, <1>2, CleanupInductive, PTL DEF CleanupSpec

\* The cleanup routine, which writes to the same objects from copies of its
\* own, takes nothing from what the calls for plain annotations promise.
THEOREM PlainCallsBesideCleanup ==
    CleanupSpec => /\ []CopyIsCurrent /\ NoLostUpdate /\ RemovesOnlyOwn
                   /\ ApplyLands /\ SuccessMeansAll
<1>1. CleanupInv /\ StrongInv /\ [CleanupNext]_cleanupVars => [ManagerActs]_vars
    BY CleanupStepPlain, StepBesideOthers
<1>2. StrongInv => CopyIsCurrent
    BY DEF StrongInv, Inv
<1> QED
    BY <1>1, <1>2, ManagerInductive, PTL
    DEF CleanupSpec, ManagerActs, NoLostUpdate, UpdateKeepsOthers, RemovesOnlyOwn,
        RemoveTakesOwn, ApplyLands, CountedLands, SuccessMeansAll, ReturnAccounts
=============================================================================
