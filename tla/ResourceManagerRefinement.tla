---------------------- MODULE ResourceManagerRefinement ----------------------
(***************************************************************************)
(* Proofs that a call of the resource manager accounts for every object of *)
(* its query, and that the manager implements AnnotationStore: with the    *)
(* versions, the copies and the caches out of sight, each operation        *)
(* happens on each object at one instant, on the object as it is then.     *)
(***************************************************************************)
EXTENDS ResourceManagerProofs

-----------------------------------------------------------------------------
(* The books of a call.                                                    *)

\* Inside the loop what was found is done, still to do or reported as failed,
\* and nothing is done that is still to do.
Tally(p) ==
    /\ pc[p] \in {"idle", "match", "list"} => done[p] = {}
    /\ pc[p] = "idle" => DOMAIN snap[p] = {}
    /\ pc[p] \in {"loop", "update"} =>
          /\ call[p].op # "query"
          /\ DOMAIN snap[p] # {}
          /\ todo[p] \subseteq DOMAIN snap[p]
          /\ done[p] \subseteq DOMAIN snap[p] \ todo[p]
          /\ failed[p] = TRUE \/ DOMAIN snap[p] \subseteq done[p] \cup todo[p]
    /\ pc[p] = "update" => cur[p] \in todo[p]

Tallies == \A p \in Procs : Tally(p)

\* The locals of a goroutine are its own.
LEMMA OthersLocals ==
    ASSUME TypeOK, NEW p \in Procs, NEW q \in Procs, p # q,
           (\E c \in Calls : Call(p, c)) \/ Step(p)
    PROVE  UNCHANGED <<pc[q], call[q], snap[q], todo[q], cur[q], attempt[q], done[q], failed[q]>>
<1>1. ASSUME NEW c \in Calls, Call(p, c)
      PROVE UNCHANGED <<pc[q], call[q], snap[q], todo[q], cur[q], attempt[q], done[q], failed[q]>>
    BY <1>1 DEF Call, TypeOK
<1>2. ASSUME MatchCached(p) \/ CacheResources(p)
      PROVE UNCHANGED <<pc[q], call[q], snap[q], todo[q], cur[q], attempt[q], done[q], failed[q]>>
    BY <1>2 DEF MatchCached, CacheResources, Matched, TypeOK
<1>3. ASSUME NEW t \in Types, MatchList(p, t) \/ MatchListFails(p, t)
      PROVE UNCHANGED <<pc[q], call[q], snap[q], todo[q], cur[q], attempt[q], done[q], failed[q]>>
    BY <1>3 DEF MatchList, MatchListFails, TypeOK
<1>7. ASSUME MatchMiss(p)
      PROVE UNCHANGED <<pc[q], call[q], snap[q], todo[q], cur[q], attempt[q], done[q], failed[q]>>
    BY <1>7 DEF MatchMiss, TypeOK
<1>4. ASSUME NEW x \in Resources, ApplyNext(p, x) \/ RemoveNext(p, x)
      PROVE UNCHANGED <<pc[q], call[q], snap[q], todo[q], cur[q], attempt[q], done[q], failed[q]>>
    BY <1>4 DEF ApplyNext, RemoveNext, TypeOK
<1>5. ASSUME UpdateOK(p) \/ UpdateUnanswered(p)
      PROVE UNCHANGED <<pc[q], call[q], snap[q], todo[q], cur[q], attempt[q], done[q], failed[q]>>
    BY <1>5 DEF UpdateOK, UpdateUnanswered, Accepted, NextResource, TypeOK
<1>6. ASSUME RetryConflict(p) \/ UpdateFails(p) \/ Finish(p)
      PROVE UNCHANGED <<pc[q], call[q], snap[q], todo[q], cur[q], attempt[q], done[q], failed[q]>>
    BY <1>6 DEF RetryConflict, UpdateFails, NextResource, Finish, TypeOK
<1> QED
    BY <1>1, <1>2, <1>3, <1>4, <1>5, <1>6, <1>7 DEF Step

LEMMA NextTally == TypeOK /\ Tallies /\ [Next]_vars => Tallies'
<1> SUFFICES ASSUME TypeOK, Tallies, [Next]_vars, NEW q \in Procs PROVE Tally(q)'
    BY DEF Tallies
<1>0. Tally(q)
    BY DEF Tallies
<1>1. ASSUME UNCHANGED <<pc[q], call[q], snap[q], todo[q], cur[q], done[q], failed[q]>>
      PROVE  Tally(q)'
    BY <1>0, <1>1 DEF Tally
<1>2. ASSUME NEW p \in Procs, p # q, (\E c \in Calls : Call(p, c)) \/ Step(p)
      PROVE  Tally(q)'
    BY <1>1, <1>2, OthersLocals
<1>3. ASSUME NEW c \in Calls, Call(q, c) PROVE Tally(q)'
    BY <1>0, <1>3 DEF Call, TypeOK, Tally
<1>4. ASSUME MatchCached(q) \/ CacheResources(q) PROVE Tally(q)'
  <2>1. PICK s : Matched(q, s) /\ UNCHANGED <<call, done, failed>>
                 /\ pc[q] \in {"match", "list"}
    BY <1>4 DEF MatchCached, CacheResources
  <2>2. DOMAIN NoSnapshot = {}
    BY DEF NoSnapshot
  <2> QED
    BY <1>0, <2>1, <2>2 DEF Matched, TypeOK, Tally
<1>5. ASSUME NEW t \in Types, MatchList(q, t) \/ MatchListFails(q, t) PROVE Tally(q)'
    BY <1>0, <1>5 DEF MatchList, MatchListFails, TypeOK, Tally
<1>11. ASSUME MatchMiss(q) PROVE Tally(q)'
    BY <1>0, <1>11 DEF MatchMiss, TypeOK, Tally
<1>6. ASSUME NEW x \in Resources, ApplyNext(q, x) \/ RemoveNext(q, x) PROVE Tally(q)'
    BY <1>0, <1>6 DEF ApplyNext, RemoveNext, TypeOK, Tally
<1>7. ASSUME UpdateOK(q) PROVE Tally(q)'
    BY <1>0, <1>7 DEF UpdateOK, Accepted, NextResource, TypeOK, Tally
<1>8. ASSUME UpdateUnanswered(q) \/ UpdateFails(q) PROVE Tally(q)'
    BY <1>0, <1>8
    DEF UpdateUnanswered, Accepted, UpdateFails, NextResource, TypeOK, Tally
<1>9. ASSUME RetryConflict(q) \/ Finish(q) PROVE Tally(q)'
    BY <1>0, <1>9 DEF RetryConflict, Finish, TypeOK, Tally, NoSnapshot
<1>10. CASE UNCHANGED procVars
    BY <1>1, <1>10 DEF procVars
<1> QED
    BY <1>2, <1>3, <1>4, <1>5, <1>6, <1>7, <1>8, <1>9, <1>10, <1>11 DEF Next, Step, vars

StrongInv == Inv /\ Tallies

LEMMA StrongInvInductive == Spec => []StrongInv
<1>1. Init => Tallies
    BY DEF Init, Tallies, Tally, NoSnapshot
<1>2. Inv => TypeOK
    BY DEF Inv
<1> QED
    BY InvInductive, NextTally, <1>1, <1>2, PTL DEF Spec, StrongInv

\* A call that returns without an error has dealt with all it found.
ReturnAccounts ==
    \A p \in Procs :
       pc[p] = "loop" /\ pc'[p] = "idle" /\ ~failed[p] => done[p] = DOMAIN snap[p]

LEMMA StepAccounts == StrongInv /\ [Next]_vars => ReturnAccounts
<1> SUFFICES ASSUME StrongInv, [Next]_vars, NEW p \in Procs,
                    pc[p] = "loop", pc'[p] = "idle", ~failed[p]
             PROVE  done[p] = DOMAIN snap[p]
    BY DEF ReturnAccounts
<1>1. Tally(p)
    BY DEF StrongInv, Tallies
<1>2. todo[p] = {}
  <2>1. ASSUME NEW q \in Procs, (\E c \in Calls : Call(q, c)) \/ Step(q), ~Finish(p)
        PROVE  FALSE
    BY <2>1
    DEF StrongInv, Inv, TypeOK, Step, Call, MatchCached, CacheResources, Matched,
        MatchMiss, MatchList, MatchListFails, ApplyNext, RemoveNext, UpdateOK,
        UpdateUnanswered, Accepted, NextResource, RetryConflict, UpdateFails, Finish
  <2>2. Finish(p)
    BY <2>1 DEF Next, vars, procVars
  <2> QED
    BY <2>2 DEF Finish
<1>3. ~(failed[p] = TRUE)
    BY Zenon
<1> QED
    BY <1>1, <1>2, <1>3 DEF Tally

\* A call that returns without an error has dealt with every object its query
\* returned.
THEOREM SuccessMeansAllCorrect == Spec => SuccessMeansAll
<1>1. StrongInv /\ [Next]_vars => [ReturnAccounts]_vars
    BY StepAccounts
<1> QED
    BY <1>1, StrongInvInductive, PTL DEF Spec, SuccessMeansAll, ReturnAccounts

\* Only its own steps count objects for a goroutine.
LEMMA DoneByOthers ==
    ASSUME Inv, NEW p \in Procs, NEW q \in Procs, q # p,
           (\E c \in Calls : Call(q, c)) \/ Step(q)
    PROVE  done'[p] = done[p]
<1>0. done \in [Procs -> SUBSET Resources]
    BY DEF Inv, TypeOK
<1>1. \/ UNCHANGED done
      \/ \E S : done' = [done EXCEPT ![q] = S]
  <2>1. CASE \E c \in Calls : Call(q, c)
    BY <2>1 DEF Call
  <2>2. CASE \E x \in Resources : ApplyNext(q, x) \/ RemoveNext(q, x)
    BY <2>2 DEF ApplyNext, RemoveNext
  <2>3. CASE UpdateOK(q)
    BY <2>3 DEF UpdateOK
  <2>4. CASE \/ MatchCached(q) \/ CacheResources(q)
             \/ MatchMiss(q) \/ \E t \in Types : MatchList(q, t) \/ MatchListFails(q, t)
             \/ UpdateUnanswered(q) \/ RetryConflict(q) \/ UpdateFails(q) \/ Finish(q)
    BY <2>4
    DEF MatchCached, CacheResources, MatchMiss, MatchList, MatchListFails,
        UpdateUnanswered, RetryConflict, UpdateFails, Finish
  <2> QED
    BY <2>1, <2>2, <2>3, <2>4 DEF Step
<1> QED
    BY <1>0, <1>1

\* An apply that counts an object has put all its annotations on it.
CountedLands ==
    \A p \in Procs, x \in Resources :
       x \in done'[p] \ done[p] /\ call[p].op = "apply" =>
          \A k \in KeysOf(call[p]) :
             /\ store'[x].ann.val[k] = call[p].ann[k]
             /\ k \in store'[x].ann.track[call[p].rule]

LEMMA StepLands == Inv /\ [Next]_vars => CountedLands
<1> SUFFICES ASSUME Inv, [Next]_vars, NEW p \in Procs, NEW x \in Resources,
                    x \in done'[p] \ done[p], call[p].op = "apply",
                    NEW k \in KeysOf(call[p])
             PROVE  /\ store'[x].ann.val[k] = call[p].ann[k]
                    /\ k \in store'[x].ann.track[call[p].rule]
    BY DEF CountedLands
<1>1. UpdateOK(p) /\ cur[p] = x
  <2>1. ASSUME NEW q \in Procs, q # p, (\E c \in Calls : Call(q, c)) \/ Step(q)
        PROVE  done'[p] = done[p]
    BY <2>1, DoneByOthers
  <2>2. ASSUME (\E c \in Calls : Call(p, c)) \/ Step(p) PROVE UpdateOK(p)
    BY <2>2
    DEF Inv, TypeOK, Step, Call, MatchCached, CacheResources, MatchMiss, MatchList,
        MatchListFails, ApplyNext, RemoveNext, UpdateUnanswered, RetryConflict,
        UpdateFails, Finish
  <2>3. UpdateOK(p)
    BY <2>1, <2>2 DEF Next, vars, procVars
  <2> QED
    BY <2>3 DEF UpdateOK, Inv, TypeOK
<1>2. /\ store'[x].ann = applied(store[x].ann, call[p])
      /\ store[x].ann \in Annotations /\ call[p] \in CallType
    BY <1>1, AcceptedIsOperation DEF UpdateOK, Operation
<1> QED
    BY <1>2 DEF applied, Annotations, CallType, KeysOf

\* An apply that counts an object has put all its annotations on it and has
\* recorded them as the rule's, conflicts included.
THEOREM ApplyLandsCorrect == Spec => ApplyLands
<1>1. Inv /\ [Next]_vars => [CountedLands]_vars
    BY StepLands
<1> QED
    BY <1>1, InvInductive, PTL DEF Spec, ApplyLands, CountedLands

\* In a system with other actors, whose steps leave the goroutines' locals
\* alone, every step keeps the books and what the four properties say.
ManagerActs ==
    UpdateKeepsOthers /\ RemoveTakesOwn /\ CountedLands /\ ReturnAccounts

LEMMA StepBesideOthers ==
    ASSUME StrongInv, [Next]_vars \/ UNCHANGED procVars
    PROVE  Tallies' /\ ManagerActs
<1>1. CASE [Next]_vars
    BY <1>1, NextTally, StepKeepsOthers, StepTakesOwn, StepLands, StepAccounts
    DEF StrongInv, Inv, ManagerActs
<1>2. CASE UNCHANGED procVars
  <2>1. Tallies'
    BY <1>2 DEF procVars, StrongInv, Tallies, Tally
  <2>2. \A p \in Procs : pc'[p] = pc[p] /\ done'[p] = done[p]
    BY <1>2 DEF procVars
  <2> QED
    BY <2>1, <2>2 DEF ManagerActs, UpdateKeepsOthers, RemoveTakesOwn, CountedLands,
        ReturnAccounts, Updates
<1> QED
    BY <1>1, <1>2

-----------------------------------------------------------------------------
(* The refinement.                                                         *)

\* The operation of the code is the effect that is promised.
LEMMA EffectIsOperation ==
    ASSUME NEW a \in Annotations, NEW c \in CallType
    PROVE  Promise!Effect(a, c) = Operation(a, c)
<1>1. Promise!Applied(a, c) = applied(a, c)
    BY DEF Promise!Applied, Promise!Named, applied, KeysOf
<1>2. Promise!Removed(a, c) = removed(a, c)
  <2>1. \A k \in Keys : (IF k \in Promise!Owned(a, c) THEN NoValue ELSE a.val[k])
                         = (IF k \in removable(a, c) THEN NoValue ELSE a.val[k])
    BY DEF Promise!Owned, Promise!Named, removable, KeysOf
  <2> QED
    BY <2>1 DEF Promise!Removed, Promise!Named, removed, KeysOf
<1> QED
    BY <1>1, <1>2 DEF Promise!Effect, Operation

LEMMA InitPromise == Init => Promise!Init
<1> SUFFICES ASSUME Init PROVE Promise!Init
    OBVIOUS
<1>1. [x \in Resources |-> store[x].ann] =
      [x \in Resources |->
         [val |-> [k \in Keys |-> NoValue], track |-> [r \in Rules |-> {}]]]
    BY DEF Init, StoreInit, Bare
<1>2. [p \in Procs |-> pc[p] # "idle"] = [p \in Procs |-> FALSE]
    BY DEF Init
<1>3. [p \in Procs |-> IF pc[p] \in {"match", "list"} THEN {} ELSE DOMAIN snap[p]] =
      [p \in Procs |-> {}]
    BY DEF Init, NoSnapshot
<1>4. /\ call = [p \in Procs |-> CHOOSE c \in Calls : TRUE]
      /\ done = [p \in Procs |-> {}]
      /\ failed = [p \in Procs |-> FALSE]
    BY Zenon DEF Init
<1> QED
    BY <1>1, <1>2, <1>3, <1>4, Zenon DEF Promise!Init

\* An accepted update changes the content of one object by the effect.
LEMMA AcceptedEffect ==
    ASSUME Inv, NEW p \in Procs, Accepted(p)
    PROVE  [x \in Resources |-> store'[x].ann] =
           [[x \in Resources |-> store[x].ann] EXCEPT
               ![cur[p]] = Promise!Effect(@, call[p])]
<1>1. /\ cur[p] \in Resources
      /\ store'[cur[p]].ann = Promise!Effect(store[cur[p]].ann, call[p])
      /\ \A y \in Resources \ {cur[p]} : store'[y] = store[y]
    BY AcceptedIsOperation, EffectIsOperation
<1> QED
    BY <1>1

LEMMA StepPromise == StrongInv /\ [Next]_vars => [Promise!Next]_(Promise!vars)
<1> SUFFICES ASSUME StrongInv, [Next]_vars
             PROVE  Promise!Next \/ UNCHANGED Promise!vars
    OBVIOUS
<1>0. TypeOK /\ Inv /\ Tallies
    BY DEF StrongInv, Inv
<1>1. ASSUME NEW p \in Procs, NEW c \in Calls, Call(p, c) PROVE Promise!Begin(p, c)
    BY <1>0, <1>1 DEF Call, storeVars, TypeOK, Tallies, Tally, Promise!Begin
<1>2. ASSUME NEW p \in Procs, MatchCached(p) \/ CacheResources(p)
      PROVE  \E S \in SUBSET Resources : Promise!Find(p, S)
  <2>1. PICK s : /\ Matched(p, s) /\ UNCHANGED <<store, call, done, failed>>
                 /\ pc[p] \in {"match", "list"} /\ IsSnapshot(s)
    BY <1>0, <1>2 DEF MatchCached, CacheResources, storeVars, TypeOK, StoreTypeOK
  <2>2. DOMAIN s \in SUBSET Resources
    BY <2>1 DEF IsSnapshot
  <2>3. Promise!Find(p, DOMAIN s)
    BY <1>0, <2>1 DEF Matched, NoSnapshot, TypeOK, Promise!Find
  <2> QED
    BY <2>2, <2>3
<1>3. ASSUME NEW p \in Procs,
             MatchMiss(p) \/ \E t \in Types : MatchList(p, t) \/ MatchListFails(p, t)
      PROVE  UNCHANGED Promise!vars
    BY <1>0, <1>3 DEF MatchMiss, MatchList, MatchListFails, storeVars, TypeOK, Promise!vars
<1>4. ASSUME NEW p \in Procs, NEW x \in Resources, ApplyNext(p, x)
      PROVE  UNCHANGED Promise!vars
    BY <1>0, <1>4 DEF ApplyNext, storeVars, TypeOK, Promise!vars
<1>5. ASSUME NEW p \in Procs, NEW x \in Resources, RemoveNext(p, x)
      PROVE  Promise!Pass(p, x) \/ UNCHANGED Promise!vars
    BY <1>0, <1>5
    DEF RemoveNext, storeVars, TypeOK, Tallies, Tally, Promise!Pass, Promise!vars
<1>6. ASSUME NEW p \in Procs, NEW x \in Resources, x = cur[p], UpdateOK(p)
      PROVE  Promise!Perform(p, x)
    BY <1>0, <1>6, AcceptedEffect
    DEF UpdateOK, Accepted, NextResource, TypeOK, Tallies, Tally, Promise!Perform
<1>7. ASSUME NEW p \in Procs, NEW x \in Resources, x = cur[p], UpdateUnanswered(p)
      PROVE  Promise!PerformUnseen(p, x)
    BY <1>0, <1>7, AcceptedEffect
    DEF UpdateUnanswered, Accepted, NextResource, TypeOK, Tallies, Tally,
        Promise!PerformUnseen
<1>8. ASSUME NEW p \in Procs, RetryConflict(p) PROVE UNCHANGED Promise!vars
    BY <1>8 DEF RetryConflict, storeVars, Promise!vars
<1>9. ASSUME NEW p \in Procs, UpdateFails(p) PROVE Promise!GiveUp(p)
    BY <1>0, <1>9
    DEF UpdateFails, NextResource, storeVars, TypeOK, Tallies, Tally, Promise!GiveUp
<1>10. ASSUME NEW p \in Procs, Finish(p) PROVE Promise!Return(p)
    BY <1>0, <1>10 DEF Finish, NoSnapshot, TypeOK, Tallies, Tally, Promise!Return
<1>11. ASSUME StoreEnv, UNCHANGED procVars PROVE Promise!Next \/ UNCHANGED Promise!vars
  <2>1. ASSUME NEW x \in Resources, NEW k \in Keys, NEW v \in Values \cup {NoValue},
               ExternalWrite(x, k, v)
        PROVE  Promise!Foreign(x, k, v)
    BY <1>0, <1>11, <2>1
    DEF ExternalWrite, Written, procVars, TypeOK, StoreTypeOK, Object, Annotations,
        Promise!Foreign
  <2>2. ASSUME UNCHANGED store PROVE UNCHANGED Promise!vars
    BY <1>11, <2>2 DEF procVars, Promise!vars
  <2> QED
    BY <1>11, <2>1, <2>2 DEF StoreEnv, SyncInformer, ExpireCache, Promise!Next
<1>12. CASE UNCHANGED vars
    BY <1>12 DEF vars, storeVars, procVars, Promise!vars
<1>13. ASSUME NEW p \in Procs, Step(p) PROVE Promise!Next \/ UNCHANGED Promise!vars
  <2>1. cur[p] \in Resources
    BY <1>0 DEF TypeOK
  <2>2. CASE \/ MatchCached(p) \/ CacheResources(p)
             \/ UpdateFails(p) \/ Finish(p)
    BY <1>2, <1>9, <1>10, <2>2, Zenon DEF Promise!Next
  <2>5. CASE UpdateOK(p) \/ UpdateUnanswered(p)
    BY <1>6, <1>7, <2>1, <2>5, Zenon DEF Promise!Next
  <2>3. CASE \/ MatchMiss(p) \/ \E t \in Types : MatchList(p, t) \/ MatchListFails(p, t)
             \/ RetryConflict(p)
    BY <1>3, <1>8, <2>3
  <2>4. CASE \E x \in Resources : ApplyNext(p, x) \/ RemoveNext(p, x)
    BY <1>4, <1>5, <2>4 DEF Promise!Next
  <2> QED
    BY <1>13, <2>2, <2>3, <2>4, <2>5 DEF Step
<1> QED
    BY <1>1, <1>11, <1>12, <1>13 DEF Next, Promise!Next

\* The manager implements the annotation store: whatever the interleaving of
\* reads, writes, conflicts and invalidations, callers see operations that
\* happen at one instant or not at all.
THEOREM PromiseKept == Spec => KeepsPromise
BY InitPromise, StepPromise, StrongInvInductive, PTL DEF Spec, KeepsPromise, Promise!Spec
=============================================================================
