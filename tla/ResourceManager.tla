--------------------------- MODULE ResourceManager ---------------------------
(***************************************************************************)
(* ApplyAnnotations and RemoveAnnotations of internal/resource/manager.go, *)
(* the path of rules with plain annotations: query, per-resource update    *)
(* with optimistic concurrency, cache invalidation.  Several goroutines    *)
(* call them at once (the scheduler's workers and the reconciler's         *)
(* cleanup), and other clients write to the same objects.                  *)
(*                                                                         *)
(* Every call to the API server is an action of its own; what the code     *)
(* does between two of them works on local copies.  A call that is refused *)
(* before its query (rate limiter, validation, no keys) touches nothing.   *)
(***************************************************************************)
EXTENDS ResourceStore

CONSTANTS
    Types,        \* resource types
    TypeOf,       \* the type of each workload
    Procs,        \* goroutines that call the manager
    Calls,        \* the calls they make
    MaxRetries    \* maxRetries of applyAnnotationsToResource (3 in the code)

\* "query" is a GetMatchingResources on its own, as the executor makes before
\* each apply or remove.  ann maps the rule's keys to their values.
CallType ==
    [op : {"query", "apply", "remove"}, rule : Rules,
     ann : [Keys -> Values \cup {NoValue}]]

ASSUME ManagerAssumption ==
    /\ Calls \subseteq CallType /\ Calls # {}
    /\ Resources # {}
    /\ TypeOf \in [Resources -> Types]
    /\ MaxRetries \in Nat \ {0}

VARIABLES
    pc,           \* "idle", "match", "list", "loop" or "update"
    call,         \* the current call
    snap,         \* the resources GetMatchingResources has found
    todo,         \* resources it has still to list, or the loop to visit
    cur,          \* the resource being updated
    copy,         \* resourceCopy
    attempt,      \* attempt
    done,         \* the resources counted in successCount
    failed        \* len(applyErrors) > 0 or len(removeErrors) > 0

procVars == <<pc, call, snap, todo, cur, copy, attempt, done, failed>>
vars == <<storeVars, procVars>>

PcStates == {"idle", "match", "list", "loop", "update"}

TypeOK ==
    /\ StoreTypeOK
    /\ pc \in [Procs -> PcStates]
    /\ call \in [Procs -> CallType]
    /\ DOMAIN snap = Procs /\ \A p \in Procs : IsSnapshot(snap[p])
    /\ todo \in [Procs -> SUBSET Resources]
    /\ cur \in [Procs -> Resources]
    /\ copy \in [Procs -> Object]
    /\ attempt \in [Procs -> 0..(MaxRetries - 1)]
    /\ done \in [Procs -> SUBSET Resources]
    /\ failed \in [Procs -> BOOLEAN]

\* Locals that are out of scope have these values.
NoSnapshot == [x \in {} |-> NoValue]
NoCopy == [ann |-> Bare, rv |-> 0]
NoResource == CHOOSE x \in Resources : TRUE

Init ==
    /\ StoreInit
    /\ pc = [p \in Procs |-> "idle"]
    /\ call = [p \in Procs |-> CHOOSE c \in Calls : TRUE]
    /\ snap = [p \in Procs |-> NoSnapshot]
    /\ todo = [p \in Procs |-> {}]
    /\ cur = [p \in Procs |-> NoResource]
    /\ copy = [p \in Procs |-> NoCopy]
    /\ attempt = [p \in Procs |-> 0]
    /\ done = [p \in Procs |-> {}]
    /\ failed = [p \in Procs |-> FALSE]

-----------------------------------------------------------------------------
(* The changes to the annotations of one object.                           *)

KeysOf(c) == {k \in Keys : c.ann[k] # NoValue}

\* applyAnnotationsToResource: every key is set, and the tracking annotation
\* is replaced by the keys of this call.
applied(a, c) ==
    [val   |-> [k \in Keys |-> IF k \in KeysOf(c) THEN c.ann[k] ELSE a.val[k]],
     track |-> [a.track EXCEPT ![c.rule] = KeysOf(c)]]

\* Mutant of removable: the tracking annotation is not consulted.
removable_any(a, c) == {k \in KeysOf(c) : a.val[k] # NoValue}

\* removeAnnotationsFromResource: the keys it deletes ...
removable(a, c) == {k \in KeysOf(c) \cap a.track[c.rule] : a.val[k] # NoValue}

\* ... and the object it writes if there are any.
removed(a, c) ==
    [val   |-> [k \in Keys |-> IF k \in removable(a, c) THEN NoValue ELSE a.val[k]],
     track |-> [a.track EXCEPT ![c.rule] = @ \ KeysOf(c)]]

-----------------------------------------------------------------------------
(* GetMatchingResources                                                    *)

Call(p, c) ==
    /\ pc[p] = "idle"
    /\ call' = [call EXCEPT ![p] = c]
    /\ pc' = [pc EXCEPT ![p] = "match"]
    /\ failed' = [failed EXCEPT ![p] = FALSE]
    /\ UNCHANGED <<storeVars, snap, todo, cur, copy, attempt, done>>

\* With the resources in hand: a query returns, a call without resources
\* returns success, the others enter the loop.
Matched(p, s) ==
    /\ snap' = [snap EXCEPT ![p] = IF call[p].op = "query" THEN NoSnapshot ELSE s]
    /\ todo' = [todo EXCEPT ![p] = IF call[p].op = "query" THEN {} ELSE DOMAIN s]
    /\ pc' = [pc EXCEPT ![p] = IF call[p].op = "query" \/ DOMAIN s = {}
                                 THEN "idle" ELSE "loop"]

MatchCached(p) ==
    /\ pc[p] = "match"
    /\ cache # NoEntry
    /\ Matched(p, cache)
    /\ UNCHANGED <<storeVars, call, cur, copy, attempt, done, failed>>

MatchMiss(p) ==
    /\ pc[p] = "match"
    /\ cache = NoEntry
    /\ todo' = [todo EXCEPT ![p] = Resources]
    /\ pc' = [pc EXCEPT ![p] = "list"]
    /\ UNCHANGED <<storeVars, call, snap, cur, copy, attempt, done, failed>>

OfType(t) == {x \in Resources : TypeOf[x] = t}

\* What a list of type t adds to the resources in s.
Listed(s, t) ==
    [x \in DOMAIN s \cup OfType(t) |-> IF x \in OfType(t) THEN Observed(x) ELSE s[x]]

\* getResourcesByType for one type after the other; one without matching
\* resources adds nothing and is passed over.
MatchList(p, t) ==
    /\ pc[p] = "list"
    /\ OfType(t) \cap todo[p] # {}
    /\ snap' = [snap EXCEPT ![p] = Listed(@, t)]
    /\ todo' = [todo EXCEPT ![p] = @ \ OfType(t)]
    /\ UNCHANGED <<storeVars, pc, call, cur, copy, attempt, done, failed>>

\* A resource type that cannot be listed is logged and left out.
MatchListFails(p, t) ==
    /\ pc[p] = "list"
    /\ OfType(t) \cap todo[p] # {}
    /\ todo' = [todo EXCEPT ![p] = @ \ OfType(t)]
    /\ UNCHANGED <<storeVars, pc, call, snap, cur, copy, attempt, done, failed>>

CacheResources(p) ==
    /\ pc[p] = "list" /\ todo[p] = {}
    /\ cache' = snap[p]
    /\ Matched(p, snap[p])
    /\ UNCHANGED <<store, informer, call, cur, copy, attempt, done, failed>>

-----------------------------------------------------------------------------
(* The loop over the resources.                                            *)

ApplyNext(p, x) ==
    /\ pc[p] = "loop" /\ call[p].op = "apply"
    /\ x \in todo[p]
    /\ cur' = [cur EXCEPT ![p] = x]
    /\ copy' = [copy EXCEPT ![p] = [ann |-> applied(snap[p][x].ann, call[p]),
                                    rv  |-> snap[p][x].rv]]
    /\ attempt' = [attempt EXCEPT ![p] = 0]
    /\ pc' = [pc EXCEPT ![p] = "update"]
    /\ UNCHANGED <<storeVars, call, snap, todo, done, failed>>

\* removeAnnotationsFromResource makes a single attempt, which is its last.
RemoveNext(p, x) ==
    /\ pc[p] = "loop" /\ call[p].op = "remove"
    /\ x \in todo[p]
    /\ IF removable(snap[p][x].ann, call[p]) # {}
         THEN /\ cur' = [cur EXCEPT ![p] = x]
              /\ copy' = [copy EXCEPT ![p] =
                            [ann |-> removed(snap[p][x].ann, call[p]),
                             rv  |-> snap[p][x].rv]]
              /\ attempt' = [attempt EXCEPT ![p] = MaxRetries - 1]
              /\ pc' = [pc EXCEPT ![p] = "update"]
              /\ UNCHANGED <<todo, done>>
         ELSE /\ todo' = [todo EXCEPT ![p] = @ \ {x}]
              /\ done' = [done EXCEPT ![p] = @ \cup {x}]
              /\ UNCHANGED <<pc, cur, copy, attempt>>
    /\ UNCHANGED <<storeVars, call, snap, failed>>

\* The loop goes on with the next resource.
NextResource(p) ==
    /\ todo' = [todo EXCEPT ![p] = @ \ {cur[p]}]
    /\ pc' = [pc EXCEPT ![p] = "loop"]
    /\ cur' = [cur EXCEPT ![p] = NoResource]
    /\ copy' = [copy EXCEPT ![p] = NoCopy]
    /\ attempt' = [attempt EXCEPT ![p] = 0]

\* Mutant of UpdateOK: the update ignores the resource version.
UpdateOK_force(p) ==
    /\ pc[p] = "update"
    /\ store' = Written(cur[p], copy[p].ann)
    /\ NextResource(p)
    /\ done' = [done EXCEPT ![p] = @ \cup {cur[p]}]
    /\ UNCHANGED <<informer, cache, call, snap, failed>>

\* The API server takes the update.
Accepted(p) ==
    /\ pc[p] = "update"
    /\ copy[p].rv = store[cur[p]].rv
    /\ store' = Written(cur[p], copy[p].ann)
    /\ NextResource(p)
    /\ UNCHANGED <<informer, cache, call, snap>>

UpdateOK(p) ==
    /\ Accepted(p)
    /\ done' = [done EXCEPT ![p] = @ \cup {cur[p]}]
    /\ UNCHANGED failed

\* The answer is lost, and the error it becomes is not retried.
UpdateUnanswered(p) ==
    /\ Accepted(p)
    /\ failed' = [failed EXCEPT ![p] = TRUE]
    /\ UNCHANGED done

\* Mutants of RetryConflict: the annotations are not reapplied to the fresh
\* copy; the attempts are not bounded.
RetryConflict_noreapply(p) ==
    /\ pc[p] = "update"
    /\ copy[p].rv # store[cur[p]].rv
    /\ attempt[p] < MaxRetries - 1
    /\ copy' = [copy EXCEPT ![p] = Observed(cur[p])]
    /\ attempt' = [attempt EXCEPT ![p] = @ + 1]
    /\ UNCHANGED <<storeVars, pc, call, snap, todo, cur, done, failed>>

RetryConflict_unbounded(p) ==
    /\ pc[p] = "update"
    /\ copy[p].rv # store[cur[p]].rv
    /\ LET fresh == Observed(cur[p])
       IN  copy' = [copy EXCEPT ![p] = [ann |-> applied(fresh.ann, call[p]),
                                        rv  |-> fresh.rv]]
    /\ attempt' = [attempt EXCEPT ![p] = @ + 1]
    /\ UNCHANGED <<storeVars, pc, call, snap, todo, cur, done, failed>>

\* A conflict before the last attempt: refetch and reapply.
RetryConflict(p) ==
    /\ pc[p] = "update"
    /\ copy[p].rv # store[cur[p]].rv
    /\ attempt[p] < MaxRetries - 1
    /\ LET fresh == Observed(cur[p])
       IN  copy' = [copy EXCEPT ![p] = [ann |-> applied(fresh.ann, call[p]),
                                        rv  |-> fresh.rv]]
    /\ attempt' = [attempt EXCEPT ![p] = @ + 1]
    /\ UNCHANGED <<storeVars, pc, call, snap, todo, cur, done, failed>>

\* Mutants of UpdateFails: the error is logged and not counted; the resource
\* stays on the list.
UpdateFails_unreported(p) ==
    /\ pc[p] = "update"
    /\ NextResource(p)
    /\ UNCHANGED <<storeVars, call, snap, done, failed>>

UpdateFails_again(p) ==
    /\ pc[p] = "update"
    /\ failed' = [failed EXCEPT ![p] = TRUE]
    /\ pc' = [pc EXCEPT ![p] = "loop"]
    /\ UNCHANGED <<storeVars, call, snap, todo, cur, copy, attempt, done>>

\* A conflict at the last attempt, or any other error of an Update or of the
\* refetching Get, ends the work on this resource.
UpdateFails(p) ==
    /\ pc[p] = "update"
    /\ failed' = [failed EXCEPT ![p] = TRUE]
    /\ NextResource(p)
    /\ UNCHANGED <<storeVars, call, snap, done>>

\* InvalidateCache for the namespace, then the return; failed is its result.
Finish(p) ==
    /\ pc[p] = "loop" /\ todo[p] = {}
    /\ cache' = NoEntry
    /\ pc' = [pc EXCEPT ![p] = "idle"]
    /\ snap' = [snap EXCEPT ![p] = NoSnapshot]
    /\ done' = [done EXCEPT ![p] = {}]
    /\ UNCHANGED <<store, informer, call, todo, cur, copy, attempt, failed>>

-----------------------------------------------------------------------------

Step(p) ==
    \/ MatchCached(p) \/ MatchMiss(p) \/ CacheResources(p)
    \/ \E t \in Types : MatchList(p, t) \/ MatchListFails(p, t)
    \/ \E x \in Resources : ApplyNext(p, x) \/ RemoveNext(p, x)
    \/ UpdateOK(p) \/ UpdateUnanswered(p) \/ RetryConflict(p) \/ UpdateFails(p)
    \/ Finish(p)

Next ==
    \/ \E p \in Procs : (\E c \in Calls : Call(p, c)) \/ Step(p)
    \/ StoreEnv /\ UNCHANGED procVars

Spec == Init /\ [][Next]_vars

\* A call that is running goes on: API requests return.
FairSpec == Spec /\ \A p \in Procs : WF_vars(Step(p))

-----------------------------------------------------------------------------
(* Properties.                                                             *)

\* A copy of x, wherever it was read, is older than the object or equal to it.
Coherent(o, x) ==
    /\ o.rv <= store[x].rv
    /\ o.rv = store[x].rv => o.ann = store[x].ann

\* Every copy of an object that the informer, the cache or a goroutine holds
\* is what the API server once had at that version.
VersionsCoherent ==
    /\ \A x \in Resources : Coherent(informer[x], x)
    /\ cache # NoEntry => \A x \in DOMAIN cache : Coherent(cache[x], x)
    /\ \A p \in Procs : \A x \in DOMAIN snap[p] : Coherent(snap[p][x], x)

\* What a goroutine is about to write at the current version is its call
\* applied to the object as it is now; an older one will be refused.
CopyIsCurrent ==
    \A p \in Procs :
       pc[p] = "update" =>
          /\ copy[p].rv <= store[cur[p]].rv
          /\ copy[p].rv = store[cur[p]].rv =>
                copy[p].ann = IF call[p].op = "apply"
                                THEN applied(store[cur[p]].ann, call[p])
                                ELSE removed(store[cur[p]].ann, call[p])

\* The steps in which an update of p changes object x.
Updates(p, x) ==
    pc[p] = "update" /\ cur[p] = x /\ pc'[p] = "loop" /\ store' # store

\* An update writes nothing but the keys of its own call and its own rule's
\* tracking annotation, whatever other goroutines and clients wrote since
\* the object was read ("while preserving existing annotations").
NoLostUpdate ==
    [][\A p \in Procs, x \in Resources :
          Updates(p, x) =>
             /\ \A y \in Resources \ {x} : store'[y] = store[y]
             /\ \A k \in Keys \ KeysOf(call[p]) :
                   store'[x].ann.val[k] = store[x].ann.val[k]
             /\ \A r \in Rules \ {call[p].rule} :
                   store'[x].ann.track[r] = store[x].ann.track[r]]_vars

\* A remove deletes only annotations that are tracked as the rule's own at
\* the moment of the write ("Only remove annotations that were applied by
\* this rule").
RemovesOnlyOwn ==
    [][\A p \in Procs, x \in Resources, k \in Keys :
          /\ Updates(p, x) /\ call[p].op = "remove"
          /\ store[x].ann.val[k] # NoValue /\ store'[x].ann.val[k] = NoValue
          => k \in store[x].ann.track[call[p].rule]]_vars

\* An apply counts a resource as a success only when the object now carries
\* every annotation of the call and tracks it, conflicts included.
ApplyLands ==
    [][\A p \in Procs, x \in Resources :
          x \in done'[p] \ done[p] /\ call[p].op = "apply" =>
             \A k \in KeysOf(call[p]) :
                /\ store'[x].ann.val[k] = call[p].ann[k]
                /\ k \in store'[x].ann.track[call[p].rule]]_vars

\* With the versions, copies and caches left out of sight, every behaviour is
\* one that AnnotationStore promises: each operation happens on each object at
\* one instant or not at all, and what did not happen is reported.
Promise == INSTANCE AnnotationStore WITH
    content <- [x \in Resources |-> store[x].ann],
    active  <- [p \in Procs |-> pc[p] # "idle"],
    targets <- [p \in Procs |-> IF pc[p] \in {"match", "list"}
                                   THEN {} ELSE DOMAIN snap[p]]

KeepsPromise == Promise!Spec

\* A call that returns without an error has dealt with every resource its
\* query returned: a failure on one of several is reported.
SuccessMeansAll ==
    [][\A p \in Procs :
          pc[p] = "loop" /\ pc'[p] = "idle" /\ ~failed[p] =>
             done[p] = DOMAIN snap[p]]_vars

\* After a step p's call has less left to do: it is over, or beyond the cache
\* or the query, or has fewer resources to list or to visit, or has reached
\* the update of the same one, or has an attempt less for it.
CloserToReturn(p) ==
    \/ pc'[p] = "idle"
    \/ pc[p] = "match" /\ pc'[p] # "match"
    \/ pc[p] = "list" /\ pc'[p] = "loop"
    \/ /\ pc[p] = "list" /\ pc'[p] = "list"
       /\ todo'[p] \subseteq todo[p] /\ todo'[p] # todo[p]
    \/ /\ pc[p] \in {"loop", "update"} /\ pc'[p] \in {"loop", "update"}
       /\ \/ todo'[p] \subseteq todo[p] /\ todo'[p] # todo[p]
          \/ todo'[p] = todo[p] /\ pc[p] = "loop" /\ pc'[p] = "update"
          \/ /\ todo'[p] = todo[p] /\ pc[p] = "update" /\ pc'[p] = "update"
             /\ attempt[p] < attempt'[p] /\ attempt'[p] < MaxRetries

\* Every call returns: conflicts are retried a bounded number of times.
CallsReturn == \A p \in Procs : pc[p] # "idle" ~> pc[p] = "idle"
=============================================================================
