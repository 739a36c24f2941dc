---------------------------- MODULE ResourceStore ----------------------------
(***************************************************************************)
(* The workloads the controller annotates, as the resource manager sees    *)
(* them: the objects in the API server with their resource versions, the   *)
(* informer's copies that the manager's client reads, and the manager's    *)
(* own ResourceCache (internal/resource/cache.go).                         *)
(*                                                                         *)
(* The API server and the informer are external: an update succeeds only   *)
(* with the current resource version and one that changes nothing keeps    *)
(* the version; the informer follows with an arbitrary delay.              *)
(*                                                                         *)
(* A rule's tracking annotation, scheduler.k8s.io/rule-<id>-annotations,   *)
(* holds the printed list of keys the rule has applied.  Valid annotation  *)
(* keys contain neither blanks nor brackets, so printing and splitting the *)
(* list keep exactly the set of keys; an empty list is never written, and  *)
(* the empty set stands for the absent annotation.                         *)
(***************************************************************************)
EXTENDS Integers, FiniteSets

CONSTANTS
    Resources,   \* workloads matching the selector of every rule
    Rules,       \* rule IDs
    Keys,        \* annotation keys other than tracking keys
    Values,      \* annotation values
    NoValue,     \* an annotation that is not set
    NoEntry,     \* no entry in the ResourceCache
    Lag,         \* TRUE if the informer may lag behind the API server
    MaxVersion   \* bound on the resource version other clients reach

ASSUME StoreAssumption ==
    /\ NoValue \notin Values
    /\ Lag \in BOOLEAN
    /\ MaxVersion \in Nat

Annotations ==
    [val : [Keys -> Values \cup {NoValue}], track : [Rules -> SUBSET Keys]]

Object == [ann : Annotations, rv : Nat]

\* The result of a list: the objects of the types that could be listed.
IsSnapshot(s) == DOMAIN s \subseteq Resources /\ s \in [DOMAIN s -> Object]

VARIABLES
    store,       \* the objects in the API server
    informer,    \* the informer's copies
    cache        \* the ResourceCache entry of the query

storeVars == <<store, informer, cache>>

StoreTypeOK ==
    /\ store \in [Resources -> Object]
    /\ informer \in [Resources -> Object]
    /\ cache = NoEntry \/ IsSnapshot(cache)

Bare == [val |-> [k \in Keys |-> NoValue], track |-> [r \in Rules |-> {}]]

StoreInit ==
    /\ store = [x \in Resources |-> [ann |-> Bare, rv |-> 0]]
    /\ informer = store
    /\ cache = NoEntry

-----------------------------------------------------------------------------

\* What a Get or a List of the manager's client returns for x.
Observed(x) == IF Lag THEN informer[x] ELSE store[x]

\* An update of x with content a that the API server accepts.
Written(x, a) ==
    [store EXCEPT ![x] = IF a = @.ann THEN @ ELSE [ann |-> a, rv |-> @.rv + 1]]

\* Another client sets or deletes one annotation.
ExternalWrite(x, k, v) ==
    /\ store[x].rv < MaxVersion
    /\ store[x].ann.val[k] # v
    /\ store' = Written(x, [store[x].ann EXCEPT !.val[k] = v])
    /\ UNCHANGED <<informer, cache>>

SyncInformer(x) ==
    /\ Lag
    /\ informer[x] # store[x]
    /\ informer' = [informer EXCEPT ![x] = store[x]]
    /\ UNCHANGED <<store, cache>>

\* The entry outlives its TTL: GetCachedResources no longer returns it and
\* InvalidateExpiredEntries deletes it.
ExpireCache ==
    /\ cache # NoEntry
    /\ cache' = NoEntry
    /\ UNCHANGED <<store, informer>>

StoreEnv ==
    \/ \E x \in Resources, k \in Keys, v \in Values \cup {NoValue} :
          ExternalWrite(x, k, v)
    \/ \E x \in Resources : SyncInformer(x)
    \/ ExpireCache
=============================================================================
