----------------------- MODULE AnnotationGroupsProofs -----------------------
(***************************************************************************)
(* Proofs about the annotation-group path beside the plain one, for any    *)
(* groups, goroutines, objects, rules and keys.  The argument is that of   *)
(* ResourceManagerProofs with a weaker statement about copies: what the    *)
(* operations, a refetch or a lost conflict leave in resourceCopy stays    *)
(* within the group's limits of the object at the copy's version.          *)
(***************************************************************************)
EXTENDS AnnotationGroups, ResourceManagerRefinement

-----------------------------------------------------------------------------
(* What a group may change.                                                *)

\* a is b with changes a group g of call c may make: to its own keys and its
\* own rule's tracking, which keeps what it had and gets what is set; under
\* "skip" values that are there stay.
Within(a, b, g, c) ==
    /\ \A k \in Keys \ GroupKeys(g) : a.val[k] = b.val[k]
    /\ \A r \in Rules \ {c.rule} : a.track[r] = b.track[r]
    /\ \A k \in Keys :
          k \in b.track[c.rule] \/ a.val[k] # b.val[k] =>
             k \in a.track[c.rule] \/ a.val[k] = NoValue
    /\ c.op = "apply" /\ c.conflictResolution = "skip" =>
          \A k \in Keys :
             /\ \A o \in g.operations : o.key = k => o.action = "apply"
             /\ b.val[k] # NoValue
             => a.val[k] = b.val[k]

LEMMA WithinReflexive ==
    ASSUME NEW a \in Annotations, NEW g, NEW c PROVE Within(a, a, g, c)
BY DEF Within

LEMMA OperatedType ==
    ASSUME NEW a \in Annotations, NEW o \in AnnotationOperation, NEW c \in GroupCallType
    PROVE  operated(a, o, c) \in Annotations
BY DEF operated, Annotations, AnnotationOperation, GroupCallType

\* An operation stays within the limits.
LEMMA OperatedWithin ==
    ASSUME NEW a \in Annotations, NEW b \in Annotations, NEW g \in AnnotationGroup,
           NEW c \in GroupCallType, Within(a, b, g, c), NEW o \in g.operations
    PROVE  Within(operated(a, o, c), b, g, c)
<1>1. /\ o.key \in Keys /\ o.key \in GroupKeys(g) /\ o.value \in Values /\ c.rule \in Rules
      /\ o.value # NoValue
    BY StoreAssumption DEF AnnotationGroup, AnnotationOperation, GroupKeys, GroupCallType
<1>2. CASE operated(a, o, c) = a
    BY <1>2
<1>3. CASE /\ o.action = "apply" /\ (a.val[o.key] \in {NoValue, o.value} \/ overrides(c))
           /\ operated(a, o, c) = [a EXCEPT !.val[o.key] = o.value,
                                            !.track[c.rule] = @ \cup {o.key}]
    BY <1>1, <1>3 DEF Within, Annotations, overrides
<1>4. CASE /\ o.action # "apply"
           /\ operated(a, o, c) = [a EXCEPT !.val[o.key] = NoValue,
                                            !.track[c.rule] = @ \ {o.key}]
    BY <1>1, <1>4 DEF Within, Annotations
<1> QED
    BY <1>2, <1>3, <1>4 DEF operated

\* So does the removal of a group.
LEMMA UngroupedWithin ==
    ASSUME NEW a \in Annotations, NEW g, NEW c \in GroupCallType, c.op = "remove"
    PROVE  /\ ungrouped(a, g, c.rule) \in Annotations
           /\ Within(ungrouped(a, g, c.rule), a, g, c)
<1>1. ungrouped(a, g, c.rule) \in Annotations
    BY DEF ungrouped, ungroupable, Annotations, GroupCallType
<1>2. Within(ungrouped(a, g, c.rule), a, g, c)
    BY DEF ungrouped, ungroupable, Within, Annotations, GroupCallType
<1> QED
    BY <1>1, <1>2

-----------------------------------------------------------------------------
(* The invariant of one goroutine's locals w over the objects s.           *)

Snapshots == UNION {[S -> Object] : S \in SUBSET Resources}

Locals ==
    [pc : {"idle", "match", "list", "group", "operation", "update"},
     call : GroupCalls, snap : Snapshots, num : Nat \ {0}, todo : SUBSET Resources,
     cur : Resources, ops : SUBSET AnnotationOperation, hasErrors : BOOLEAN,
     copy : Object, attempt : 0..(MaxRetries - 1),
     done : SUBSET (Nat \X Resources), failed : SUBSET Nat]

GroupOf(w) == w.call.groups[w.num]

InLoop(w) == w.pc \in {"group", "operation", "update"}

\* An atomic group that has failed has nothing left to visit.
Stopped(w) ==
    w.call.op = "apply" /\ GroupOf(w).atomic /\ w.num \in w.failed =>
       w.pc = "group" /\ w.todo = {}

\* Without a failure everything visited is counted.
CountedAll(w) ==
    InLoop(w) =>
       /\ w.done \subseteq (1..w.num) \X DOMAIN w.snap
       /\ w.failed = {} =>
             \A i \in 1..w.num, x \in DOMAIN w.snap :
                i < w.num \/ x \notin w.todo => <<i, x>> \in w.done

LocalsOK(w) ==
    /\ w \in Locals
    /\ w.num <= Len(w.call.groups)
    /\ w.ops \subseteq GroupOf(w).operations
    /\ w.pc = "idle" => w = Idle
    /\ w.pc \in {"match", "list"} => w.num = 1 /\ w.done = {} /\ w.failed = {} /\ w.ops = {}
    /\ w.pc = "group" => w.ops = {}
    /\ InLoop(w) => w.todo \subseteq DOMAIN w.snap
    /\ w.pc \in {"operation", "update"} => w.cur \in w.todo
    /\ w.failed \subseteq 1..w.num
    /\ Stopped(w)
    /\ CountedAll(w)

Agrees(o, t) == o.rv <= t.rv /\ (o.rv = t.rv => o.ann = t.ann)

SnapOK(w, s) == \A x \in DOMAIN w.snap : Agrees(w.snap[x], s[x])

\* A copy that the API server would take is within the group's limits.
GroupCopyOK(w, s) ==
    w.pc \in {"operation", "update"} =>
       /\ w.copy.rv <= s[w.cur].rv
       /\ w.copy.rv = s[w.cur].rv => Within(w.copy.ann, s[w.cur].ann, GroupOf(w), w.call)

WorkOK(w, s) == LocalsOK(w) /\ SnapOK(w, s) /\ GroupCopyOK(w, s)

WorkInv ==
    /\ DOMAIN work = GroupProcs
    /\ \A p \in GroupProcs : WorkOK(work[p], store)

GroupInv == Inv /\ WorkInv

\* Calls and their groups.
LEMMA CallFacts ==
    ASSUME NEW c \in GroupCalls
    PROVE  /\ c \in GroupCallType /\ c.rule \in Rules /\ c.op \in {"apply", "remove"}
           /\ Len(c.groups) \in Nat \ {0}
           /\ \A i \in 1..Len(c.groups) : c.groups[i] \in AnnotationGroup
<1>1. c \in GroupCallType /\ c.groups \in Seq(AnnotationGroup) /\ c.groups # << >>
    BY GroupAssumption DEF GroupCallType
<1>2. Len(c.groups) \in Nat \ {0}
    BY <1>1
<1>3. \A i \in 1..Len(c.groups) : c.groups[i] \in AnnotationGroup
    BY <1>1
<1> QED
    BY <1>1, <1>2, <1>3 DEF GroupCallType

LEMMA GroupFacts ==
    ASSUME NEW w, LocalsOK(w)
    PROVE  /\ GroupOf(w) \in AnnotationGroup /\ w.call \in GroupCallType
           /\ w.num \in 1..Len(w.call.groups) /\ Len(w.call.groups) \in Nat
           /\ GroupOf(w).operations \subseteq AnnotationOperation
<1>1. w.call \in GroupCalls /\ w.num \in Nat \ {0} /\ w.num <= Len(w.call.groups)
    BY DEF LocalsOK, Locals
<1>2. w.call \in GroupCallType /\ Len(w.call.groups) \in Nat
    BY <1>1, CallFacts
<1>3. w.num \in 1..Len(w.call.groups)
    BY <1>1, <1>2
<1>4. GroupOf(w) \in AnnotationGroup
    BY <1>1, <1>3, CallFacts DEF GroupOf
<1> QED
    BY <1>2, <1>3, <1>4 DEF AnnotationGroup

LEMMA IdleOK ==
    /\ LocalsOK(Idle) /\ Idle.pc = "idle" /\ Idle.snap = NoSnapshot
    /\ Idle.call \in GroupCalls
<1> DEFINE c == CHOOSE x \in GroupCalls : TRUE
<1>1. c \in GroupCalls
    BY GroupAssumption
<1>2. NoSnapshot \in Snapshots
  <2>1. NoSnapshot \in [{} -> Object]
    BY DEF NoSnapshot
  <2> QED
    BY <2>1 DEF Snapshots
<1>3. Len(c.groups) \in Nat \ {0}
    BY <1>1, CallFacts
<1>4. Idle = [pc |-> "idle", call |-> c, snap |-> NoSnapshot,
              num |-> 1, todo |-> {}, cur |-> NoResource, ops |-> {}, hasErrors |-> FALSE,
              copy |-> NoCopy, attempt |-> 0, done |-> {}, failed |-> {}]
    BY DEF Idle
<1> HIDE DEF c
<1>5. Idle \in Locals
    BY <1>1, <1>2, <1>4, ScopeType DEF Locals
<1>6. 1 <= Len(c.groups)
    BY <1>3
<1> QED
    BY <1>1, <1>4, <1>5, <1>6 DEF LocalsOK, InLoop, Stopped, CountedAll

LEMMA InitWork == GroupInit => WorkInv
<1> SUFFICES ASSUME GroupInit PROVE WorkInv
    OBVIOUS
<1>1. ASSUME NEW p \in GroupProcs PROVE WorkOK(work[p], store)
  <2>1. work[p] = Idle
    BY DEF GroupInit
  <2>2. DOMAIN work[p].snap = {} /\ work[p].pc = "idle"
    BY <2>1, IdleOK DEF NoSnapshot
  <2> QED
    BY <2>1, <2>2, IdleOK DEF WorkOK, SnapOK, GroupCopyOK
<1> QED
    BY <1>1 DEF GroupInit, WorkInv

-----------------------------------------------------------------------------
(* Objects move on under the copies.                                       *)

LEMMA AgreesKept ==
    ASSUME NEW o \in Object, NEW t \in Object, NEW t1 \in Object,
           t1 = t \/ t1.rv = t.rv + 1, Agrees(o, t)
    PROVE  Agrees(o, t1)
BY DEF Agrees, Object

LEMMA SnapType ==
    ASSUME NEW w \in Locals
    PROVE  /\ DOMAIN w.snap \subseteq Resources
           /\ \A x \in DOMAIN w.snap : w.snap[x] \in Object
           /\ IsSnapshot(w.snap)
<1>1. PICK S \in SUBSET Resources : w.snap \in [S -> Object]
    BY DEF Locals, Snapshots
<1> QED
    BY <1>1 DEF IsSnapshot

\* If the objects keep or raise their versions, locals that are as they were
\* are as good as they were.
LEMMA WorkKept ==
    ASSUME NEW w, StoreTypeOK, StoreTypeOK', \A x \in Resources : VersionStep(x),
           WorkOK(w, store)
    PROVE  WorkOK(w, store')
<1>1. w \in Locals
    BY DEF WorkOK, LocalsOK
<1>2. \A x \in Resources : /\ store[x] \in Object /\ store'[x] \in Object
                           /\ store'[x] = store[x] \/ store'[x].rv = store[x].rv + 1
    BY DEF StoreTypeOK, VersionStep
<1>3. SnapOK(w, store')
    BY <1>1, <1>2, SnapType, AgreesKept DEF WorkOK, SnapOK
<1>4. GroupCopyOK(w, store')
  <2>1. w.cur \in Resources /\ w.copy \in Object
    BY <1>1 DEF Locals
  <2> QED
    BY <1>2, <2>1 DEF WorkOK, GroupCopyOK, Object
<1> QED
    BY <1>3, <1>4 DEF WorkOK

\* What the steps of p have in common.
LEMMA OwnStep ==
    ASSUME WorkInv, NEW p \in GroupProcs, NEW v, work' = [work EXCEPT ![p] = v],
           StoreTypeOK, StoreTypeOK', \A x \in Resources : VersionStep(x), WorkOK(v, store')
    PROVE  WorkInv'
<1>1. DOMAIN work' = GroupProcs /\ work'[p] = v /\ \A q \in GroupProcs \ {p} : work'[q] = work[q]
    BY DEF WorkInv
<1>2. \A q \in GroupProcs \ {p} : WorkOK(work[q], store')
    BY WorkKept DEF WorkInv
<1> QED
    BY <1>1, <1>2 DEF WorkInv

\* A resource or its failure ends the visit.
LEMMA VisitedOK ==
    ASSUME NEW w, LocalsOK(w), InLoop(w), w.cur \in w.todo,
           NEW v,
           \/ v = Counted(w) \/ v = Failed(w, TRUE)
           \/ v = Failed(w, FALSE) /\ ~(GroupOf(w).atomic /\ w.call.op = "apply")
    PROVE  LocalsOK(v) /\ v.snap = w.snap /\ v.pc = "group"
<1>1. /\ w \in Locals /\ w.cur \in w.todo /\ w.todo \subseteq DOMAIN w.snap
      /\ w.done \subseteq (1..w.num) \X DOMAIN w.snap /\ w.num \in Nat \ {0}
      /\ w.failed \subseteq 1..w.num /\ w.num <= Len(w.call.groups)
    BY DEF LocalsOK, InLoop, CountedAll, Locals
<1>2. w.num \notin w.failed \/ ~(w.call.op = "apply" /\ GroupOf(w).atomic)
    BY DEF LocalsOK, Stopped
<1>3. w.failed = {} => \A i \in 1..w.num, x \in DOMAIN w.snap :
                          i < w.num \/ x \notin w.todo => <<i, x>> \in w.done
    BY DEF LocalsOK, InLoop, CountedAll
<1> DEFINE u == Visited(w)
<1>4. /\ u \in Locals
      /\ u.pc = "group" /\ u.call = w.call /\ u.snap = w.snap /\ u.num = w.num
      /\ u.todo = w.todo \ {w.cur} /\ u.ops = {} /\ u.done = w.done /\ u.failed = w.failed
    BY <1>1, ScopeType DEF Visited, Locals
<1> HIDE DEF u
<1>5. CASE v = Counted(w)
  <2>1. v = [u EXCEPT !.done = w.done \cup {<<w.num, w.cur>>}]
    BY <1>4, <1>5 DEF Counted, u
  <2>2. <<w.num, w.cur>> \in (1..w.num) \X DOMAIN w.snap /\ <<w.num, w.cur>> \in Nat \X Resources
    BY <1>1, SnapType
  <2>3. /\ v \in Locals
        /\ v.pc = "group" /\ v.call = w.call /\ v.snap = w.snap /\ v.num = w.num
        /\ v.todo = w.todo \ {w.cur} /\ v.ops = {}
        /\ v.done = w.done \cup {<<w.num, w.cur>>} /\ v.failed = w.failed
    BY <1>4, <2>1, <2>2 DEF Locals
  <2>4. CountedAll(v)
    BY <1>1, <1>3, <2>2, <2>3 DEF CountedAll
  <2>5. Stopped(v)
    BY <1>2, <2>3 DEF Stopped, GroupOf
  <2> QED
    BY <1>1, <2>3, <2>4, <2>5 DEF LocalsOK, InLoop
<1>6. ASSUME NEW stop \in BOOLEAN, v = Failed(w, stop),
             GroupOf(w).atomic /\ w.call.op = "apply" => stop
      PROVE  LocalsOK(v) /\ v.snap = w.snap /\ v.pc = "group"
  <2>1. v = [u EXCEPT !.failed = w.failed \cup {w.num}, !.todo = IF stop THEN {} ELSE u.todo]
    BY <1>4, <1>6 DEF Failed, u
  <2>2. /\ v \in Locals
        /\ v.pc = "group" /\ v.call = w.call /\ v.snap = w.snap /\ v.num = w.num
        /\ v.todo \subseteq w.todo /\ v.ops = {} /\ (stop => v.todo = {})
        /\ v.done = w.done /\ v.failed = w.failed \cup {w.num}
    BY <1>1, <1>4, <2>1 DEF Locals
  <2>3. CountedAll(v)
    BY <1>1, <2>2 DEF CountedAll
  <2>4. Stopped(v)
    BY <1>6, <2>2 DEF Stopped, GroupOf
  <2>5. v.failed \subseteq 1..v.num
    BY <1>1, <2>2
  <2> QED
    BY <1>1, <2>2, <2>3, <2>4, <2>5 DEF LocalsOK, InLoop
<1>7. CASE v = Failed(w, TRUE)
    BY <1>6, <1>7
<1>8. CASE v = Failed(w, FALSE) /\ ~(GroupOf(w).atomic /\ w.call.op = "apply")
    BY <1>6, <1>8
<1> QED
    BY <1>5, <1>7, <1>8

-----------------------------------------------------------------------------
(* The steps of a goroutine for groups.                                    *)

\* A step that touches no object needs only its own locals to be right.
LEMMA QuietStep ==
    ASSUME WorkInv, TypeOK, NEW p \in GroupProcs, NEW v, work' = [work EXCEPT ![p] = v],
           store' = store, LocalsOK(v), SnapOK(v, store), GroupCopyOK(v, store)
    PROVE  WorkInv'
<1>1. WorkOK(v, store')
    BY DEF WorkOK
<1>2. \A q \in GroupProcs : WorkOK(work[q], store')
    BY DEF WorkInv
<1>3. DOMAIN work' = GroupProcs /\ work'[p] = v /\ \A q \in GroupProcs \ {p} : work'[q] = work[q]
    BY DEF WorkInv
<1> QED
    BY <1>1, <1>2, <1>3 DEF WorkInv

LEMMA GroupCallKeeps ==
    ASSUME WorkInv, TypeOK, NEW p \in GroupProcs, NEW c \in GroupCalls, GroupCall(p, c)
    PROVE  WorkInv'
<1> DEFINE v == [Idle EXCEPT !.pc = "match", !.call = c]
<1>1. work[p] = Idle /\ WorkOK(Idle, store)
    BY DEF GroupCall, At, WorkInv, WorkOK, LocalsOK
<1>2. work' = [work EXCEPT ![p] = v] /\ store' = store
    BY <1>1 DEF GroupCall, storeVars
<1>3. /\ v \in Locals /\ v.pc = "match" /\ v.call = c /\ v.snap = Idle.snap /\ v.num = 1
      /\ v.ops = {} /\ v.done = {} /\ v.failed = {}
    BY <1>1, IdleOK DEF Idle, LocalsOK, Locals, WorkOK
<1> HIDE DEF v
<1>4. LocalsOK(v)
    BY <1>3, CallFacts DEF LocalsOK, InLoop, Stopped, CountedAll
<1>5. SnapOK(v, store) /\ GroupCopyOK(v, store)
    BY <1>1, <1>3 DEF WorkOK, SnapOK, GroupCopyOK
<1> QED
    BY <1>2, <1>4, <1>5, QuietStep

LEMMA MatchedKeeps ==
    ASSUME WorkInv, TypeOK, NEW p \in GroupProcs, work[p].pc \in {"match", "list"},
           NEW s, IsSnapshot(s), s \in Snapshots, \A x \in DOMAIN s : Agrees(s[x], store[x]),
           GroupMatched(p, s), store' = store
    PROVE  WorkInv'
<1> DEFINE w == work[p]
<1>1. LocalsOK(w) /\ w \in Locals
    BY DEF WorkInv, WorkOK, LocalsOK
<1>2. CASE DOMAIN s = {}
  <2>1. work' = [work EXCEPT ![p] = Idle]
    BY <1>2 DEF GroupMatched
  <2>2. SnapOK(Idle, store) /\ GroupCopyOK(Idle, store)
    BY IdleOK DEF SnapOK, GroupCopyOK, NoSnapshot
  <2> QED
    BY <2>1, <2>2, IdleOK, QuietStep
<1>3. CASE DOMAIN s # {}
  <2> DEFINE v == [w EXCEPT !.snap = s, !.todo = DOMAIN s, !.pc = "group"]
  <2>1. work' = [work EXCEPT ![p] = v]
    BY <1>3 DEF GroupMatched
  <2>2. /\ v \in Locals /\ v.pc = "group" /\ v.call = w.call /\ v.snap = s /\ v.num = w.num
        /\ v.todo = DOMAIN s /\ v.ops = w.ops /\ v.done = w.done /\ v.failed = w.failed
    BY <1>1 DEF IsSnapshot, Locals
  <2>3. w.num = 1 /\ w.done = {} /\ w.failed = {} /\ w.ops = {} /\ w.num <= Len(w.call.groups)
    BY <1>1 DEF LocalsOK
  <2> HIDE DEF v, w
  <2>4. LocalsOK(v)
    BY <2>2, <2>3 DEF LocalsOK, InLoop, Stopped, CountedAll
  <2>5. SnapOK(v, store) /\ GroupCopyOK(v, store)
    BY <2>2 DEF SnapOK, GroupCopyOK
  <2> QED
    BY <2>1, <2>4, <2>5, QuietStep
<1> QED
    BY <1>2, <1>3

\* What the cache holds can be taken for a query's result.
LEMMA CacheFacts ==
    ASSUME TypeOK, VersionsCoherent, cache # NoEntry
    PROVE  IsSnapshot(cache) /\ \A x \in DOMAIN cache : Agrees(cache[x], store[x])
BY DEF TypeOK, StoreTypeOK, VersionsCoherent, Coherent, Agrees

\* A query may go on with any result so far that agrees with the objects.
LEMMA QueryGoesOn ==
    ASSUME WorkInv, TypeOK, NEW p \in GroupProcs, work[p].pc \in {"match", "list"},
           NEW s \in Snapshots, \A x \in DOMAIN s : Agrees(s[x], store[x]),
           NEW rest \in SUBSET Resources,
           work' = [work EXCEPT ![p] =
                      [work[p] EXCEPT !.pc = "list", !.snap = s, !.todo = rest]],
           store' = store
    PROVE  WorkInv'
<1> DEFINE w == work[p]
           v == [w EXCEPT !.pc = "list", !.snap = s, !.todo = rest]
<1>1. LocalsOK(w) /\ w \in Locals
    BY DEF WorkInv, WorkOK, LocalsOK
<1>2. /\ v \in Locals /\ v.pc = "list" /\ v.call = w.call /\ v.snap = s /\ v.num = w.num
      /\ v.ops = w.ops /\ v.done = w.done /\ v.failed = w.failed
    BY <1>1 DEF Locals
<1>3. w.num = 1 /\ w.done = {} /\ w.failed = {} /\ w.ops = {} /\ w.num <= Len(w.call.groups)
    BY <1>1 DEF LocalsOK
<1>4. work' = [work EXCEPT ![p] = v] /\ store' = store
    OBVIOUS
<1> HIDE DEF v, w
<1>5. LocalsOK(v)
    BY <1>2, <1>3 DEF LocalsOK, InLoop, Stopped, CountedAll
<1>6. SnapOK(v, store) /\ GroupCopyOK(v, store)
    BY <1>2 DEF SnapOK, GroupCopyOK
<1> QED
    BY <1>4, <1>5, <1>6, QuietStep

LEMMA ListKeeps ==
    ASSUME WorkInv, TypeOK, VersionsCoherent, NEW p \in GroupProcs,
           \/ GroupMatchMiss(p)
           \/ \E t \in Types : GroupMatchList(p, t) \/ GroupMatchListFails(p, t)
    PROVE  WorkInv'
<1> DEFINE w == work[p]
<1>1. /\ w \in Locals /\ w.snap \in Snapshots /\ IsSnapshot(w.snap)
      /\ \A x \in DOMAIN w.snap : Agrees(w.snap[x], store[x])
    BY SnapType DEF WorkInv, WorkOK, LocalsOK, Locals, SnapOK
<1>2. CASE GroupMatchMiss(p)
  <2>1. /\ w.pc = "match" /\ store' = store
        /\ [w EXCEPT !.pc = "list", !.todo = Resources]
             = [w EXCEPT !.pc = "list", !.snap = w.snap, !.todo = Resources]
    BY <1>1, <1>2 DEF GroupMatchMiss, At, storeVars, Locals
  <2>2. work' = [work EXCEPT ![p] =
                   [w EXCEPT !.pc = "list", !.snap = w.snap, !.todo = Resources]]
    BY <1>2, <2>1 DEF GroupMatchMiss
  <2> QED
    BY <1>1, <2>1, <2>2, QueryGoesOn
<1>3. ASSUME NEW t \in Types, GroupMatchList(p, t) PROVE WorkInv'
  <2> DEFINE s == Listed(w.snap, t)
             rest == w.todo \ OfType(t)
  <2>1. /\ IsSnapshot(s)
        /\ \A x \in DOMAIN s : x \in Resources /\ Agrees(s[x], store[x])
    <3>1. \A x \in Resources : Agrees(Observed(x), store[x])
      BY ObservedCoherent DEF Coherent, Agrees
    <3> HIDE DEF w
    <3> QED
      BY <1>1, <3>1, ListedType DEF TypeOK, IsSnapshot
  <2>2. s \in Snapshots
    BY <2>1 DEF IsSnapshot, Snapshots
  <2>3. rest \in SUBSET Resources
    BY <1>1 DEF Locals
  <2>4. w.pc = "list" /\ store' = store
    BY <1>3 DEF GroupMatchList, At, storeVars
  <2> HIDE DEF s, rest
  <2>5. [w EXCEPT !.snap = s, !.todo = rest]
          = [w EXCEPT !.pc = "list", !.snap = s, !.todo = rest]
    BY <1>1, <2>4 DEF Locals
  <2>6. work' = [work EXCEPT ![p] = [w EXCEPT !.pc = "list", !.snap = s, !.todo = rest]]
    BY <1>3, <2>5 DEF GroupMatchList, s, rest
  <2> QED
    BY <2>1, <2>2, <2>3, <2>4, <2>6, QueryGoesOn
<1>4. ASSUME NEW t \in Types, GroupMatchListFails(p, t) PROVE WorkInv'
  <2> DEFINE rest == w.todo \ OfType(t)
  <2>1. rest \in SUBSET Resources
    BY <1>1 DEF Locals
  <2>2. w.pc = "list" /\ store' = store
    BY <1>4 DEF GroupMatchListFails, At, storeVars
  <2> HIDE DEF rest
  <2>3. [w EXCEPT !.todo = rest]
          = [w EXCEPT !.pc = "list", !.snap = w.snap, !.todo = rest]
    BY <1>1, <2>2 DEF Locals
  <2>4. work' = [work EXCEPT ![p] =
                   [w EXCEPT !.pc = "list", !.snap = w.snap, !.todo = rest]]
    BY <1>4, <2>3 DEF GroupMatchListFails, rest
  <2> QED
    BY <1>1, <2>1, <2>2, <2>4, QueryGoesOn
<1> QED
    BY <1>2, <1>3, <1>4

LEMMA MatchKeeps ==
    ASSUME WorkInv, TypeOK, VersionsCoherent, NEW p \in GroupProcs,
           GroupMatchCached(p) \/ GroupCacheResources(p)
    PROVE  WorkInv'
<1>1. CASE GroupMatchCached(p)
  <2>1. cache # NoEntry /\ GroupMatched(p, cache) /\ store' = store /\ work[p].pc = "match"
    BY <1>1 DEF GroupMatchCached, storeVars, At
  <2>2. cache \in Snapshots
    <3>1. cache \in [DOMAIN cache -> Object] /\ DOMAIN cache \in SUBSET Resources
      BY <2>1, CacheFacts DEF IsSnapshot
    <3> QED
      BY <3>1 DEF Snapshots
  <2> QED
    BY <2>1, <2>2, CacheFacts, MatchedKeeps
<1>2. CASE GroupCacheResources(p)
  <2>1. /\ GroupMatched(p, work[p].snap) /\ store' = store /\ work[p].pc = "list"
    BY <1>2 DEF GroupCacheResources, At
  <2>2. /\ work[p].snap \in Snapshots /\ IsSnapshot(work[p].snap)
        /\ \A x \in DOMAIN work[p].snap : Agrees(work[p].snap[x], store[x])
    BY SnapType DEF WorkInv, WorkOK, LocalsOK, Locals, SnapOK
  <2> QED
    BY <2>1, <2>2, MatchedKeeps
<1> QED
    BY <1>1, <1>2

LEMMA ApplyToKeeps ==
    ASSUME WorkInv, TypeOK, NEW p \in GroupProcs, NEW x \in Resources, ApplyToResource(p, x)
    PROVE  WorkInv'
<1> DEFINE w == work[p]
           v == [w EXCEPT !.pc = "operation", !.cur = x, !.copy = w.snap[x],
                          !.ops = Group(p).operations, !.hasErrors = FALSE, !.attempt = 0]
<1>1. LocalsOK(w) /\ w \in Locals /\ w.pc = "group" /\ x \in w.todo /\ SnapOK(w, store)
    BY DEF WorkInv, WorkOK, LocalsOK, ApplyToResource, At
<1>2. x \in DOMAIN w.snap /\ w.snap[x] \in Object
    BY <1>1, SnapType DEF LocalsOK, InLoop
<1>3. work' = [work EXCEPT ![p] = v] /\ store' = store
    BY DEF ApplyToResource, storeVars
<1>4. GroupOf(w) \in AnnotationGroup /\ Group(p) = GroupOf(w)
      /\ GroupOf(w).operations \subseteq AnnotationOperation
    BY <1>1, GroupFacts DEF GroupOf, Group
<1>5. /\ v \in Locals /\ v.pc = "operation" /\ v.call = w.call /\ v.snap = w.snap
      /\ v.num = w.num /\ v.todo = w.todo /\ v.cur = x /\ v.ops = GroupOf(w).operations
      /\ v.copy = w.snap[x] /\ v.done = w.done /\ v.failed = w.failed
    BY <1>1, <1>2, <1>4, ScopeType DEF Locals
<1>6. GroupOf(v) = GroupOf(w) /\ ~(w.call.op = "apply" /\ GroupOf(w).atomic /\ w.num \in w.failed)
    BY <1>1, <1>5 DEF GroupOf, LocalsOK, Stopped
<1> HIDE DEF v, w
<1>7. LocalsOK(v)
    BY <1>1, <1>5, <1>6 DEF LocalsOK, InLoop, Stopped, CountedAll
<1>8. SnapOK(v, store)
    BY <1>1, <1>5 DEF SnapOK
<1>9. GroupCopyOK(v, store)
  <2>1. Agrees(w.snap[x], store[x]) /\ store[x].ann \in Annotations
    BY <1>1, <1>2 DEF SnapOK, TypeOK, StoreTypeOK, Object
  <2>2. Within(store[x].ann, store[x].ann, GroupOf(w), w.call)
    BY <2>1, WithinReflexive
  <2> QED
    BY <1>5, <1>6, <2>1, <2>2 DEF GroupCopyOK, Agrees
<1> QED
    BY <1>3, <1>7, <1>8, <1>9, QuietStep

LEMMA ApplyOperationKeeps ==
    ASSUME WorkInv, TypeOK, NEW p \in GroupProcs, NEW o \in work[p].ops, ApplyOperation(p, o)
    PROVE  WorkInv'
<1> DEFINE w == work[p]
           v == [w EXCEPT !.copy.ann = operated(@, o, w.call), !.ops = @ \ {o}]
<1>1. /\ LocalsOK(w) /\ w \in Locals /\ w.pc = "operation" /\ SnapOK(w, store)
      /\ GroupCopyOK(w, store) /\ o \in w.ops
    BY DEF WorkInv, WorkOK, LocalsOK, ApplyOperation, At
<1>2. work' = [work EXCEPT ![p] = v] /\ store' = store
    BY DEF ApplyOperation, storeVars
<1>3. /\ GroupOf(w) \in AnnotationGroup /\ w.call \in GroupCallType
      /\ o \in GroupOf(w).operations /\ o \in AnnotationOperation
      /\ w.copy \in Object /\ w.copy.ann \in Annotations
      /\ store[w.cur].ann \in Annotations
    BY <1>1, GroupFacts DEF LocalsOK, Locals, Object, TypeOK, StoreTypeOK
<1>4. operated(w.copy.ann, o, w.call) \in Annotations
    BY <1>3, OperatedType
<1>5. /\ v \in Locals /\ v.pc = "operation" /\ v.call = w.call /\ v.snap = w.snap
      /\ v.num = w.num /\ v.todo = w.todo /\ v.cur = w.cur /\ v.ops = w.ops \ {o}
      /\ v.copy.ann = operated(w.copy.ann, o, w.call) /\ v.copy.rv = w.copy.rv
      /\ v.done = w.done /\ v.failed = w.failed
    BY <1>1, <1>3, <1>4 DEF Locals, Object
<1>6. GroupOf(v) = GroupOf(w)
    BY <1>5 DEF GroupOf
<1> HIDE DEF v, w
<1>7. LocalsOK(v)
    BY <1>1, <1>5, <1>6 DEF LocalsOK, InLoop, Stopped, CountedAll
<1>8. SnapOK(v, store)
    BY <1>1, <1>5 DEF SnapOK
<1>9. GroupCopyOK(v, store)
    BY <1>1, <1>3, <1>5, <1>6, OperatedWithin DEF GroupCopyOK
<1> QED
    BY <1>2, <1>7, <1>8, <1>9, QuietStep

LEMMA OperationFailsKeeps ==
    ASSUME WorkInv, TypeOK, NEW p \in GroupProcs, NEW o \in work[p].ops, OperationFails(p, o)
    PROVE  WorkInv'
<1> DEFINE w == work[p]
           v == [w EXCEPT !.hasErrors = TRUE, !.ops = @ \ {o}]
<1>1. /\ LocalsOK(w) /\ w \in Locals /\ w.pc = "operation" /\ SnapOK(w, store)
      /\ GroupCopyOK(w, store)
    BY DEF WorkInv, WorkOK, LocalsOK, OperationFails, At
<1>2. work' = [work EXCEPT ![p] = v] /\ store' = store
    BY DEF OperationFails, storeVars
<1>3. /\ v \in Locals /\ v.pc = "operation" /\ v.call = w.call /\ v.snap = w.snap
      /\ v.num = w.num /\ v.todo = w.todo /\ v.cur = w.cur /\ v.ops = w.ops \ {o}
      /\ v.copy = w.copy /\ v.done = w.done /\ v.failed = w.failed
    BY <1>1 DEF Locals
<1> HIDE DEF v, w
<1>4. GroupOf(v) = GroupOf(w)
    BY <1>3 DEF GroupOf
<1>5. LocalsOK(v)
    BY <1>1, <1>3, <1>4 DEF LocalsOK, InLoop, Stopped, CountedAll
<1>6. SnapOK(v, store) /\ GroupCopyOK(v, store)
    BY <1>1, <1>3, <1>4 DEF SnapOK, GroupCopyOK
<1> QED
    BY <1>2, <1>5, <1>6, QuietStep

\* The failure on one resource, whether or not its update was taken.
LEMMA FailureKeeps ==
    ASSUME WorkInv, TypeOK, StoreTypeOK', \A x \in Resources : VersionStep(x),
           NEW p \in GroupProcs, work[p].pc \in {"operation", "update"}, ResourceFails(p)
    PROVE  WorkInv'
<1> DEFINE w == work[p]
           v == Failed(w, Group(p).atomic /\ w.call.op = "apply")
<1>1. /\ LocalsOK(w) /\ InLoop(w) /\ w.cur \in w.todo /\ SnapOK(w, store')
  <2>1. WorkOK(w, store) /\ StoreTypeOK
    BY DEF WorkInv, TypeOK
  <2>2. WorkOK(w, store')
    BY <2>1, WorkKept
  <2> QED
    BY <2>1, <2>2 DEF WorkOK, LocalsOK, InLoop
<1>2. work' = [work EXCEPT ![p] = v] /\ Group(p) = GroupOf(w)
    BY DEF ResourceFails, Group, GroupOf
<1>3. \/ v = Failed(w, TRUE)
      \/ v = Failed(w, FALSE) /\ ~(GroupOf(w).atomic /\ w.call.op = "apply")
    BY <1>2 DEF Failed
<1> HIDE DEF v, w
<1>4. LocalsOK(v) /\ v.snap = w.snap /\ v.pc = "group"
    BY <1>1, <1>3, VisitedOK
<1>5. WorkOK(v, store')
    BY <1>1, <1>4 DEF WorkOK, SnapOK, GroupCopyOK
<1> QED
    BY <1>2, <1>5, OwnStep DEF TypeOK

LEMMA OperationsDoneKeeps ==
    ASSUME WorkInv, TypeOK, NEW p \in GroupProcs, OperationsDone(p)
    PROVE  WorkInv'
<1> DEFINE w == work[p]
           v == [w EXCEPT !.pc = "update"]
<1>1. /\ LocalsOK(w) /\ w \in Locals /\ w.pc = "operation" /\ SnapOK(w, store)
      /\ GroupCopyOK(w, store)
    BY DEF WorkInv, WorkOK, LocalsOK, OperationsDone, At
<1>2. UNCHANGED <<store, informer, cache>>
    BY DEF OperationsDone, storeVars
<1>3. CASE ResourceFails(p)
  <2>1. StoreTypeOK' /\ \A x \in Resources : VersionStep(x)
    BY <1>2 DEF TypeOK, StoreTypeOK, VersionStep, IsSnapshot
  <2> QED
    BY <1>1, <1>3, <2>1, FailureKeeps
<1>4. CASE work' = [work EXCEPT ![p] = v]
  <2>1. /\ v \in Locals /\ v.pc = "update" /\ v.call = w.call /\ v.snap = w.snap
        /\ v.num = w.num /\ v.todo = w.todo /\ v.cur = w.cur /\ v.ops = w.ops
        /\ v.copy = w.copy /\ v.done = w.done /\ v.failed = w.failed
    BY <1>1 DEF Locals
  <2>2. work' = [work EXCEPT ![p] = v]
    BY <1>4
  <2> HIDE DEF v, w
  <2>3. GroupOf(v) = GroupOf(w)
    BY <2>1 DEF GroupOf
  <2>4. LocalsOK(v)
    BY <1>1, <2>1, <2>3 DEF LocalsOK, InLoop, Stopped, CountedAll
  <2>5. SnapOK(v, store) /\ GroupCopyOK(v, store)
    BY <1>1, <2>1, <2>3 DEF SnapOK, GroupCopyOK
  <2> QED
    BY <1>2, <2>2, <2>4, <2>5, QuietStep
<1> QED
    BY <1>3, <1>4 DEF OperationsDone

LEMMA RemoveFromKeeps ==
    ASSUME WorkInv, TypeOK, NEW p \in GroupProcs, NEW x \in Resources,
           RemoveFromResource(p, x)
    PROVE  WorkInv'
<1> DEFINE w == work[p]
           o == w.snap[x]
           r == w.call.rule
           u == [w EXCEPT !.cur = x]
           v == [w EXCEPT !.pc = "update", !.cur = x, !.attempt = 0,
                          !.copy = [ann |-> ungrouped(o.ann, Group(p), r), rv |-> o.rv]]
<1>1. /\ LocalsOK(w) /\ w \in Locals /\ w.pc = "group" /\ x \in w.todo /\ SnapOK(w, store)
      /\ w.call.op = "remove" /\ w.call \in GroupCallType
    BY GroupFacts DEF WorkInv, WorkOK, LocalsOK, RemoveFromResource, At
<1>2. x \in DOMAIN w.snap /\ o \in Object /\ o.ann \in Annotations
    BY <1>1, SnapType DEF LocalsOK, InLoop, Object
<1>3. Group(p) = GroupOf(w) /\ store' = store
    BY DEF GroupOf, Group, RemoveFromResource, storeVars
<1>4. /\ ungrouped(o.ann, GroupOf(w), r) \in Annotations
      /\ Within(ungrouped(o.ann, GroupOf(w), r), o.ann, GroupOf(w), w.call)
    BY <1>1, <1>2, UngroupedWithin
<1>5. CASE work' = [work EXCEPT ![p] = v]
  <2>1. /\ v \in Locals /\ v.pc = "update" /\ v.call = w.call /\ v.snap = w.snap
        /\ v.num = w.num /\ v.todo = w.todo /\ v.cur = x /\ v.ops = w.ops
        /\ v.copy.ann = ungrouped(o.ann, GroupOf(w), r) /\ v.copy.rv = o.rv
        /\ v.done = w.done /\ v.failed = w.failed
    BY <1>1, <1>2, <1>3, <1>4, ScopeType DEF Locals, Object
  <2>2. work' = [work EXCEPT ![p] = v]
    BY <1>5
  <2>3. Agrees(o, store[x])
    BY <1>1, <1>2 DEF SnapOK
  <2> HIDE DEF v, w, o, r
  <2>4. GroupOf(v) = GroupOf(w)
    BY <2>1 DEF GroupOf
  <2>5. LocalsOK(v)
    BY <1>1, <2>1, <2>4 DEF LocalsOK, InLoop, Stopped, CountedAll
  <2>6. SnapOK(v, store)
    BY <1>1, <2>1 DEF SnapOK
  <2>7. GroupCopyOK(v, store)
    BY <1>4, <2>1, <2>3, <2>4 DEF GroupCopyOK, Agrees
  <2> QED
    BY <1>3, <2>2, <2>5, <2>6, <2>7, QuietStep
<1>6. CASE work' = [work EXCEPT ![p] = Counted(u)]
  <2>1. /\ u \in Locals /\ u.pc = "group" /\ u.call = w.call /\ u.snap = w.snap
        /\ u.num = w.num /\ u.todo = w.todo /\ u.cur = x /\ u.ops = w.ops
        /\ u.done = w.done /\ u.failed = w.failed
    BY <1>1 DEF Locals
  <2>2. work' = [work EXCEPT ![p] = Counted(u)]
    BY <1>6
  <2> HIDE DEF u, v, w, o, r
  <2>3. GroupOf(u) = GroupOf(w)
    BY <2>1 DEF GroupOf
  <2>4. LocalsOK(u) /\ InLoop(u) /\ u.cur \in u.todo
    BY <1>1, <2>1, <2>3 DEF LocalsOK, InLoop, Stopped, CountedAll
  <2>5. LocalsOK(Counted(u)) /\ Counted(u).snap = u.snap /\ Counted(u).pc = "group"
    BY <2>4, VisitedOK
  <2>6. SnapOK(Counted(u), store) /\ GroupCopyOK(Counted(u), store)
    BY <1>1, <2>1, <2>5 DEF SnapOK, GroupCopyOK
  <2> QED
    BY <1>3, <2>2, <2>5, <2>6, QuietStep
<1> QED
    BY <1>5, <1>6 DEF RemoveFromResource

\* An accepted update leaves objects in the store and raises versions only.
LEMMA AcceptedFacts ==
    ASSUME WorkInv, TypeOK, NEW p \in GroupProcs, GroupAccepted(p)
    PROVE  /\ StoreTypeOK' /\ \A x \in Resources : VersionStep(x)
           /\ work[p].cur \in Resources /\ work[p].copy.ann \in Annotations
<1>1. work[p].cur \in Resources /\ work[p].copy.ann \in Annotations
    BY DEF WorkInv, WorkOK, LocalsOK, Locals, Object
<1>2. StoreTypeOK /\ store' = Written(work[p].cur, work[p].copy.ann)
      /\ UNCHANGED <<informer, cache>>
    BY DEF TypeOK, GroupAccepted
<1>3. store' \in [Resources -> Object]
    BY <1>1, <1>2, WrittenType
<1>4. StoreTypeOK'
    BY <1>2, <1>3 DEF StoreTypeOK, IsSnapshot
<1>5. \A x \in Resources : VersionStep(x)
    BY <1>2, WrittenVersion
<1> QED
    BY <1>1, <1>4, <1>5

LEMMA GroupUpdateKeeps ==
    ASSUME WorkInv, TypeOK, NEW p \in GroupProcs,
           GroupUpdate(p) \/ GroupUpdateUnanswered(p) \/ GroupUpdateFails(p)
    PROVE  WorkInv'
<1> DEFINE w == work[p]
<1>1. CASE GroupUpdate(p)
  <2>1. GroupAccepted(p) /\ work' = [work EXCEPT ![p] = Counted(w)] /\ w.pc = "update"
    BY <1>1 DEF GroupUpdate, GroupAccepted, At
  <2>2. LocalsOK(w) /\ InLoop(w) /\ w.cur \in w.todo /\ WorkOK(w, store)
    BY <2>1 DEF WorkInv, WorkOK, LocalsOK, InLoop
  <2>3. StoreTypeOK /\ StoreTypeOK' /\ \A x \in Resources : VersionStep(x)
    BY <2>1, AcceptedFacts DEF TypeOK
  <2> HIDE DEF w
  <2>4. LocalsOK(Counted(w)) /\ Counted(w).snap = w.snap /\ Counted(w).pc = "group"
    BY <2>2, VisitedOK
  <2>5. WorkOK(w, store')
    BY <2>2, <2>3, WorkKept
  <2>6. WorkOK(Counted(w), store')
    BY <2>4, <2>5 DEF WorkOK, SnapOK, GroupCopyOK
  <2> QED
    BY <2>1, <2>3, <2>6, OwnStep
<1>2. CASE GroupUpdateUnanswered(p)
  <2>1. GroupAccepted(p) /\ ResourceFails(p) /\ work[p].pc = "update"
    BY <1>2 DEF GroupUpdateUnanswered, GroupAccepted, At
  <2> QED
    BY <2>1, AcceptedFacts, FailureKeeps
<1>3. CASE GroupUpdateFails(p)
  <2>1. UNCHANGED <<store, informer, cache>> /\ ResourceFails(p) /\ work[p].pc = "update"
    BY <1>3 DEF GroupUpdateFails, At, storeVars
  <2>2. StoreTypeOK' /\ \A x \in Resources : VersionStep(x)
    BY <2>1 DEF TypeOK, StoreTypeOK, VersionStep, IsSnapshot
  <2> QED
    BY <2>1, <2>2, FailureKeeps
<1> QED
    BY <1>1, <1>2, <1>3

\* A refetched copy is the object at its version, and carries none of the
\* group's changes.
LEMMA GroupRefetchKeeps ==
    ASSUME WorkInv, TypeOK, VersionsCoherent, NEW p \in GroupProcs, GroupRefetch(p)
    PROVE  WorkInv'
<1> DEFINE w == work[p]
           v == [w EXCEPT !.copy = Observed(w.cur), !.attempt = w.attempt + 1]
<1>1. /\ LocalsOK(w) /\ w \in Locals /\ w.pc = "update" /\ SnapOK(w, store)
      /\ w.attempt < MaxRetries - 1 /\ w.cur \in Resources
    BY DEF WorkInv, WorkOK, LocalsOK, Locals, GroupRefetch, At
<1>2. work' = [work EXCEPT ![p] = v] /\ store' = store
    BY DEF GroupRefetch, storeVars
<1>3. Observed(w.cur) \in Object /\ store[w.cur].ann \in Annotations
    BY <1>1, ObservedType DEF TypeOK, StoreTypeOK, Object
<1>4. w.attempt + 1 \in 0..(MaxRetries - 1)
    BY <1>1, ManagerAssumption DEF Locals
<1>5. /\ v \in Locals /\ v.pc = "update" /\ v.call = w.call /\ v.snap = w.snap
      /\ v.num = w.num /\ v.todo = w.todo /\ v.cur = w.cur /\ v.ops = w.ops
      /\ v.copy = Observed(w.cur) /\ v.done = w.done /\ v.failed = w.failed
    BY <1>1, <1>3, <1>4 DEF Locals
<1>6. Coherent(Observed(w.cur), w.cur)
    BY <1>1, ObservedCoherent
<1> HIDE DEF v, w
<1>7. GroupOf(v) = GroupOf(w)
    BY <1>5 DEF GroupOf
<1>8. LocalsOK(v)
    BY <1>1, <1>5, <1>7 DEF LocalsOK, InLoop, Stopped, CountedAll
<1>9. SnapOK(v, store) /\ GroupCopyOK(v, store)
    BY <1>1, <1>3, <1>5, <1>6, WithinReflexive DEF SnapOK, GroupCopyOK, Coherent
<1> QED
    BY <1>2, <1>8, <1>9, QuietStep

LEMMA NextGroupKeeps ==
    ASSUME WorkInv, TypeOK, NEW p \in GroupProcs, NextGroup(p)
    PROVE  WorkInv'
<1> DEFINE w == work[p]
           v == [w EXCEPT !.num = w.num + 1, !.todo = DOMAIN w.snap]
<1>1. /\ LocalsOK(w) /\ w \in Locals /\ w.pc = "group" /\ w.todo = {} /\ SnapOK(w, store)
      /\ store' = store
    BY DEF WorkInv, WorkOK, LocalsOK, NextGroup, At, storeVars
<1>2. CASE w.num < Len(w.call.groups)
  <2>1. work' = [work EXCEPT ![p] = v]
    BY <1>2 DEF NextGroup
  <2>2. DOMAIN w.snap \subseteq Resources /\ Len(w.call.groups) \in Nat /\ w.num \in Nat \ {0}
    BY <1>1, SnapType, GroupFacts DEF Locals
  <2>3. /\ v \in Locals /\ v.pc = "group" /\ v.call = w.call /\ v.snap = w.snap
        /\ v.num = w.num + 1 /\ v.todo = DOMAIN w.snap /\ v.cur = w.cur /\ v.ops = w.ops
        /\ v.done = w.done /\ v.failed = w.failed
    <3> DEFINE n == w.num + 1
               d == DOMAIN w.snap
    <3>1. n \in Nat \ {0} /\ d \subseteq Resources /\ w \in Locals
      BY <1>1, <2>2
    <3>2. v = [w EXCEPT !.num = n, !.todo = d]
      OBVIOUS
    <3>3. n = w.num + 1 /\ d = DOMAIN w.snap
      OBVIOUS
    <3> HIDE DEF n, d, w, v
    <3> QED
      BY <1>1, <3>1, <3>2, <3>3 DEF Locals
  <2> HIDE DEF v, w
  <2>4. v.ops \subseteq GroupOf(v).operations
    BY <1>1, <2>3 DEF LocalsOK
  <2>5. v.num \notin v.failed /\ v.failed \subseteq 1..v.num
    BY <1>1, <2>2, <2>3 DEF LocalsOK
  <2>6. CountedAll(v)
    BY <1>1, <2>2, <2>3 DEF LocalsOK, InLoop, CountedAll
  <2>7. LocalsOK(v)
    <3>1. v.num <= Len(v.call.groups)
      BY <1>2, <2>2, <2>3
    <3>2. Stopped(v)
      BY <2>3, <2>5 DEF Stopped
    <3>3. v.ops = {}
      BY <1>1, <2>3 DEF LocalsOK
    <3> QED
      BY <2>3, <2>4, <2>5, <2>6, <3>1, <3>2, <3>3 DEF LocalsOK
  <2>8. SnapOK(v, store) /\ GroupCopyOK(v, store)
    BY <1>1, <2>3 DEF SnapOK, GroupCopyOK
  <2> QED
    BY <1>1, <2>1, <2>7, <2>8, QuietStep
<1>3. CASE ~(w.num < Len(w.call.groups))
  <2>1. work' = [work EXCEPT ![p] = Idle]
    BY <1>3 DEF NextGroup
  <2>2. SnapOK(Idle, store) /\ GroupCopyOK(Idle, store)
    BY IdleOK DEF SnapOK, GroupCopyOK, NoSnapshot
  <2> QED
    BY <1>1, <2>1, <2>2, IdleOK, QuietStep
<1> QED
    BY <1>2, <1>3

-----------------------------------------------------------------------------
(* Both paths together.                                                    *)

GroupAct(p) == (\E c \in GroupCalls : GroupCall(p, c)) \/ GroupStep(p)

LEMMA GroupStepKeeps ==
    ASSUME GroupInv, NEW p \in GroupProcs, GroupAct(p)
    PROVE  WorkInv'
<1>1. TypeOK /\ VersionsCoherent /\ WorkInv
    BY DEF GroupInv, Inv
<1>2. ASSUME \E c \in GroupCalls : GroupCall(p, c) PROVE WorkInv'
    BY <1>1, <1>2, GroupCallKeeps
<1>3. ASSUME \/ GroupMatchMiss(p)
             \/ \E t \in Types : GroupMatchList(p, t) \/ GroupMatchListFails(p, t)
      PROVE  WorkInv'
    BY <1>1, <1>3, ListKeeps
<1>4. ASSUME \E x \in Resources : ApplyToResource(p, x) \/ RemoveFromResource(p, x)
      PROVE  WorkInv'
    BY <1>1, <1>4, ApplyToKeeps, RemoveFromKeeps
<1>5. ASSUME \E o \in work[p].ops : ApplyOperation(p, o) \/ OperationFails(p, o)
      PROVE  WorkInv'
    BY <1>1, <1>5, ApplyOperationKeeps, OperationFailsKeeps
<1> QED
    BY <1>1, <1>2, <1>3, <1>4, <1>5, MatchKeeps, OperationsDoneKeeps, GroupUpdateKeeps,
       GroupRefetchKeeps, NextGroupKeeps
    DEF GroupAct, GroupStep

\* What a step for groups does to the objects and to the cache.
LEMMA GroupStepStore ==
    ASSUME GroupInv, NEW p \in GroupProcs, GroupAct(p)
    PROVE  /\ StoreTypeOK' /\ informer' = informer
           /\ \A x \in Resources : VersionStep(x)
           /\ cache' = cache \/ (cache' = work[p].snap /\ store' = store)
<1>1. TypeOK /\ StoreTypeOK /\ WorkInv
    BY DEF GroupInv, Inv, TypeOK
<1>2. ASSUME UNCHANGED storeVars
      PROVE  /\ StoreTypeOK' /\ informer' = informer
             /\ cache' = cache /\ \A x \in Resources : VersionStep(x)
    BY <1>1, <1>2 DEF storeVars, StoreTypeOK, VersionStep, IsSnapshot
<1>3. ASSUME GroupCacheResources(p)
      PROVE  /\ StoreTypeOK' /\ informer' = informer
             /\ \A x \in Resources : VersionStep(x)
             /\ cache' = work[p].snap /\ store' = store
  <2>1. IsSnapshot(work[p].snap)
    BY <1>1, SnapType DEF WorkInv, WorkOK, LocalsOK
  <2> QED
    BY <1>1, <1>3, <2>1 DEF GroupCacheResources, StoreTypeOK, VersionStep, IsSnapshot
<1>4. ASSUME GroupAccepted(p)
      PROVE  /\ StoreTypeOK' /\ informer' = informer
             /\ cache' = cache /\ \A x \in Resources : VersionStep(x)
    BY <1>1, <1>4, AcceptedFacts DEF GroupAccepted
<1>5. UNCHANGED storeVars \/ GroupCacheResources(p) \/ GroupAccepted(p)
    BY
    DEF GroupAct, GroupStep, GroupCall, GroupMatchCached, GroupMatchMiss,
        GroupMatchList, GroupMatchListFails, ApplyToResource, RemoveFromResource,
        ApplyOperation, OperationFails, OperationsDone, GroupUpdate,
        GroupUpdateUnanswered, GroupRefetch, GroupUpdateFails, NextGroup
<1>6. CASE UNCHANGED storeVars
    BY <1>2, <1>6
<1>7. CASE GroupCacheResources(p)
    BY <1>3, <1>7
<1>8. CASE GroupAccepted(p)
    BY <1>4, <1>8
<1> QED
    BY <1>5, <1>6, <1>7, <1>8

\* A step for groups leaves the plain path's invariant true: its copies grow
\* older at most.
LEMMA GroupStepInv ==
    ASSUME GroupInv, NEW p \in GroupProcs, GroupAct(p), UNCHANGED procVars
    PROVE  Inv'
<1>1. TypeOK /\ LoopInv /\ VersionsCoherent /\ CopyIsCurrent /\ WorkInv
    BY DEF GroupInv, Inv
<1>2. /\ StoreTypeOK' /\ informer' = informer
      /\ \A x \in Resources : VersionStep(x)
      /\ cache' = cache \/ (cache' = work[p].snap /\ store' = store)
    BY GroupStepStore
<1>3. TypeOK'
    BY <1>1, <1>2 DEF TypeOK, procVars, IsSnapshot
<1>4. LoopInv'
    BY <1>1 DEF LoopInv, LoopOK, procVars
<1>5. ASSUME NEW x \in Resources, NEW o \in Object, Coherent(o, x)
      PROVE  o.rv <= store'[x].rv /\ (o.rv = store'[x].rv => o.ann = store'[x].ann)
    BY <1>1, <1>2, <1>5, CoherentStep DEF Object
<1>6. ASSUME NEW x \in Resources PROVE Coherent(informer[x], x)'
    BY <1>1, <1>2, <1>5 DEF TypeOK, StoreTypeOK, VersionsCoherent, Coherent
<1>7. ASSUME cache' # NoEntry, NEW x \in DOMAIN cache' PROVE Coherent(cache[x], x)'
  <2>1. CASE cache' = cache
    <3>1. x \in Resources /\ cache[x] \in Object /\ Coherent(cache[x], x)
      BY <1>1, <1>7, <2>1 DEF TypeOK, StoreTypeOK, VersionsCoherent, IsSnapshot
    <3> QED
      BY <1>5, <2>1, <3>1 DEF Coherent
  <2>2. CASE cache' = work[p].snap /\ store' = store
    <3>1. Agrees(work[p].snap[x], store[x])
      BY <1>1, <1>7, <2>2 DEF WorkInv, WorkOK, SnapOK
    <3> QED
      BY <2>2, <3>1 DEF Agrees, Coherent
  <2> QED
    BY <1>2, <2>1, <2>2
<1>8. ASSUME NEW q \in Procs, NEW x \in DOMAIN snap'[q] PROVE Coherent(snap[q][x], x)'
  <2>1. snap' = snap
    BY DEF procVars
  <2>2. x \in Resources /\ snap[q][x] \in Object /\ Coherent(snap[q][x], x)
    BY <1>1, <1>8, <2>1 DEF TypeOK, VersionsCoherent, IsSnapshot
  <2> QED
    BY <1>5, <2>1, <2>2 DEF Coherent
<1>9. VersionsCoherent'
    BY <1>6, <1>7, <1>8 DEF VersionsCoherent
<1>10. CopyIsCurrent'
  <2> SUFFICES ASSUME NEW q \in Procs PROVE CopyOK(q)'
    BY DEF CopyIsCurrent, CopyOK, Operation
  <2>1. CopyOK(q) /\ UNCHANGED <<pc, cur, copy, call>>
    BY <1>1, CopyIsCurrentDef DEF procVars
  <2>2. /\ cur[q] \in Resources /\ store[cur[q]] \in Object /\ copy[q].rv \in Nat
        /\ VersionStep(cur[q])
    BY <1>1, <1>2 DEF TypeOK, StoreTypeOK, Object
  <2> QED
    BY <2>1, <2>2 DEF CopyOK, VersionStep, Object
<1> QED
    BY <1>3, <1>4, <1>9, <1>10 DEF Inv

\* A step of the plain path or of other clients leaves the groups' locals
\* right.
LEMMA PlainStepKeeps ==
    ASSUME GroupInv, [Next]_vars, UNCHANGED work
    PROVE  WorkInv'
<1>1. TypeOK /\ WorkInv /\ TypeOK'
    BY NextType DEF GroupInv, Inv
<1>2. \A x \in Resources : VersionStep(x)
    BY <1>1, VersionsRise
<1>3. \A q \in GroupProcs : WorkOK(work[q], store')
    BY <1>1, <1>2, WorkKept DEF WorkInv, TypeOK
<1> QED
    BY <1>1, <1>3 DEF WorkInv

LEMMA GroupInvInductive == GroupSpec => []GroupInv
<1>1. GroupInit => GroupInv
  <2>1. Init => Inv
    BY InvInit
  <2> QED
    BY <2>1, InitWork DEF GroupInit, GroupInv
<1>2. GroupInv /\ [GroupNext]_groupVars => GroupInv'
  <2> SUFFICES ASSUME GroupInv, [GroupNext]_groupVars PROVE GroupInv'
    OBVIOUS
  <2>1. CASE [Next]_vars /\ UNCHANGED work
    <3>1. Inv'
      BY <2>1, NextType, NextLoop, NextCoherent, NextCopy DEF GroupInv, Inv
    <3> QED
      BY <2>1, <3>1, PlainStepKeeps DEF GroupInv
  <2>2. ASSUME NEW p \in GroupProcs, GroupAct(p), UNCHANGED procVars PROVE GroupInv'
    BY <2>2, GroupStepKeeps, GroupStepInv DEF GroupInv
  <2> QED
    BY <2>1, <2>2 DEF GroupNext, GroupAct, groupVars
<1> QED
    BY <1>1, <1>2, PTL DEF GroupSpec

\* The locals of a goroutine for groups keep their types.
THEOREM GroupTypeCorrect == GroupSpec => []GroupTypeOK
<1>1. ASSUME GroupInv PROVE GroupTypeOK
  <2> SUFFICES ASSUME NEW p \in GroupProcs PROVE
          /\ work[p].pc \in {"idle", "match", "list", "group", "operation", "update"}
          /\ work[p].call \in GroupCalls
          /\ IsSnapshot(work[p].snap)
          /\ work[p].num \in 1..Len(work[p].call.groups)
          /\ work[p].todo \subseteq Resources
          /\ work[p].cur \in Resources
          /\ work[p].ops \subseteq work[p].call.groups[work[p].num].operations
          /\ work[p].hasErrors \in BOOLEAN
          /\ work[p].copy \in Object
          /\ work[p].attempt \in 0..(MaxRetries - 1)
          /\ work[p].done \subseteq Nat \X Resources
          /\ work[p].failed \subseteq Nat
    BY <1>1 DEF GroupTypeOK, GroupInv, WorkInv
  <2> DEFINE w == work[p]
  <2>1. LocalsOK(w) /\ w \in Locals
    BY <1>1 DEF GroupInv, WorkInv, WorkOK, LocalsOK
  <2> HIDE DEF w
  <2>2. w.num \in 1..Len(w.call.groups) /\ IsSnapshot(w.snap)
    BY <2>1, GroupFacts, SnapType
  <2>3. w.ops \subseteq w.call.groups[w.num].operations
    BY <2>1 DEF LocalsOK, GroupOf
  <2> QED
    BY <2>1, <2>2, <2>3 DEF Locals, w
<1> QED
    BY <1>1, GroupInvInductive, PTL

\* Only a goroutine's own steps change its locals.
LEMMA OwnLocals ==
    ASSUME GroupInv, [GroupNext]_groupVars, NEW p \in GroupProcs, work'[p] # work[p]
    PROVE  GroupAct(p)
<1>1. DOMAIN work = GroupProcs
    BY DEF GroupInv, WorkInv
<1>2. ASSUME NEW q \in GroupProcs, GroupAct(q), q # p PROVE work'[p] = work[p]
    BY <1>1, <1>2
    DEF GroupAct, GroupStep, GroupCall, GroupMatched, GroupMatchCached, GroupMatchMiss,
        GroupMatchList, GroupMatchListFails, GroupCacheResources, ApplyToResource,
        RemoveFromResource, ApplyOperation, OperationFails, OperationsDone,
        ResourceFails, GroupUpdate, GroupUpdateUnanswered, GroupRefetch,
        GroupUpdateFails, NextGroup
<1> QED
    BY <1>2 DEF GroupNext, GroupAct, groupVars

\* The steps in which a group changes an object are accepted updates.
LEMMA GroupUpdateIsAccepted ==
    ASSUME GroupInv, [GroupNext]_groupVars, NEW p \in GroupProcs, NEW x \in Resources,
           GroupUpdates(p, x)
    PROVE  GroupAccepted(p) /\ work[p].pc = "update" /\ work[p].cur = x
<1>1. /\ work[p].pc = "update" /\ work'[p].pc = "group" /\ work[p].cur = x /\ store' # store
    BY DEF GroupUpdates, At
<1>2. GroupAct(p)
    BY <1>1, OwnLocals
<1> QED
    BY <1>1, <1>2
    DEF GroupAct, GroupStep, GroupCall, GroupMatchCached, GroupMatchMiss,
        GroupMatchList, GroupMatchListFails, GroupCacheResources, ApplyToResource,
        RemoveFromResource, ApplyOperation, OperationFails, OperationsDone, GroupUpdate,
        GroupUpdateUnanswered, GroupRefetch, GroupUpdateFails, NextGroup, At, storeVars

\* What they leave is within the group's limits of what was there.
LEMMA GroupUpdateIsWithin ==
    ASSUME GroupInv, [GroupNext]_groupVars, NEW p \in GroupProcs, NEW x \in Resources,
           GroupUpdates(p, x)
    PROVE  /\ Within(store'[x].ann, store[x].ann, Group(p), work[p].call)
           /\ \A y \in Resources \ {x} : store'[y] = store[y]
<1>1. /\ work[p].pc = "update" /\ work[p].cur = x /\ work[p].copy.rv = store[x].rv
      /\ store' = Written(x, work[p].copy.ann)
    BY GroupUpdateIsAccepted DEF GroupAccepted
<1>2. Within(work[p].copy.ann, store[x].ann, Group(p), work[p].call)
    BY <1>1 DEF GroupInv, WorkInv, WorkOK, GroupCopyOK, Group, GroupOf
<1>3. store \in [Resources -> Object]
    BY DEF GroupInv, Inv, TypeOK, StoreTypeOK
<1>4. store'[x].ann = work[p].copy.ann /\ \A y \in Resources \ {x} : store'[y] = store[y]
    BY <1>1, <1>3 DEF Written
<1> QED
    BY <1>2, <1>4

\* An accepted update leaves alone what is not the group's.
THEOREM GroupPreservesCorrect == GroupSpec => GroupPreserves
<1>1. ASSUME GroupInv, [GroupNext]_groupVars
      PROVE  [\A p \in GroupProcs, x \in Resources :
                GroupUpdates(p, x) =>
                   /\ \A y \in Resources \ {x} : store'[y] = store[y]
                   /\ \A k \in Keys \ GroupKeys(Group(p)) :
                         store'[x].ann.val[k] = store[x].ann.val[k]
                   /\ \A r \in Rules \ {work[p].call.rule} :
                         store'[x].ann.track[r] = store[x].ann.track[r]]_groupVars
    BY <1>1, GroupUpdateIsWithin DEF Within
<1> QED
    BY <1>1, GroupInvInductive, PTL DEF GroupSpec, GroupPreserves

\* Under "skip" an annotation that is there keeps its value.
THEOREM SkipKeepsValuesCorrect == GroupSpec => SkipKeepsValues
<1>1. ASSUME GroupInv, [GroupNext]_groupVars
      PROVE  [\A p \in GroupProcs, x \in Resources, k \in Keys :
                /\ GroupUpdates(p, x) /\ work[p].call.op = "apply"
                /\ work[p].call.conflictResolution = "skip"
                /\ \A o \in Group(p).operations : o.key = k => o.action = "apply"
                /\ store[x].ann.val[k] # NoValue
                => store'[x].ann.val[k] = store[x].ann.val[k]]_groupVars
    BY <1>1, GroupUpdateIsWithin DEF Within
<1> QED
    BY <1>1, GroupInvInductive, PTL DEF GroupSpec, SkipKeepsValues

\* What a rule's groups have put on an object stays removable.
THEOREM GroupTracksAllCorrect == GroupSpec => GroupTracksAll
<1>1. ASSUME GroupInv, [GroupNext]_groupVars
      PROVE  [\A p \in GroupProcs, x \in Resources, k \in Keys :
                /\ GroupUpdates(p, x)
                /\ \/ k \in store[x].ann.track[work[p].call.rule]
                   \/ store'[x].ann.val[k] # store[x].ann.val[k]
                => \/ k \in store'[x].ann.track[work[p].call.rule]
                   \/ store'[x].ann.val[k] = NoValue]_groupVars
    BY <1>1, GroupUpdateIsWithin DEF Within
<1> QED
    BY <1>1, GroupInvInductive, PTL DEF GroupSpec, GroupTracksAll

\* An atomic group that has failed on one object writes to no further one.
THEOREM AtomicStopsCorrect == GroupSpec => AtomicStops
<1>1. ASSUME GroupInv, [GroupNext]_groupVars, NEW p \in GroupProcs, NEW x \in Resources,
             GroupUpdates(p, x), Group(p).atomic, work[p].call.op = "apply"
      PROVE  work[p].num \notin work[p].failed
  <2>1. work[p].pc = "update" /\ Stopped(work[p])
    BY <1>1, GroupUpdateIsAccepted DEF GroupInv, WorkInv, WorkOK, LocalsOK
  <2> QED
    BY <1>1, <2>1 DEF Stopped, Group, GroupOf
<1>2. ASSUME GroupInv, [GroupNext]_groupVars
      PROVE  [\A p \in GroupProcs, x \in Resources :
                GroupUpdates(p, x) /\ Group(p).atomic /\ work[p].call.op = "apply" =>
                   work[p].num \notin work[p].failed]_groupVars
    BY <1>1, <1>2
<1> QED
    BY <1>2, GroupInvInductive, PTL DEF GroupSpec, AtomicStops

\* A call that reports no failure has counted every object in every group.
THEOREM GroupSuccessMeansAllCorrect == GroupSpec => GroupSuccessMeansAll
<1>1. ASSUME GroupInv, [GroupNext]_groupVars, NEW p \in GroupProcs,
             At(p, "group"), work'[p].pc = "idle", work[p].failed = {}
      PROVE  work[p].done = (1..Len(work[p].call.groups)) \X DOMAIN work[p].snap
  <2> DEFINE w == work[p]
  <2>1. GroupAct(p) /\ w.pc = "group"
    BY <1>1, OwnLocals DEF At
  <2>2. LocalsOK(w) /\ w.failed = {} /\ w.num \in 1..Len(w.call.groups)
        /\ Len(w.call.groups) \in Nat
    BY <1>1, GroupFacts DEF GroupInv, WorkInv, WorkOK
  <2>3. NextGroup(p)
    <3>1. DOMAIN work = GroupProcs
      BY <1>1 DEF GroupInv, WorkInv
    <3>2. ASSUME NEW x \in Resources PROVE ~ApplyToResource(p, x) /\ ~RemoveFromResource(p, x)
      <4>1. w \in Locals
        BY <2>2 DEF LocalsOK
      <4>2. CASE ApplyToResource(p, x)
        <5>1. work'[p].pc = "operation"
          BY <3>1, <4>1, <4>2 DEF ApplyToResource, Locals
        <5> QED
          BY <1>1, <5>1
      <4>3. CASE RemoveFromResource(p, x)
        <5>1. work'[p].pc = "update" \/ work'[p] = Counted([w EXCEPT !.cur = x])
          BY <3>1, <4>1, <4>3 DEF RemoveFromResource, Locals
        <5>2. Counted([w EXCEPT !.cur = x]).pc = "group"
          BY <4>1 DEF Counted, Visited, Locals
        <5> QED
          BY <1>1, <5>1, <5>2
      <4> QED
        BY <4>2, <4>3
    <3> QED
      BY <2>1, <3>2
      DEF GroupAct, GroupStep, GroupCall, GroupMatchCached, GroupMatchMiss,
          GroupMatchList, GroupMatchListFails, GroupCacheResources, ApplyOperation,
          OperationFails, OperationsDone, GroupUpdate, GroupUpdateUnanswered,
          GroupAccepted, GroupRefetch, GroupUpdateFails, At
  <2>4. w.todo = {} /\ w.num = Len(w.call.groups)
    <3>1. DOMAIN work = GroupProcs
      BY <1>1 DEF GroupInv, WorkInv
    <3>2. w.todo = {} /\ w \in Locals
      BY <2>2, <2>3 DEF NextGroup, LocalsOK
    <3>3. CASE w.num < Len(w.call.groups)
      <4>1. work'[p] = [w EXCEPT !.num = w.num + 1, !.todo = DOMAIN w.snap]
        BY <2>3, <3>1, <3>3 DEF NextGroup
      <4>2. work'[p].pc = w.pc
        BY <3>2, <4>1 DEF Locals
      <4> QED
        BY <1>1, <2>1, <4>2
    <3> QED
      BY <2>2, <3>2, <3>3
  <2>5. CountedAll(w) /\ InLoop(w)
    BY <2>1, <2>2 DEF LocalsOK, InLoop
  <2> HIDE DEF w
  <2>6. w.done = (1..Len(w.call.groups)) \X DOMAIN w.snap
    BY <2>2, <2>4, <2>5 DEF CountedAll
  <2> QED
    BY <2>6 DEF w
<1>2. ASSUME GroupInv, [GroupNext]_groupVars
      PROVE  [\A p \in GroupProcs :
                At(p, "group") /\ work'[p].pc = "idle" /\ work[p].failed = {} =>
                   work[p].done = (1..Len(work[p].call.groups)) \X DOMAIN work[p].snap]_groupVars
    BY <1>1, <1>2
<1> QED
    BY <1>2, GroupInvInductive, PTL DEF GroupSpec, GroupSuccessMeansAll

-----------------------------------------------------------------------------
(* What a group has said of an object, up to the first conflict.           *)

\* An operation comes about, whatever was there ...
LEMMA OperatedDone ==
    ASSUME NEW a \in Annotations, NEW o \in AnnotationOperation, NEW c \in GroupCallType
    PROVE  Done(operated(a, o, c), o, c)
<1>1. /\ o.key \in Keys /\ o.value \in Values /\ o.value # NoValue /\ c.rule \in Rules
    BY StoreAssumption DEF AnnotationOperation, GroupCallType
<1>2. CASE operated(a, o, c) = a
    BY <1>1, <1>2 DEF operated, Done, Removed, Annotations
<1>3. CASE /\ o.action = "apply"
           /\ operated(a, o, c) = [a EXCEPT !.val[o.key] = o.value,
                                            !.track[c.rule] = @ \cup {o.key}]
    BY <1>1, <1>3 DEF Done, Annotations
<1>4. CASE /\ o.action # "apply"
           /\ operated(a, o, c) = [a EXCEPT !.val[o.key] = NoValue,
                                            !.track[c.rule] = @ \ {o.key}]
    BY <1>1, <1>4 DEF Done, Removed, Annotations
<1> QED
    BY <1>2, <1>3, <1>4 DEF operated

\* ... and leaves alone what operations on other keys have brought about.
LEMMA OperatedElsewhere ==
    ASSUME NEW a \in Annotations, NEW o \in AnnotationOperation, NEW c \in GroupCallType,
           NEW o1 \in AnnotationOperation, o1.key # o.key, Done(a, o1, c)
    PROVE  Done(operated(a, o, c), o1, c)
<1>1. /\ o.key \in Keys /\ o1.key \in Keys /\ c.rule \in Rules
    BY DEF AnnotationOperation, GroupCallType
<1>2. CASE operated(a, o, c) = a
    BY <1>2
<1>3. CASE operated(a, o, c) = [a EXCEPT !.val[o.key] = o.value,
                                         !.track[c.rule] = @ \cup {o.key}]
    BY <1>1, <1>3 DEF Done, Removed, Annotations
<1>4. CASE operated(a, o, c) = [a EXCEPT !.val[o.key] = NoValue,
                                         !.track[c.rule] = @ \ {o.key}]
    BY <1>1, <1>4 DEF Done, Removed, Annotations
<1> QED
    BY <1>2, <1>3, <1>4 DEF operated

\* The removal of a group leaves none of its keys that is set and tracked.
LEMMA UngroupedRemoved ==
    ASSUME NEW a \in Annotations, NEW g, NEW r \in Rules, NEW k \in Keys,
           k \in GroupKeys(g)
    PROVE  Removed(ungrouped(a, g, r), k, r)
BY DEF Removed, ungrouped, ungroupable, Annotations

\* The copy shows every operation that is over and shares its key with no other.
SaidSoFar(w) ==
    w.pc \in {"operation", "update"} /\ w.attempt = 0 /\ ~w.hasErrors =>
       IF w.call.op = "remove"
         THEN \A k \in GroupKeys(GroupOf(w)) : Removed(w.copy.ann, k, w.call.rule)
         ELSE \A o \in Undisputed(GroupOf(w)) \ w.ops : Done(w.copy.ann, o, w.call)

SaysOK(w) ==
    /\ w.pc = "operation" => w.call.op = "apply"
    /\ w.pc = "update" /\ w.call.op = "apply" => w.ops = {}
    /\ w.pc # "operation" => ~w.hasErrors
    /\ SaidSoFar(w)

SayInv == \A p \in GroupProcs : SaysOK(work[p])

\* Outside the visit of an object there is nothing to say.
LEMMA Silent ==
    ASSUME NEW w, w.pc \notin {"operation", "update"}, ~w.hasErrors
    PROVE  SaysOK(w)
BY DEF SaysOK, SaidSoFar

LEMMA ApplyOperationSays ==
    ASSUME GroupInv, NEW p \in GroupProcs, SaysOK(work[p]),
           NEW o \in work[p].ops, ApplyOperation(p, o)
    PROVE  SaysOK(work'[p])
<1> DEFINE w == work[p]
           v == [w EXCEPT !.copy.ann = operated(w.copy.ann, o, w.call), !.ops = w.ops \ {o}]
<1>1. /\ LocalsOK(w) /\ w \in Locals /\ w.pc = "operation" /\ o \in w.ops
      /\ work'[p] = v
    BY DEF GroupInv, WorkInv, WorkOK, LocalsOK, ApplyOperation, At
<1>2. /\ w.call \in GroupCallType /\ o \in GroupOf(w).operations
      /\ w.ops \subseteq GroupOf(w).operations
      /\ GroupOf(w).operations \subseteq AnnotationOperation /\ w.copy.ann \in Annotations
    BY <1>1, GroupFacts DEF LocalsOK, Locals, Object
<1>3. /\ v.pc = "operation" /\ v.call = w.call /\ v.num = w.num /\ v.ops = w.ops \ {o}
      /\ v.attempt = w.attempt /\ v.hasErrors = w.hasErrors
      /\ v.copy.ann = operated(w.copy.ann, o, w.call)
    BY <1>1 DEF Locals, Object
<1>4. w.call.op = "apply" /\ SaidSoFar(w)
    BY <1>1 DEF SaysOK
<1> HIDE DEF v, w
<1>5. GroupOf(v) = GroupOf(w)
    BY <1>3 DEF GroupOf
<1>6. SaidSoFar(v)
  <2> SUFFICES ASSUME v.attempt = 0, ~v.hasErrors,
                      NEW o1 \in Undisputed(GroupOf(w)) \ (w.ops \ {o})
               PROVE  Done(v.copy.ann, o1, w.call)
    BY <1>3, <1>4, <1>5 DEF SaidSoFar
  <2>1. o1 \in GroupOf(w).operations /\ o1 \in AnnotationOperation
    BY <1>2 DEF Undisputed
  <2>2. CASE o1 = o
    BY <1>2, <1>3, <2>1, <2>2, OperatedDone
  <2>3. CASE o1 # o
    <3>1. o1 \notin w.ops /\ o \in AnnotationOperation
      BY <1>2, <2>3
    <3>2. o.key # o1.key
      BY <1>2, <2>3 DEF Undisputed
    <3>3. Done(w.copy.ann, o1, w.call)
      BY <1>1, <1>3, <1>4, <3>1 DEF SaidSoFar
    <3> QED
      BY <1>2, <1>3, <2>1, <3>1, <3>2, <3>3, OperatedElsewhere
  <2> QED
    BY <2>2, <2>3
<1> QED
    BY <1>1, <1>3, <1>4, <1>6 DEF SaysOK

LEMMA OperationFailsSays ==
    ASSUME GroupInv, NEW p \in GroupProcs, SaysOK(work[p]),
           NEW o \in work[p].ops, OperationFails(p, o)
    PROVE  SaysOK(work'[p])
<1> DEFINE w == work[p]
           v == [w EXCEPT !.hasErrors = TRUE, !.ops = w.ops \ {o}]
<1>1. w \in Locals /\ w.pc = "operation" /\ work'[p] = v /\ w.call.op = "apply"
    BY DEF GroupInv, WorkInv, WorkOK, LocalsOK, OperationFails, At, SaysOK
<1>2. v.pc = "operation" /\ v.call = w.call /\ v.hasErrors
    BY <1>1 DEF Locals
<1> HIDE DEF v, w
<1> QED
    BY <1>1, <1>2 DEF SaysOK, SaidSoFar

\* An apply begins with nothing said, a removal with all of it.
LEMMA VisitSays ==
    ASSUME GroupInv, NEW p \in GroupProcs, SaysOK(work[p]), NEW x \in Resources,
           ApplyToResource(p, x) \/ RemoveFromResource(p, x)
    PROVE  SaysOK(work'[p])
<1> DEFINE w == work[p]
           r == w.call.rule
           u == [w EXCEPT !.cur = x]
           va == [w EXCEPT !.pc = "operation", !.cur = x, !.copy = w.snap[x],
                           !.ops = Group(p).operations, !.hasErrors = FALSE, !.attempt = 0]
           ann == ungrouped(w.snap[x].ann, Group(p), r)
           vr == [w EXCEPT !.pc = "update", !.cur = x, !.attempt = 0,
                           !.copy = [ann |-> ann, rv |-> w.snap[x].rv]]
<1>1. /\ LocalsOK(w) /\ w \in Locals /\ w.pc = "group" /\ x \in w.todo /\ ~w.hasErrors
      /\ DOMAIN work = GroupProcs
    BY DEF GroupInv, WorkInv, WorkOK, LocalsOK, ApplyToResource, RemoveFromResource, At,
       SaysOK
<1>2. /\ x \in DOMAIN w.snap /\ w.snap[x].ann \in Annotations /\ Group(p) = GroupOf(w)
      /\ w.call \in GroupCallType /\ r \in Rules
      /\ GroupOf(w).operations \subseteq AnnotationOperation
  <2>1. x \in DOMAIN w.snap
    BY <1>1 DEF LocalsOK, InLoop
  <2> QED
    BY <1>1, <2>1, SnapType, GroupFacts DEF Object, Group, GroupOf, GroupCallType
<1>3. CASE work'[p] = va /\ w.call.op = "apply"
  <2>1. /\ va.pc = "operation" /\ va.call = w.call /\ va.num = w.num
        /\ va.ops = GroupOf(w).operations /\ ~va.hasErrors
    BY <1>1, <1>2 DEF Locals
  <2> HIDE DEF va, w
  <2>2. GroupOf(va) = GroupOf(w)
    BY <2>1 DEF GroupOf
  <2> QED
    BY <1>3, <2>1, <2>2 DEF SaysOK, SaidSoFar, Undisputed
<1>4. CASE work'[p] = vr /\ w.call.op = "remove"
  <2>1. /\ vr.pc = "update" /\ vr.call = w.call /\ vr.num = w.num
        /\ ~vr.hasErrors /\ vr.copy.ann = ann
    BY <1>1 DEF Locals
  <2>2. \A k \in GroupKeys(GroupOf(w)) : k \in Keys
    BY <1>2 DEF GroupKeys, AnnotationOperation
  <2>3. \A k \in GroupKeys(GroupOf(w)) : Removed(ann, k, r)
    BY <1>2, <2>2, UngroupedRemoved
  <2> HIDE DEF vr, ann
  <2>4. GroupOf(vr) = GroupOf(w)
    BY <2>1 DEF GroupOf
  <2> QED
    BY <1>4, <2>1, <2>3, <2>4 DEF SaysOK, SaidSoFar
<1>5. CASE work'[p] = Counted(u)
  <2>1. Counted(u).pc = "group" /\ ~Counted(u).hasErrors
    BY <1>1 DEF Counted, Visited, Locals
  <2> QED
    BY <1>5, <2>1, Silent
<1> QED
    BY <1>1, <1>3, <1>4, <1>5 DEF ApplyToResource, RemoveFromResource, ungrouped

\* How a visit ends.
LEMMA VisitEnds ==
    ASSUME NEW w \in Locals
    PROVE  /\ Counted(w).pc = "group" /\ ~Counted(w).hasErrors
           /\ Counted(w).done = w.done \cup {<<w.num, w.cur>>}
           /\ \A stop : /\ Failed(w, stop).pc = "group" /\ ~Failed(w, stop).hasErrors
                        /\ Failed(w, stop).done = w.done
BY DEF Counted, Failed, Visited, Locals

LEMMA OperationsDoneSays ==
    ASSUME GroupInv, NEW p \in GroupProcs, SaysOK(work[p]), OperationsDone(p)
    PROVE  SaysOK(work'[p])
<1> DEFINE w == work[p]
           v == [w EXCEPT !.pc = "update"]
<1>1. /\ w \in Locals /\ w.pc = "operation" /\ w.ops = {} /\ DOMAIN work = GroupProcs
      /\ SaysOK(w)
    BY DEF GroupInv, WorkInv, WorkOK, LocalsOK, OperationsDone, At
<1>2. CASE work'[p] = v /\ ~w.hasErrors
  <2>1. /\ v.pc = "update" /\ v.call = w.call /\ v.num = w.num /\ v.ops = w.ops
        /\ ~v.hasErrors /\ v.attempt = w.attempt /\ v.copy = w.copy
    BY <1>1, <1>2 DEF Locals
  <2> HIDE DEF v, w
  <2>2. GroupOf(v) = GroupOf(w)
    BY <2>1 DEF GroupOf
  <2> QED
    BY <1>1, <1>2, <2>1, <2>2 DEF SaysOK, SaidSoFar
<1>3. CASE work'[p].pc = "group" /\ ~work'[p].hasErrors
    BY <1>3, Silent
<1>4. CASE w.hasErrors
  <2>1. work'[p] = Failed(w, Group(p).atomic /\ w.call.op = "apply")
    BY <1>1, <1>4 DEF OperationsDone, ResourceFails
  <2> QED
    BY <1>1, <1>3, <2>1, VisitEnds
<1> QED
    BY <1>1, <1>2, <1>4 DEF OperationsDone

\* A refetched copy says nothing, and is written at a later attempt.
LEMMA RefetchSays ==
    ASSUME GroupInv, NEW p \in GroupProcs, SaysOK(work[p]), GroupRefetch(p)
    PROVE  SaysOK(work'[p])
<1> DEFINE w == work[p]
           v == [w EXCEPT !.copy = Observed(w.cur), !.attempt = w.attempt + 1]
<1>1. /\ w \in Locals /\ w.pc = "update" /\ ~w.hasErrors /\ work'[p] = v
      /\ w.attempt \in Nat /\ SaysOK(w)
    BY ManagerAssumption DEF GroupInv, WorkInv, WorkOK, LocalsOK, GroupRefetch, At, SaysOK,
       Locals
<1>2. /\ v.pc = "update" /\ v.call = w.call /\ v.num = w.num /\ v.ops = w.ops
      /\ ~v.hasErrors /\ v.attempt # 0
    BY <1>1 DEF Locals
<1> HIDE DEF v, w
<1>3. GroupOf(v) = GroupOf(w)
    BY <1>2 DEF GroupOf
<1> QED
    BY <1>1, <1>2, <1>3 DEF SaysOK, SaidSoFar

LEMMA OwnSays ==
    ASSUME GroupInv, NEW p \in GroupProcs, SaysOK(work[p]), GroupAct(p)
    PROVE  SaysOK(work'[p])
<1>1. LocalsOK(work[p]) /\ work[p] \in Locals /\ DOMAIN work = GroupProcs
    BY DEF GroupInv, WorkInv, WorkOK, LocalsOK
<1>2. CASE \/ \E c \in GroupCalls : GroupCall(p, c)
           \/ GroupMatchMiss(p)
           \/ \E t \in Types : GroupMatchList(p, t) \/ GroupMatchListFails(p, t)
           \/ GroupMatchCached(p) \/ GroupCacheResources(p)
           \/ NextGroup(p)
  <2>1. work[p].pc \in {"idle", "match", "list", "group"} /\ ~work[p].hasErrors
    BY <1>2
    DEF GroupCall, GroupMatchMiss, GroupMatchList, GroupMatchListFails,
        GroupMatchCached, GroupCacheResources, NextGroup, At, SaysOK
  <2>2. Idle.pc = "idle" /\ ~Idle.hasErrors
    BY DEF Idle
  <2>3. ASSUME GroupCacheResources(p) \/ GroupMatchCached(p), NEW s, GroupMatched(p, s)
        PROVE  work'[p].pc \in {"idle", "group"} /\ ~work'[p].hasErrors
    BY <1>1, <2>1, <2>2, <2>3 DEF GroupMatched, Locals
  <2>4. work'[p].pc \in {"idle", "match", "list", "group"} /\ ~work'[p].hasErrors
    <3>1. CASE \E c \in GroupCalls : GroupCall(p, c)
      BY <1>1, <2>1, <3>1 DEF GroupCall, Locals
    <3>2. CASE \/ GroupMatchMiss(p)
               \/ \E t \in Types : GroupMatchList(p, t) \/ GroupMatchListFails(p, t)
      <4>1. CASE GroupMatchMiss(p)
        BY <1>1, <2>1, <4>1 DEF GroupMatchMiss, Locals
      <4>2. ASSUME NEW t \in Types, GroupMatchList(p, t) \/ GroupMatchListFails(p, t)
            PROVE  work'[p].pc = "list" /\ ~work'[p].hasErrors
        <5>1. CASE GroupMatchList(p, t)
          BY <1>1, <2>1, <5>1 DEF GroupMatchList, At, Locals
        <5>2. CASE GroupMatchListFails(p, t)
          BY <1>1, <2>1, <5>2 DEF GroupMatchListFails, At, Locals
        <5> QED
          BY <4>2, <5>1, <5>2
      <4> QED
        BY <3>2, <4>1, <4>2
    <3>3. CASE GroupMatchCached(p)
      BY <2>3, <3>3 DEF GroupMatchCached
    <3>4. CASE GroupCacheResources(p)
      BY <2>3, <3>4 DEF GroupCacheResources
    <3>5. CASE NextGroup(p)
      BY <1>1, <2>1, <2>2, <3>5 DEF NextGroup, Locals
    <3> QED
      BY <1>2, <3>1, <3>2, <3>3, <3>4, <3>5
  <2> QED
    BY <2>4, Silent
<1>3. CASE GroupUpdate(p) \/ GroupUpdateUnanswered(p) \/ GroupUpdateFails(p)
  <2>1. \/ work'[p] = Counted(work[p])
        \/ \E stop : work'[p] = Failed(work[p], stop)
    BY <1>1, <1>3, Zenon DEF GroupUpdate, GroupUpdateUnanswered, GroupUpdateFails,
       ResourceFails
  <2>2. work'[p].pc = "group" /\ ~work'[p].hasErrors
    BY <1>1, <2>1, VisitEnds
  <2> QED
    BY <2>2, Silent
<1> QED
    BY <1>2, <1>3, VisitSays, ApplyOperationSays, OperationFailsSays, OperationsDoneSays,
       RefetchSays
    DEF GroupAct, GroupStep

LEMMA SayInductive == GroupSpec => []SayInv
<1>1. GroupInit => SayInv
  <2>1. Idle.pc = "idle" /\ ~Idle.hasErrors
    BY DEF Idle
  <2> QED
    BY <2>1, Silent DEF GroupInit, SayInv
<1>2. GroupInv /\ SayInv /\ [GroupNext]_groupVars => SayInv'
  <2> SUFFICES ASSUME GroupInv, SayInv, [GroupNext]_groupVars, NEW p \in GroupProcs
               PROVE  SaysOK(work'[p])
    BY DEF SayInv, SaysOK, SaidSoFar
  <2>1. CASE work'[p] = work[p]
    BY <2>1 DEF SayInv
  <2>2. CASE work'[p] # work[p]
    BY <2>2, OwnLocals, OwnSays DEF SayInv
  <2> QED
    BY <2>1, <2>2
<1> QED
    BY <1>1, <1>2, GroupInvInductive, PTL DEF GroupSpec

\* Whatever happens between the query and the update: an object that a call
\* for groups counts at its first attempt shows every operation of the group
\* that shares its key with no other: set and tracked, removed, or kept under
\* "skip".  What a group loses it loses by the refetch after a conflict.
THEOREM FirstAttemptLandsCorrect == GroupSpec => FirstAttemptLands
<1>1. ASSUME GroupInv, SayInv, [GroupNext]_groupVars, NEW p \in GroupProcs,
             NEW x \in Resources, Counts(p, x), work[p].attempt = 0
      PROVE  IF work[p].call.op = "remove"
               THEN \A k \in GroupKeys(Group(p)) :
                       Removed(store'[x].ann, k, work[p].call.rule)
               ELSE \A o \in Undisputed(Group(p)) :
                       Done(store'[x].ann, o, work[p].call)
  <2> DEFINE w == work[p]
  <2>1. /\ LocalsOK(w) /\ w \in Locals /\ w.pc = "update" /\ SaysOK(w)
        /\ <<w.num, x>> \in work'[p].done /\ <<w.num, x>> \notin w.done
        /\ DOMAIN work = GroupProcs
    BY <1>1 DEF GroupInv, WorkInv, WorkOK, LocalsOK, SayInv, Counts, At
  <2>2. GroupAct(p)
    BY <1>1, <2>1, OwnLocals
  <2>3. GroupUpdate(p)
    <3>1. ASSUME GroupRefetch(p) PROVE work'[p].done = w.done
      BY <2>1, <3>1 DEF GroupRefetch, Locals
    <3>2. ASSUME GroupUpdateUnanswered(p) \/ GroupUpdateFails(p)
          PROVE  work'[p].done = w.done
      <4>1. \E stop : work'[p] = Failed(w, stop)
        BY <2>1, <3>2, Zenon DEF GroupUpdateUnanswered, GroupUpdateFails, ResourceFails
      <4> QED
        BY <2>1, <4>1, VisitEnds
    <3> QED
      BY <2>1, <2>2, <3>1, <3>2
      DEF GroupAct, GroupStep, GroupCall, GroupMatchCached, GroupMatchMiss,
          GroupMatchList, GroupMatchListFails, GroupCacheResources, ApplyToResource,
          RemoveFromResource, ApplyOperation, OperationFails, OperationsDone, NextGroup,
          At
  <2>4. w.cur = x /\ store' = Written(x, w.copy.ann)
    <3>1. work'[p].done = w.done \cup {<<w.num, w.cur>>}
      BY <2>1, <2>3, VisitEnds DEF GroupUpdate
    <3> QED
      BY <2>1, <2>3, <3>1 DEF GroupUpdate, GroupAccepted
  <2>5. store'[x].ann = w.copy.ann
    BY <1>1, <2>4 DEF Written, GroupInv, Inv, TypeOK, StoreTypeOK
  <2>6. GroupOf(w) = Group(p) /\ ~w.hasErrors /\ SaidSoFar(w)
        /\ (w.call.op # "remove" => w.ops = {})
    BY <2>1, GroupFacts DEF GroupOf, Group, SaysOK, GroupCallType
  <2> QED
    BY <1>1, <2>1, <2>5, <2>6 DEF SaidSoFar
<1>2. ASSUME GroupInv, SayInv, [GroupNext]_groupVars
      PROVE  [\A p \in GroupProcs, x \in Resources :
                Counts(p, x) /\ work[p].attempt = 0 =>
                   IF work[p].call.op = "remove"
                     THEN \A k \in GroupKeys(Group(p)) :
                             Removed(store'[x].ann, k, work[p].call.rule)
                     ELSE \A o \in Undisputed(Group(p)) :
                             Done(store'[x].ann, o, work[p].call)]_groupVars
    BY <1>1, <1>2
<1> QED
    BY <1>2, SayInductive, GroupInvInductive, PTL DEF GroupSpec, FirstAttemptLands

-----------------------------------------------------------------------------
(* The plain calls beside the groups.                                      *)

\* A step of the whole is one of the plain path or leaves its locals alone.
LEMMA GroupStepPlain ==
    ASSUME [GroupNext]_groupVars
    PROVE  [Next]_vars \/ UNCHANGED procVars
BY DEF GroupNext, groupVars

LEMMA TalliesInductive == GroupSpec => [](StrongInv /\ GroupInv)
<1>1. GroupInit => Tallies
    BY DEF GroupInit, Init, Tallies, Tally, NoSnapshot
<1>2. Tallies /\ GroupInv /\ [GroupNext]_groupVars => Tallies'
    BY GroupStepPlain, StepBesideOthers DEF GroupInv, StrongInv
<1>3. Tallies /\ GroupInv => StrongInv
    BY DEF StrongInv, GroupInv
<1> QED
    BY <1>1, <1>2, <1>3, GroupInvInductive, PTL DEF GroupSpec

\* Goroutines that work on annotation groups of the same objects, through the
\* same cache, take nothing from what the calls for plain annotations promise.
THEOREM PlainCallsBesideGroups ==
    GroupSpec => /\ []CopyIsCurrent /\ NoLostUpdate /\ RemovesOnlyOwn
                 /\ ApplyLands /\ SuccessMeansAll
<1>1. StrongInv /\ [GroupNext]_groupVars => [ManagerActs]_vars
    BY GroupStepPlain, StepBesideOthers
<1>2. StrongInv => CopyIsCurrent
    BY DEF StrongInv, Inv
<1> QED
    BY <1>1, <1>2, TalliesInductive, PTL
    DEF GroupSpec, ManagerActs, NoLostUpdate, UpdateKeepsOthers, RemovesOnlyOwn,
        RemoveTakesOwn, ApplyLands, CountedLands, SuccessMeansAll, ReturnAccounts

-----------------------------------------------------------------------------
(* Calls wind down.                                                        *)

\* A plain call has less left to do after each of its steps.
LEMMA PlainStepCounts ==
    ASSUME TypeOK, LoopInv, Tallies, NEW p \in Procs, Step(p)
    PROVE  CloserToReturn(p)
<1>1. ASSUME MatchCached(p) \/ CacheResources(p) PROVE CloserToReturn(p)
    BY <1>1 DEF MatchCached, CacheResources, Matched, TypeOK, CloserToReturn
<1>2. ASSUME \/ MatchMiss(p)
             \/ \E t \in Types : MatchList(p, t) \/ MatchListFails(p, t)
      PROVE  CloserToReturn(p)
    BY <1>2 DEF MatchMiss, MatchList, MatchListFails, TypeOK, CloserToReturn
<1>3. ASSUME NEW x \in Resources, ApplyNext(p, x) \/ RemoveNext(p, x)
      PROVE  CloserToReturn(p)
    BY <1>3 DEF ApplyNext, RemoveNext, TypeOK, CloserToReturn
<1>4. ASSUME pc[p] = "update", NextResource(p) PROVE CloserToReturn(p)
  <2>1. cur[p] \in todo[p]
    BY <1>4 DEF Tallies, Tally
  <2> QED
    BY <1>4, <2>1 DEF NextResource, TypeOK, CloserToReturn
<1>5. ASSUME RetryConflict(p) PROVE CloserToReturn(p)
    BY <1>5, ManagerAssumption DEF RetryConflict, TypeOK, CloserToReturn
<1>6. ASSUME Finish(p) PROVE CloserToReturn(p)
    BY <1>6 DEF Finish, TypeOK, CloserToReturn
<1> QED
    BY <1>1, <1>2, <1>3, <1>4, <1>5, <1>6
    DEF Step, UpdateOK, UpdateUnanswered, Accepted, UpdateFails

\* A visit that ends takes its resource off the list.
LEMMA VisitLeavesLess ==
    ASSUME NEW w \in Locals, w.cur \in w.todo, NEW v,
           v = Counted(w) \/ \E stop : v = Failed(w, stop)
    PROVE  /\ v.pc = "group" /\ v.call = w.call /\ v.num = w.num
           /\ v.todo \subseteq w.todo /\ w.cur \notin v.todo
<1>1. CASE v = Counted(w)
    BY <1>1 DEF Counted, Visited, Locals
<1>2. ASSUME NEW stop, v = Failed(w, stop)
      PROVE  /\ v.pc = "group" /\ v.call = w.call /\ v.num = w.num
             /\ v.todo \subseteq w.todo /\ w.cur \notin v.todo
    BY <1>2 DEF Failed, Visited, Locals
<1> QED
    BY <1>1, <1>2

\* So has a call for groups.
LEMMA GroupStepCounts ==
    ASSUME GroupInv, NEW p \in GroupProcs, GroupStep(p)
    PROVE  GroupCloserToReturn(work[p], work'[p])
<1> DEFINE w == work[p]
           v == work'[p]
<1>0. /\ LocalsOK(w) /\ w \in Locals /\ DOMAIN work = GroupProcs
      /\ w.num \in Nat /\ w.attempt \in Nat /\ MaxRetries \in Nat
      /\ Len(w.call.groups) \in Nat
    BY GroupFacts, ManagerAssumption DEF GroupInv, WorkInv, WorkOK, LocalsOK, Locals
<1>1. ASSUME GroupMatchCached(p) \/ GroupCacheResources(p)
      PROVE  GroupCloserToReturn(w, v)
  <2>1. w.pc \in {"match", "list"} /\ (v.pc = "idle" \/ v.pc = "group")
    BY <1>0, <1>1, IdleOK
    DEF GroupMatchCached, GroupCacheResources, GroupMatched, At, Locals
  <2> QED
    BY <2>1 DEF GroupCloserToReturn
<1>2. ASSUME \/ GroupMatchMiss(p)
             \/ \E t \in Types : GroupMatchList(p, t) \/ GroupMatchListFails(p, t)
      PROVE  GroupCloserToReturn(w, v)
  <2>1. \/ w.pc = "match" /\ v.pc = "list"
        \/ /\ w.pc = "list" /\ v.pc = "list"
           /\ v.todo \subseteq w.todo /\ v.todo # w.todo
    <3>1. CASE GroupMatchMiss(p)
      BY <1>0, <3>1 DEF GroupMatchMiss, At, Locals
    <3>2. ASSUME NEW t \in Types, GroupMatchList(p, t)
          PROVE  /\ w.pc = "list" /\ v.pc = "list"
                 /\ v.todo \subseteq w.todo /\ v.todo # w.todo
      BY <1>0, <3>2 DEF GroupMatchList, At, Locals
    <3>3. ASSUME NEW t \in Types, GroupMatchListFails(p, t)
          PROVE  /\ w.pc = "list" /\ v.pc = "list"
                 /\ v.todo \subseteq w.todo /\ v.todo # w.todo
      BY <1>0, <3>3 DEF GroupMatchListFails, At, Locals
    <3> QED
      BY <1>2, <3>1, <3>2, <3>3
  <2> QED
    BY <2>1 DEF GroupCloserToReturn
<1>3. ASSUME w.pc \in {"group", "operation", "update"}, w.cur \in w.todo,
             v = Counted(w) \/ \E stop : v = Failed(w, stop)
      PROVE  GroupCloserToReturn(w, v)
  <2>1. /\ v.pc = "group" /\ v.call = w.call /\ v.num = w.num
        /\ v.todo \subseteq w.todo /\ v.todo # w.todo
    BY <1>0, <1>3, VisitLeavesLess
  <2> QED
    BY <1>3, <2>1 DEF GroupCloserToReturn
<1>4. ASSUME NEW x \in Resources, ApplyToResource(p, x) PROVE GroupCloserToReturn(w, v)
  <2>1. /\ w.pc = "group" /\ v.pc = "operation" /\ v.call = w.call /\ v.num = w.num
        /\ v.todo = w.todo
    BY <1>0, <1>4 DEF ApplyToResource, At, Locals
  <2> QED
    BY <2>1 DEF GroupCloserToReturn
<1>5. ASSUME NEW x \in Resources, RemoveFromResource(p, x)
      PROVE  GroupCloserToReturn(w, v)
  <2> DEFINE u == [w EXCEPT !.cur = x]
             ann == ungrouped(w.snap[x].ann, Group(p), w.call.rule)
             vr == [w EXCEPT !.pc = "update", !.cur = x, !.attempt = 0,
                             !.copy = [ann |-> ann, rv |-> w.snap[x].rv]]
  <2>1. w.pc = "group" /\ x \in w.todo /\ (v = vr \/ v = Counted(u))
    BY <1>0, <1>5 DEF RemoveFromResource, At
  <2>2. CASE v = vr
    <3>1. v.pc = "update" /\ v.call = w.call /\ v.num = w.num /\ v.todo = w.todo
      BY <1>0, <2>2 DEF Locals
    <3> QED
      BY <2>1, <3>1 DEF GroupCloserToReturn
  <2>3. CASE v = Counted(u)
    <3>1. /\ u \in Locals /\ u.cur = x /\ u.todo = w.todo
          /\ u.call = w.call /\ u.num = w.num
      BY <1>0 DEF Locals
    <3> HIDE DEF u
    <3>2. /\ v.pc = "group" /\ v.call = w.call /\ v.num = w.num
          /\ v.todo \subseteq w.todo /\ x \notin v.todo
      BY <2>1, <2>3, <3>1, VisitLeavesLess
    <3> QED
      BY <2>1, <3>2 DEF GroupCloserToReturn
  <2> QED
    BY <2>1, <2>2, <2>3
<1>6. ASSUME NEW o \in w.ops, ApplyOperation(p, o) \/ OperationFails(p, o)
      PROVE  GroupCloserToReturn(w, v)
  <2>1. /\ w.pc = "operation" /\ v.pc = "operation" /\ v.call = w.call /\ v.num = w.num
        /\ v.todo = w.todo /\ v.ops = w.ops \ {o}
    <3>1. CASE ApplyOperation(p, o)
      BY <1>0, <3>1 DEF ApplyOperation, At, Locals
    <3>2. CASE OperationFails(p, o)
      BY <1>0, <3>2 DEF OperationFails, At, Locals
    <3> QED
      BY <1>6, <3>1, <3>2
  <2>2. v.ops \subseteq w.ops /\ v.ops # w.ops
    BY <1>6, <2>1
  <2> QED
    BY <2>1, <2>2 DEF GroupCloserToReturn
<1>7. ASSUME OperationsDone(p) PROVE GroupCloserToReturn(w, v)
  <2>1. w.pc = "operation" /\ w.cur \in w.todo
    BY <1>0, <1>7 DEF OperationsDone, At, LocalsOK
  <2>2. CASE \E stop : v = Failed(w, stop)
    BY <1>3, <2>1, <2>2
  <2>3. CASE v = [w EXCEPT !.pc = "update"]
    <3>1. v.pc = "update" /\ v.call = w.call /\ v.num = w.num /\ v.todo = w.todo
      BY <1>0, <2>3 DEF Locals
    <3> QED
      BY <2>1, <3>1 DEF GroupCloserToReturn
  <2>4. (\E stop : v = Failed(w, stop)) \/ v = [w EXCEPT !.pc = "update"]
    BY <1>0, <1>7, Zenon DEF OperationsDone, ResourceFails
  <2> QED
    BY <2>2, <2>3, <2>4
<1>8. ASSUME GroupUpdate(p) \/ GroupUpdateUnanswered(p) \/ GroupUpdateFails(p)
      PROVE  GroupCloserToReturn(w, v)
  <2>1. w.pc = "update" /\ w.cur \in w.todo
    BY <1>0, <1>8
    DEF GroupUpdate, GroupUpdateUnanswered, GroupAccepted, GroupUpdateFails, At, LocalsOK
  <2>2. v = Counted(w) \/ \E stop : v = Failed(w, stop)
    BY <1>0, <1>8, Zenon
    DEF GroupUpdate, GroupUpdateUnanswered, GroupUpdateFails, ResourceFails
  <2> QED
    BY <1>3, <2>1, <2>2
<1>9. ASSUME GroupRefetch(p) PROVE GroupCloserToReturn(w, v)
  <2>1. /\ w.pc = "update" /\ v.pc = "update" /\ v.call = w.call /\ v.num = w.num
        /\ v.todo = w.todo /\ v.attempt = w.attempt + 1 /\ w.attempt < MaxRetries - 1
    BY <1>0, <1>9 DEF GroupRefetch, At, Locals
  <2>2. w.attempt < v.attempt /\ v.attempt < MaxRetries
    BY <1>0, <2>1
  <2> QED
    BY <2>1, <2>2 DEF GroupCloserToReturn
<1>10. ASSUME NextGroup(p) PROVE GroupCloserToReturn(w, v)
  <2>1. CASE w.num < Len(w.call.groups)
    <3>1. /\ w.pc = "group" /\ v.pc = "group" /\ v.call = w.call /\ v.num = w.num + 1
      BY <1>0, <1>10, <2>1 DEF NextGroup, At, Locals
    <3>2. w.num < v.num /\ v.num <= Len(w.call.groups)
      BY <1>0, <2>1, <3>1
    <3> QED
      BY <3>1, <3>2 DEF GroupCloserToReturn
  <2>2. CASE ~(w.num < Len(w.call.groups))
    <3>1. v = Idle
      BY <1>0, <1>10, <2>2 DEF NextGroup
    <3> QED
      BY <3>1, IdleOK DEF GroupCloserToReturn
  <2> QED
    BY <2>1, <2>2
<1> QED
    BY <1>1, <1>2, <1>4, <1>5, <1>6, <1>7, <1>8, <1>9, <1>10 DEF GroupStep

\* Every step of a call of either kind brings it closer to its return, whatever
\* happens to the objects meanwhile, and nobody else can set it back: the
\* part of CallsReturn and GroupCallsReturn that does not need fairness.
THEOREM CallsWindDownCorrect == GroupSpec => CallsWindDown
<1>1. ASSUME StrongInv, GroupInv, [GroupNext]_groupVars, NEW p \in Procs,
             pc[p] # "idle", ~Step(p)
      PROVE  UNCHANGED <<pc[p], todo[p], attempt[p]>>
  <2>1. TypeOK
    BY <1>1 DEF GroupInv, Inv
  <2>2. ASSUME NEW q \in Procs, (\E c \in Calls : Call(q, c)) \/ Step(q)
        PROVE  UNCHANGED <<pc[p], todo[p], attempt[p]>>
    <3>1. q # p
      BY <1>1, <2>2 DEF Call
    <3> QED
      BY <2>1, <2>2, <3>1, OthersLocals
  <2>3. CASE UNCHANGED procVars
    BY <2>3 DEF procVars
  <2> QED
    BY <1>1, <2>2, <2>3, GroupStepPlain DEF Next, vars
<1>2. ASSUME GroupInv, [GroupNext]_groupVars, NEW p \in GroupProcs,
             ~At(p, "idle"), ~GroupStep(p)
      PROVE  work'[p] = work[p]
    BY <1>2, OwnLocals DEF GroupAct, GroupCall
<1>3. ASSUME StrongInv, GroupInv, [GroupNext]_groupVars
      PROVE  /\ \A p \in Procs :
                   pc[p] # "idle" =>
                      IF Step(p) THEN CloserToReturn(p)
                                 ELSE UNCHANGED <<pc[p], todo[p], attempt[p]>>
             /\ \A p \in GroupProcs :
                   ~At(p, "idle") =>
                      IF GroupStep(p) THEN GroupCloserToReturn(work[p], work'[p])
                                      ELSE work'[p] = work[p]
    BY <1>1, <1>2, <1>3, PlainStepCounts, GroupStepCounts DEF StrongInv, Inv
<1> QED
    BY <1>3, TalliesInductive, PTL DEF GroupSpec, CallsWindDown
=============================================================================
