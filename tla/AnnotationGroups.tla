--------------------------- MODULE AnnotationGroups ---------------------------
(***************************************************************************)
(* ApplyAnnotationGroups and RemoveAnnotationGroups of                     *)
(* internal/resource/manager.go, beside the calls for plain annotations.   *)
(* A group is a set of operations; an apply goes through the groups, for   *)
(* each through the resources of its one query, for each through the       *)
(* operations by falling priority, and ends in an update with retries.     *)
(* Neither call touches the ResourceCache after its updates.               *)
(***************************************************************************)
EXTENDS ResourceManager, Sequences

CONSTANTS
    GroupProcs,   \* goroutines that call the manager for groups
    GroupCalls    \* the calls they make

\* The value of a template is the text it expands to; the action "" is "apply".
AnnotationOperation ==
    [key : Keys, value : Values, action : {"apply", "remove"}, priority : Nat]

AnnotationGroup ==
    [operations : (SUBSET AnnotationOperation) \ {{}}, atomic : BOOLEAN]

\* The strategies "priority" and "timestamp" both override.
Resolutions == {"override", "skip"}

GroupCallType ==
    [op : {"apply", "remove"}, rule : Rules, groups : Seq(AnnotationGroup),
     conflictResolution : Resolutions]

ASSUME GroupAssumption ==
    /\ GroupCalls \subseteq GroupCallType /\ GroupCalls # {}
    /\ \A c \in GroupCalls : c.groups # << >>

VARIABLE work   \* the call of each of these goroutines, with its locals

groupVars == <<vars, work>>

\* copy is resourceCopy, with the annotations changed so far; done holds the
\* resources counted in ResourcesAffected, failed the results with Success
\* FALSE, both by the number of their group.
GroupTypeOK ==
    /\ DOMAIN work = GroupProcs
    /\ \A p \in GroupProcs :
          /\ work[p].pc \in {"idle", "match", "list", "group", "operation", "update"}
          /\ work[p].call \in GroupCalls
          /\ IsSnapshot(work[p].snap)
          /\ work[p].num \in 1..Len(work[p].call.groups)
          /\ work[p].todo \subseteq Resources
          /\ work[p].cur \in Resources
          /\ work[p].ops \subseteq work[p].call.groups[work[p].num].operations
          /\ work[p].hasErrors \in BOOLEAN
          /\ work[p].copy \in Object
          /\ work[p].attempt \in 0..(MaxRetries - 1)
          /\ work[p].done \subseteq Nat \X Resources
          /\ work[p].failed \subseteq Nat

\* A goroutine that is not in a call.
Idle ==
    [pc |-> "idle", call |-> CHOOSE c \in GroupCalls : TRUE, snap |-> NoSnapshot,
     num |-> 1, todo |-> {}, cur |-> NoResource, ops |-> {}, hasErrors |-> FALSE,
     copy |-> NoCopy, attempt |-> 0, done |-> {}, failed |-> {}]

GroupInit == Init /\ work = [p \in GroupProcs |-> Idle]

At(p, label) == work[p].pc = label
Group(p) == work[p].call.groups[work[p].num]

-----------------------------------------------------------------------------
(* The changes to the annotations of one object.                           *)

\* shouldOverrideAnnotation
overrides(c) == c.conflictResolution # "skip"

\* Mutants of operated: the strategy is not consulted; an annotation is set
\* without being tracked; a remove does not ask whose annotation it is.
operated_override(a, o, c) ==
    IF o.action = "apply"
      THEN [a EXCEPT !.val[o.key] = o.value, !.track[c.rule] = @ \cup {o.key}]
    ELSE IF a.val[o.key] # NoValue /\ o.key \in a.track[c.rule]
      THEN [a EXCEPT !.val[o.key] = NoValue, !.track[c.rule] = @ \ {o.key}]
    ELSE a

operated_untracked(a, o, c) ==
    IF o.action = "apply"
      THEN IF a.val[o.key] \in {NoValue, o.value} \/ overrides(c)
             THEN [a EXCEPT !.val[o.key] = o.value, !.track[c.rule] = {o.key}]
             ELSE a
    ELSE IF a.val[o.key] # NoValue /\ o.key \in a.track[c.rule]
      THEN [a EXCEPT !.val[o.key] = NoValue, !.track[c.rule] = @ \ {o.key}]
    ELSE a

\* applyAnnotationOperation: an annotation that is already there with another
\* value is skipped or overridden; only tracked annotations are removed.
operated(a, o, c) ==
    IF o.action = "apply"
      THEN IF a.val[o.key] \in {NoValue, o.value} \/ overrides(c)
             THEN [a EXCEPT !.val[o.key] = o.value, !.track[c.rule] = @ \cup {o.key}]
             ELSE a
    ELSE IF a.val[o.key] # NoValue /\ o.key \in a.track[c.rule]
      THEN [a EXCEPT !.val[o.key] = NoValue, !.track[c.rule] = @ \ {o.key}]
    ELSE a

\* The key of every operation of the group, whatever its action.
GroupKeys(g) == {o.key : o \in g.operations}

\* removeAnnotationKeysFromResource: what it deletes ...
ungroupable(a, g, r) == {k \in GroupKeys(g) \cap a.track[r] : a.val[k] # NoValue}

\* ... and the object it writes if there is anything.
ungrouped(a, g, r) ==
    [val   |-> [k \in Keys |-> IF k \in ungroupable(a, g, r) THEN NoValue ELSE a.val[k]],
     track |-> [a.track EXCEPT ![r] = @ \ ungroupable(a, g, r)]]

-----------------------------------------------------------------------------
(* GetMatchingResources                                                    *)

GroupCall(p, c) ==
    /\ At(p, "idle")
    /\ work' = [work EXCEPT ![p] = [@ EXCEPT !.pc = "match", !.call = c]]
    /\ UNCHANGED storeVars

GroupMatched(p, s) ==
    work' = [work EXCEPT ![p] =
               IF DOMAIN s = {}
                 THEN Idle
                 ELSE [@ EXCEPT !.snap = s, !.todo = DOMAIN s, !.pc = "group"]]

GroupMatchCached(p) ==
    /\ At(p, "match")
    /\ cache # NoEntry
    /\ GroupMatched(p, cache)
    /\ UNCHANGED storeVars

GroupMatchMiss(p) ==
    /\ At(p, "match")
    /\ cache = NoEntry
    /\ work' = [work EXCEPT ![p] = [@ EXCEPT !.pc = "list", !.todo = Resources]]
    /\ UNCHANGED storeVars

GroupMatchList(p, t) ==
    /\ At(p, "list")
    /\ OfType(t) \cap work[p].todo # {}
    /\ work' = [work EXCEPT ![p] = [@ EXCEPT !.snap = Listed(work[p].snap, t),
                                             !.todo = work[p].todo \ OfType(t)]]
    /\ UNCHANGED storeVars

GroupMatchListFails(p, t) ==
    /\ At(p, "list")
    /\ OfType(t) \cap work[p].todo # {}
    /\ work' = [work EXCEPT ![p] = [@ EXCEPT !.todo = work[p].todo \ OfType(t)]]
    /\ UNCHANGED storeVars

GroupCacheResources(p) ==
    /\ At(p, "list") /\ work[p].todo = {}
    /\ cache' = work[p].snap
    /\ GroupMatched(p, work[p].snap)
    /\ UNCHANGED <<store, informer>>

-----------------------------------------------------------------------------
(* One resource after the other.                                           *)

\* The loop goes on with the next resource; the locals of the calls for cur
\* are out of scope.
Visited(w) ==
    [w EXCEPT !.pc = "group", !.todo = @ \ {w.cur}, !.cur = NoResource, !.ops = {},
              !.hasErrors = FALSE, !.copy = NoCopy, !.attempt = 0]

\* The resource cur is counted in ResourcesAffected.
Counted(w) == [Visited(w) EXCEPT !.done = @ \cup {<<w.num, w.cur>>}]

\* Mutant of Failed: an atomic group goes on after a failure.
Failed_goeson(w, stop) == [Visited(w) EXCEPT !.failed = @ \cup {w.num}]

\* The group has failed on cur; an atomic one that applies stops.
Failed(w, stop) ==
    [Visited(w) EXCEPT !.failed = @ \cup {w.num}, !.todo = IF stop THEN {} ELSE @]

ResourceFails(p) ==
    work' = [work EXCEPT ![p] = Failed(@, Group(p).atomic /\ @.call.op = "apply")]

ApplyToResource(p, x) ==
    /\ At(p, "group") /\ work[p].call.op = "apply"
    /\ x \in work[p].todo
    /\ work' = [work EXCEPT ![p] =
                  [@ EXCEPT !.pc = "operation", !.cur = x, !.copy = work[p].snap[x],
                            !.ops = Group(p).operations, !.hasErrors = FALSE,
                            !.attempt = 0]]
    /\ UNCHANGED storeVars

\* An operation of the highest priority left; sort.Slice may order equal ones
\* either way.
Foremost(p, o) ==
    o \in work[p].ops /\ \A o2 \in work[p].ops : o2.priority <= o.priority

\* Mutant of ApplyOperation: each operation starts from the object as listed.
ApplyOperation_afresh(p, o) ==
    /\ At(p, "operation") /\ Foremost(p, o)
    /\ work' = [work EXCEPT ![p] =
                  [@ EXCEPT !.copy.ann = operated(work[p].snap[work[p].cur].ann, o, work[p].call),
                            !.ops = work[p].ops \ {o}]]
    /\ UNCHANGED storeVars

ApplyOperation(p, o) ==
    /\ At(p, "operation") /\ Foremost(p, o)
    /\ work' = [work EXCEPT ![p] =
                  [@ EXCEPT !.copy.ann = operated(work[p].copy.ann, o, work[p].call),
                            !.ops = work[p].ops \ {o}]]
    /\ UNCHANGED storeVars

\* Its key, its template or its value is refused.
OperationFails(p, o) ==
    /\ At(p, "operation") /\ Foremost(p, o)
    /\ work' = [work EXCEPT ![p] = [@ EXCEPT !.hasErrors = TRUE, !.ops = work[p].ops \ {o}]]
    /\ UNCHANGED storeVars

\* An object on which one operation failed is not updated at all.
OperationsDone(p) ==
    /\ At(p, "operation") /\ work[p].ops = {}
    /\ IF work[p].hasErrors THEN ResourceFails(p)
                            ELSE work' = [work EXCEPT ![p].pc = "update"]
    /\ UNCHANGED storeVars

RemoveFromResource(p, x) ==
    /\ At(p, "group") /\ work[p].call.op = "remove"
    /\ x \in work[p].todo
    /\ LET o == work[p].snap[x]
           r == work[p].call.rule
       IN  work' = [work EXCEPT ![p] =
              IF ungroupable(o.ann, Group(p), r) # {}
                THEN [@ EXCEPT !.pc = "update", !.cur = x, !.attempt = 0,
                               !.copy = [ann |-> ungrouped(o.ann, Group(p), r), rv |-> o.rv]]
                ELSE Counted([@ EXCEPT !.cur = x])]
    /\ UNCHANGED storeVars

\* Mutant of GroupUpdate: the resource version is not compared.
GroupUpdate_force(p) ==
    /\ At(p, "update")
    /\ store' = Written(work[p].cur, work[p].copy.ann)
    /\ work' = [work EXCEPT ![p] = Counted(@)]
    /\ UNCHANGED <<informer, cache>>

\* The API server takes the update.
GroupAccepted(p) ==
    /\ At(p, "update")
    /\ work[p].copy.rv = store[work[p].cur].rv
    /\ store' = Written(work[p].cur, work[p].copy.ann)
    /\ UNCHANGED <<informer, cache>>

GroupUpdate(p) ==
    /\ GroupAccepted(p)
    /\ work' = [work EXCEPT ![p] = Counted(@)]

\* The answer is lost.
GroupUpdateUnanswered(p) == GroupAccepted(p) /\ ResourceFails(p)

\* Mutant of GroupRefetch: the attempt is not counted.
GroupRefetch_uncounted(p) ==
    /\ At(p, "update")
    /\ work[p].copy.rv # store[work[p].cur].rv
    /\ work[p].attempt < MaxRetries - 1
    /\ work' = [work EXCEPT ![p] = [@ EXCEPT !.copy = Observed(work[p].cur)]]
    /\ UNCHANGED storeVars

\* updateResourceWithRetry refetches into resourceCopy: what the operations
\* had changed on it is gone, and the next attempt writes it as it is.
GroupRefetch(p) ==
    /\ At(p, "update")
    /\ work[p].copy.rv # store[work[p].cur].rv
    /\ work[p].attempt < MaxRetries - 1
    /\ work' = [work EXCEPT ![p] = [@ EXCEPT !.copy = Observed(work[p].cur),
                                             !.attempt = work[p].attempt + 1]]
    /\ UNCHANGED storeVars

\* Mutants of GroupUpdateFails: the failure is counted as a success; the
\* resource stays on the list.
GroupUpdateFails_counted(p) ==
    /\ At(p, "update")
    /\ work' = [work EXCEPT ![p] = Visited(@)]
    /\ UNCHANGED storeVars

GroupUpdateFails_again(p) ==
    /\ At(p, "update")
    /\ work' = [work EXCEPT ![p] = [@ EXCEPT !.pc = "group", !.failed = @ \cup {work[p].num}]]
    /\ UNCHANGED storeVars

\* A conflict at the last attempt, or another error of Update or Get.
GroupUpdateFails(p) ==
    /\ At(p, "update")
    /\ ResourceFails(p)
    /\ UNCHANGED storeVars

\* Mutant of NextGroup: one group too many.
NextGroup_over(p) ==
    /\ At(p, "group") /\ work[p].todo = {}
    /\ work' = [work EXCEPT ![p] =
                  IF work[p].num <= Len(work[p].call.groups)
                    THEN [@ EXCEPT !.num = work[p].num + 1, !.todo = DOMAIN work[p].snap]
                    ELSE Idle]
    /\ UNCHANGED storeVars

\* The next group, on the same resources as they were queried, or the return.
NextGroup(p) ==
    /\ At(p, "group") /\ work[p].todo = {}
    /\ work' = [work EXCEPT ![p] =
                  IF work[p].num < Len(work[p].call.groups)
                    THEN [@ EXCEPT !.num = work[p].num + 1, !.todo = DOMAIN work[p].snap]
                    ELSE Idle]
    /\ UNCHANGED storeVars

-----------------------------------------------------------------------------

GroupStep(p) ==
    \/ GroupMatchCached(p) \/ GroupMatchMiss(p) \/ GroupCacheResources(p)
    \/ \E t \in Types : GroupMatchList(p, t) \/ GroupMatchListFails(p, t)
    \/ \E x \in Resources : ApplyToResource(p, x) \/ RemoveFromResource(p, x)
    \/ \E o \in work[p].ops : ApplyOperation(p, o) \/ OperationFails(p, o)
    \/ OperationsDone(p)
    \/ GroupUpdate(p) \/ GroupUpdateUnanswered(p) \/ GroupRefetch(p) \/ GroupUpdateFails(p)
    \/ NextGroup(p)

GroupNext ==
    \/ Next /\ UNCHANGED work
    \/ /\ \E p \in GroupProcs : (\E c \in GroupCalls : GroupCall(p, c)) \/ GroupStep(p)
       /\ UNCHANGED procVars

GroupSpec == GroupInit /\ [][GroupNext]_groupVars

\* API requests return, for both kinds of calls.
GroupFairSpec ==
    /\ GroupSpec
    /\ \A p \in Procs : WF_groupVars(Step(p) /\ UNCHANGED work)
    /\ \A p \in GroupProcs : WF_groupVars(GroupStep(p) /\ UNCHANGED procVars)

-----------------------------------------------------------------------------
(* Properties.                                                             *)

\* The steps in which an update of p changes object x.
GroupUpdates(p, x) ==
    At(p, "update") /\ work[p].cur = x /\ work'[p].pc = "group" /\ store' # store

\* An accepted update leaves alone what is not the group's: other objects,
\* other keys and the tracking of other rules, whoever wrote them since the
\* object was read.
GroupPreserves ==
    [][\A p \in GroupProcs, x \in Resources :
          GroupUpdates(p, x) =>
             /\ \A y \in Resources \ {x} : store'[y] = store[y]
             /\ \A k \in Keys \ GroupKeys(Group(p)) :
                   store'[x].ann.val[k] = store[x].ann.val[k]
             /\ \A r \in Rules \ {work[p].call.rule} :
                   store'[x].ann.track[r] = store[x].ann.track[r]]_groupVars

\* Under the strategy "skip" an annotation that somebody has set keeps its
\* value, unless the group removes it; a conflict does not open a way round.
SkipKeepsValues ==
    [][\A p \in GroupProcs, x \in Resources, k \in Keys :
          /\ GroupUpdates(p, x) /\ work[p].call.op = "apply"
          /\ work[p].call.conflictResolution = "skip"
          /\ \A o \in Group(p).operations : o.key = k => o.action = "apply"
          /\ store[x].ann.val[k] # NoValue
          => store'[x].ann.val[k] = store[x].ann.val[k]]_groupVars

\* What a rule has put on an object stays removable: a key that was tracked
\* for the rule, or that the update sets, is tracked afterwards or no longer
\* set.  (ApplyAnnotations replaces the list instead, and forgets keys that
\* the rule's spec no longer has.)
GroupTracksAll ==
    [][\A p \in GroupProcs, x \in Resources, k \in Keys :
          /\ GroupUpdates(p, x)
          /\ \/ k \in store[x].ann.track[work[p].call.rule]
             \/ store'[x].ann.val[k] # store[x].ann.val[k]
          => \/ k \in store'[x].ann.track[work[p].call.rule]
             \/ store'[x].ann.val[k] = NoValue]_groupVars

\* An atomic group that has failed on one object writes to no further one.
AtomicStops ==
    [][\A p \in GroupProcs, x \in Resources :
          GroupUpdates(p, x) /\ Group(p).atomic /\ work[p].call.op = "apply" =>
             work[p].num \notin work[p].failed]_groupVars

\* A call whose results all say Success has counted every object of its query
\* in every group.
GroupSuccessMeansAll ==
    [][\A p \in GroupProcs :
          At(p, "group") /\ work'[p].pc = "idle" /\ work[p].failed = {} =>
             work[p].done = (1..Len(work[p].call.groups)) \X DOMAIN work[p].snap]_groupVars

\* Every call for groups returns.
GroupCallsReturn == \A p \in GroupProcs : ~At(p, "idle") ~> At(p, "idle")

\* A call for groups whose locals go from w to v has less left to do: fewer
\* resources to list, or fewer groups, or of the same group fewer resources,
\* or of the same resource fewer operations or attempts.
GroupCloserToReturn(w, v) ==
    LET Fewer(S, T) == S \subseteq T /\ S # T
        looping == {"group", "operation", "update"}
    IN  \/ v.pc = "idle"
        \/ w.pc = "match" /\ v.pc # "match"
        \/ w.pc = "list" /\ v.pc = "group"
        \/ w.pc = "list" /\ v.pc = "list" /\ Fewer(v.todo, w.todo)
        \/ /\ w.pc \in looping /\ v.pc \in looping /\ v.call = w.call
           /\ \/ w.num < v.num /\ v.num <= Len(w.call.groups)
              \/ v.num = w.num /\ Fewer(v.todo, w.todo)
              \/ /\ v.num = w.num /\ v.todo = w.todo
                 /\ \/ w.pc = "group" /\ v.pc # "group"
                    \/ w.pc = "operation" /\ v.pc = "update"
                    \/ w.pc = "operation" /\ v.pc = "operation" /\ Fewer(v.ops, w.ops)
                    \/ /\ w.pc = "update" /\ v.pc = "update"
                       /\ w.attempt < v.attempt /\ v.attempt < MaxRetries

\* No step of a call of either kind is in vain, whatever the others do to the
\* objects: it has less left to do afterwards, and nobody else can give it
\* more.  Resources, groups, operations and attempts are finite in number, so
\* that no call goes on for ever.
CallsWindDown ==
    [][/\ \A p \in Procs :
             pc[p] # "idle" =>
                IF Step(p) THEN CloserToReturn(p)
                           ELSE UNCHANGED <<pc[p], todo[p], attempt[p]>>
       /\ \A p \in GroupProcs :
             ~At(p, "idle") =>
                IF GroupStep(p) THEN GroupCloserToReturn(work[p], work'[p])
                                ELSE work'[p] = work[p]]_groupVars

\* The operations of a group that share their keys with no other.
Undisputed(g) ==
    {o \in g.operations : \A o2 \in g.operations \ {o} : o2.key # o.key}

Removed(a, k, r) == a.val[k] = NoValue \/ k \notin a.track[r]

\* What the operation o of the call c is for has come about in a.
Done(a, o, c) ==
    IF o.action # "apply" THEN Removed(a, o.key, c.rule)
    ELSE IF overrides(c) THEN a.val[o.key] = o.value /\ o.key \in a.track[c.rule]
    ELSE a.val[o.key] # NoValue

\* A call counts the object x after an update.
Counts(p, x) ==
    At(p, "update") /\ <<work[p].num, x>> \in work'[p].done \ work[p].done

\* An object counted at the first attempt carries all the group says without
\* contradicting itself, whatever came between the query and the update: only
\* after a conflict can a counted group be lost.
FirstAttemptLands ==
    [][\A p \in GroupProcs, x \in Resources :
          Counts(p, x) /\ work[p].attempt = 0 =>
             IF work[p].call.op = "remove"
               THEN \A k \in GroupKeys(Group(p)) :
                       Removed(store'[x].ann, k, work[p].call.rule)
               ELSE \A o \in Undisputed(Group(p)) :
                       Done(store'[x].ann, o, work[p].call)]_groupVars

\* "Refetch the resource and reapply annotations" (manager.go:1053): an object
\* counted as affected by an apply carries what the group sets (of groups
\* without skipping and with one operation per key).
GroupLands ==
    [][\A p \in GroupProcs, x \in Resources :
          Counts(p, x) /\ work[p].call.op = "apply" /\ overrides(work[p].call)
          => \A o \in Group(p).operations :
                o.action = "apply" => store'[x].ann.val[o.key] = o.value]_groupVars

\* "Priority defines the precedence order for conflicting annotations (higher
\* wins)" (annotationschedulerule_types.go:72): after an update at the first
\* attempt, the operation that outranks all others on its key has its value
\* there.
HigherWins ==
    [][\A p \in GroupProcs, x \in Resources :
          /\ Counts(p, x) /\ work[p].attempt = 0
          /\ work[p].call.op = "apply" /\ overrides(work[p].call)
          => \A o \in Group(p).operations :
                /\ o.action = "apply"
                /\ \A o2 \in Group(p).operations \ {o} :
                      o2.key = o.key => o2.priority < o.priority
                => store'[x].ann.val[o.key] = o.value]_groupVars
=============================================================================
