---------------------------- MODULE OrphanCleanup ----------------------------
(***************************************************************************)
(* The periodic cleanup of internal/resource/cleanup.go beside the calls   *)
(* for plain annotations: it lists the rules, then the workloads of one    *)
(* type after the other, and deletes the tracking annotations whose rule   *)
(* is not on the list.  The informers' lag shows as the steps of others    *)
(* between its reads; batches only group the loop over the workloads.      *)
(***************************************************************************)
EXTENDS ResourceManager, Sequences

\* A rule's ID, <namespace>/<name>, is the sequence of its parts between
\* hyphens.
ASSUME CleanupAssumption == \A r \in Rules : r \in Seq(STRING) /\ r # << >>

VARIABLES
    rules,     \* the rules in the API server
    cleaner    \* the goroutine of StartCleanupRoutine with its locals

cleanupVars == <<vars, rules, cleaner>>

CleanupTypeOK ==
    /\ rules \subseteq Rules
    /\ cleaner.pc \in {"idle", "types", "batch"}
    /\ cleaner.validRuleIDs \subseteq Rules
    /\ cleaner.types \subseteq Types
    /\ IsSnapshot(cleaner.resources)

CleanupInit ==
    /\ Init
    /\ rules = {}
    /\ cleaner = [pc |-> "idle", validRuleIDs |-> {}, types |-> {},
                  resources |-> NoSnapshot]

\* A user creates a rule; a deleted rule goes away with its finalizer.
CreateRule(r) ==
    /\ r \notin rules
    /\ rules' = rules \cup {r}
    /\ UNCHANGED <<vars, cleaner>>

DeleteRule(r) ==
    /\ r \in rules
    /\ rules' = rules \ {r}
    /\ UNCHANGED <<vars, cleaner>>

-----------------------------------------------------------------------------

hasSchedulerAnnotations(a) == \E r \in Rules : a.track[r] # {}

\* The key scheduler.k8s.io/rule-<id>-annotations, split at hyphens, without
\* the first two parts and the last.  The prefix takes only one of them, so
\* that the second is the first part of the ID itself.
recoveredRuleID(r) == Tail(r)

\* Whose tracking annotations are deleted.
orphaned(a) ==
    {r \in Rules : a.track[r] # {} /\ recoveredRuleID(r) \notin cleaner.validRuleIDs}

cleanedUp(a) == [a EXCEPT !.track = [r \in Rules |-> IF r \in orphaned(a) THEN {} ELSE @[r]]]

\* getValidRuleIDs.  If the list fails the routine waits for the next tick.
getValidRuleIDs ==
    /\ cleaner.pc = "idle"
    /\ cleaner' = [cleaner EXCEPT !.pc = "types", !.validRuleIDs = rules, !.types = Types]
    /\ UNCHANGED <<vars, rules>>

getResourcesWithSchedulerAnnotations(t) ==
    /\ cleaner.pc = "types" /\ t \in cleaner.types
    /\ LET found == {x \in Resources : TypeOf[x] = t /\ hasSchedulerAnnotations(Observed(x).ann)}
       IN  cleaner' = [cleaner EXCEPT !.pc = "batch", !.types = @ \ {t},
                                      !.resources = [x \in found |-> Observed(x)]]
    /\ UNCHANGED <<vars, rules>>

\* A type that cannot be listed is left for the next pass.
getResourcesFails(t) ==
    /\ cleaner.pc = "types" /\ t \in cleaner.types
    /\ cleaner' = [cleaner EXCEPT !.types = @ \ {t}]
    /\ UNCHANGED <<vars, rules>>

\* The batch goes on without x.
NextCleanup(x) ==
    /\ cleaner.pc = "batch" /\ x \in DOMAIN cleaner.resources
    /\ cleaner' = [cleaner EXCEPT !.resources = [y \in DOMAIN @ \ {x} |-> @[y]]]
    /\ UNCHANGED <<informer, cache, procVars, rules>>

\* Mutant of cleanupResourceAnnotations: the resource version is not compared.
cleanupResourceAnnotations_force(x) ==
    /\ NextCleanup(x)
    /\ orphaned(cleaner.resources[x].ann) # {}
    /\ store' = Written(x, cleanedUp(cleaner.resources[x].ann))

\* One update from the listed copy.
cleanupResourceAnnotations(x) ==
    /\ NextCleanup(x)
    /\ orphaned(cleaner.resources[x].ann) # {}
    /\ cleaner.resources[x].rv = store[x].rv
    /\ store' = Written(x, cleanedUp(cleaner.resources[x].ann))

\* Nothing to delete, or the update was refused or failed: logged.
cleanupResourceSkips(x) == NextCleanup(x) /\ UNCHANGED store

cleanupResourceTypeReturn ==
    /\ cleaner.pc = "batch" /\ DOMAIN cleaner.resources = {}
    /\ cleaner' = [cleaner EXCEPT !.pc = "types"]
    /\ UNCHANGED <<vars, rules>>

\* Mutant of CleanupReturn: the routine ends with its first pass.
CleanupReturn_once ==
    /\ cleaner.pc = "types" /\ cleaner.types = {}
    /\ cleaner' = [cleaner EXCEPT !.pc = "stopped"]
    /\ UNCHANGED <<vars, rules>>

\* The end of a pass; the ticker starts the next.
CleanupReturn ==
    /\ cleaner.pc = "types" /\ cleaner.types = {}
    /\ cleaner' = [cleaner EXCEPT !.pc = "idle", !.validRuleIDs = {}]
    /\ UNCHANGED <<vars, rules>>

-----------------------------------------------------------------------------

CleanupStep ==
    \/ getValidRuleIDs \/ cleanupResourceTypeReturn \/ CleanupReturn
    \/ \E t \in Types : getResourcesWithSchedulerAnnotations(t) \/ getResourcesFails(t)
    \/ \E x \in Resources : cleanupResourceAnnotations(x) \/ cleanupResourceSkips(x)

\* Calls are made for rules that exist; they may go on when the rule is gone.
CleanupNext ==
    \/ \E p \in Procs :
          /\ (\E c \in Calls : c.rule \in rules /\ Call(p, c)) \/ Step(p)
          /\ UNCHANGED <<rules, cleaner>>
    \/ StoreEnv /\ UNCHANGED <<procVars, rules, cleaner>>
    \/ \E r \in Rules : CreateRule(r) \/ DeleteRule(r)
    \/ CleanupStep

CleanupSpec == CleanupInit /\ [][CleanupNext]_cleanupVars

-----------------------------------------------------------------------------
(* Properties.                                                             *)

\* The steps in which the cleanup writes x.
Cleans(x) ==
    /\ cleaner.pc = "batch" /\ cleaner' # cleaner
    /\ store'[x] # store[x]

\* The cleanup deletes tracking annotations as a whole and changes nothing
\* else, whatever the manager and other clients wrote since its list.
CleanupPreserves ==
    [][\A x \in Resources :
          Cleans(x) =>
             /\ store'[x].ann.val = store[x].ann.val
             /\ \A r \in Rules : store'[x].ann.track[r] \in {store[x].ann.track[r], {}}
      ]_cleanupVars

\* What is left of a rule that is gone for good goes at last (of a rule whose
\* recovered ID is not that of another rule).
OrphansGo ==
    \A r \in Rules, x \in Resources :
       <>[](r \notin rules /\ recoveredRuleID(r) \notin rules) =>
          <>[](store[x].ann.track[r] = {})

\* "removes annotations from resources where the corresponding rule no longer
\* exists" (cleanup.go:84): the tracking annotations it deletes are of rules
\* that do not exist.
OnlyOrphansGo ==
    [][\A x \in Resources, r \in Rules :
          /\ Cleans(x)
          /\ store[x].ann.track[r] # {} /\ store'[x].ann.track[r] = {}
          => r \notin cleaner.validRuleIDs]_cleanupVars
=============================================================================
