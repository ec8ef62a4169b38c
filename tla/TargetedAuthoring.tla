-------------------------- MODULE TargetedAuthoring --------------------------
(* `build-certs --check --module M --build-check-cache local-hit`: the         *)
(* modules named on the command line (targets) are rebuilt from source, the    *)
(* modules they depend on (support) are either checked live or taken from the  *)
(* shared support store.  Three books are kept at once: which modules are      *)
(* live, cached or still pending; how many consumers every retained module     *)
(* still has; and the counters of the summary the command validates at its     *)
(* end.                                                                        *)
(*                                                                             *)
(* Modules are numbered in the package's topological order.  What the store    *)
(* answers is arbitrary: other commands publish into it and it may be lost.    *)
EXTENDS Integers, FiniteSets, FiniteSetsExt

CONSTANTS
    N,             \* modules of the package
    MaxRetained,   \* TARGETED_AUTHORING_CACHE_LIMITS_V1.retained_contexts
    MaxSpecial     \* bound: modules that are not of the Human profile

ASSUME BoundAssumption == {N, MaxRetained, MaxSpecial} \subseteq Nat

Modules == 1 .. N
NoModule == 0

VARIABLES
    plan,        \* the execution plan
    todo,        \* selected modules the driver has not reached
    promoted,    \* support resolved to live and not yet built
    current,     \* the target being built
    keyed,       \* support_key_context is present
    session,     \* the support store session has its toolchain
    keys,        \* publication_keys
    suppressed,  \* publication_suppressed
    forceLive,   \* force_live_local
    pending,     \* pending_contexts: hits not adopted yet
    snapshots,   \* retained_snapshots
    missed,      \* lookup_misses
    live,        \* live_support
    avail,       \* available_modules: direct uses left, 0 when absent
    verified,    \* verified_modules_by_module
    contexts,    \* authoring_contexts (and their source interfaces)
    uses,        \* the lifetime ledger: uses left, 0 when not retained
    consumed,    \* processed_consumers
    adopted,     \* pending_contexts_adopted
    count,       \* the counters of TargetedAuthoringCheckRunState
    result

storeVars == <<keyed, session, keys, suppressed>>
lookupVars == <<forceLive, pending, snapshots, missed>>
producerVars == <<live, avail, verified, contexts, uses, consumed>>
vars == <<plan, todo, promoted, current, storeVars, lookupVars, producerVars,
          adopted, count, result>>

-----------------------------------------------------------------------------
(* The plan.                                                                  *)

Graphs == {deps \in [Modules -> SUBSET Modules] : \A m \in Modules : deps[m] \subseteq 1 .. (m - 1)}

PackageProfiles ==
    {profile \in [Modules -> {"human", "core", "unsupported"}] :
        Cardinality({m \in Modules : profile[m] # "human"}) <= MaxSpecial}

Closures(deps) ==
    LET closure[m \in Modules] == deps[m] \cup UNION {closure[d] : d \in deps[m]}
    IN closure

WithClosure(ms, closure) == ms \cup UNION {closure[m] : m \in ms}

MutNoClosure(post, targets, profile, deps, closure) ==
    LET core == {t \in targets : profile[t] = "core"}
    IN post \cup core \cup UNION {deps[t] : t \in core}

(* Support after the first target, what a core-builder target imports and     *)
(* everything of an unsupported profile is live, with all it depends on; a    *)
(* core-builder target is live itself.                                        *)
ForcedLive(post, targets, profile, deps, closure) ==
    LET core == {t \in targets : profile[t] = "core"}
        selected == WithClosure(targets, closure)
    IN WithClosure(post, closure)
           \cup core \cup WithClosure(UNION {deps[t] : t \in core}, closure)
           \cup WithClosure({m \in selected : profile[m] = "unsupported"}, closure)

MutDirectUses(selected, deps, closure) ==
    [d \in Modules |-> Cardinality({c \in selected : d \in deps[c]})]

PlannedUses(selected, deps, closure) ==
    [d \in Modules |-> Cardinality({c \in selected : d \in closure[c]})]

Plan(deps, closure, targets, profile) ==
    LET selected == WithClosure(targets, closure)
        support == selected \ targets
        post == {m \in support : \E t \in targets : t < m}
        forced == ForcedLive(post, targets, profile, deps, closure)
    IN [deps |-> deps, closure |-> closure, targets |-> targets, support |-> support,
        profile |-> profile, pre |-> support \ post, forced |-> forced,
        eligible |-> support \ (post \cup forced),
        uses |-> PlannedUses(selected, deps, closure)]

\* package_build_import_use_counts: over the whole package, selected or not
ImportUses(m) == Cardinality({c \in Modules : m \in plan.deps[c]})

NoCount ==
    [visitedSupport |-> 0, visitedTargets |-> 0, forcedTargets |-> 0,
     completedSupport |-> 0, completedTargets |-> 0, liveChecks |-> 0,
     hits |-> 0, bypassed |-> 0, misses |-> 0, classified |-> 0,
     ineligible |-> 0, written |-> 0]

Init ==
    \E deps \in Graphs : \E closure \in {Closures(deps)} :
    \E targets \in SUBSET Modules, profile \in PackageProfiles :
        LET p == Plan(deps, closure, targets, profile)
            selected == WithClosure(targets, closure)
        IN /\ \A m \in Modules \ selected : profile[m] = "human"
           /\ plan = p
           /\ todo = selected
           /\ result = "running"
           \* prepare_support_lookup: the store may be unavailable from the start
           /\ \E open \in BOOLEAN :
                  keyed = (open /\ p.eligible # {}) /\ session = (open /\ p.eligible # {})
           /\ forceLive = p.forced
           /\ promoted = {} /\ current = NoModule
           /\ keys = {} /\ suppressed = {}
           /\ pending = {} /\ snapshots = {} /\ missed = {}
           /\ live = {} /\ verified = {} /\ consumed = {}
           /\ avail = [m \in Modules |-> 0]
           /\ uses = [m \in Modules |-> 0]
           /\ contexts = [m \in Modules |-> "none"]
           /\ adopted = FALSE
           /\ count = NoCount

-----------------------------------------------------------------------------
(* The lifetime ledger.  A consumer uses its whole dependency closure once;   *)
(* a module is released from every map with its last use.                     *)

Tally(fields) == [f \in DOMAIN count |-> count[f] + IF f \in fields THEN 1 ELSE 0]

Closing(consumers, d) == Cardinality({c \in consumers : d \in plan.closure[c]})

\* register refuses a second registration, consume_consumer a second use, a
\* dependency that is not retained and an underflow
LedgerAccepts(registered, consumers) ==
    /\ \A m \in registered : uses[m] = 0
    /\ consumers \cap consumed = {}
    /\ \A d \in Modules :
           Closing(consumers, d) <= IF d \in registered THEN plan.uses[d] ELSE uses[d]

LedgerAfter(registered, consumers) ==
    [d \in Modules |->
        (IF d \in registered THEN plan.uses[d] ELSE uses[d]) - Closing(consumers, d)]

Released(registered, consumers) ==
    {d \in Modules : Closing(consumers, d) > 0 /\ LedgerAfter(registered, consumers)[d] = 0}

\* The maps once `added` holds a context of this kind (and, when ordinary, a
\* verified module), `taken` was imported and `released` had its last use.
Retain(added, kind, ordinary, taken, released) ==
    /\ avail' = [m \in Modules |->
                    IF m \in released THEN 0
                    ELSE IF m \in added /\ ordinary THEN ImportUses(m)
                    ELSE IF m \in taken THEN avail[m] - 1
                    ELSE avail[m]]
    /\ verified' = (IF ordinary THEN verified \cup added ELSE verified) \ released
    /\ contexts' = [m \in Modules |->
                       IF m \in released THEN "none" ELSE IF m \in added THEN kind ELSE contexts[m]]

-----------------------------------------------------------------------------
(* Support before the first target: a lookup, then live or pending.           *)

Reached(m) ==
    /\ result = "running" /\ promoted = {} /\ current = NoModule
    /\ todo # {} /\ m = Min(todo)

Visited(m) == Tally({"visitedSupport"} \cup (IF m \in plan.forced THEN {"ineligible"} ELSE {}))

\* What the store may answer for m.
Answers(m) ==
    IF m \notin plan.eligible THEN {"NotAsked"}
    ELSE IF ~ keyed \/ ~ session THEN {"Unavailable"}
    ELSE {"Missing", "Stale", "Invalid", "Unavailable"}
             \cup IF plan.profile[m] = "human" THEN {"Hit", "Unreconstructible"} ELSE {}

Outcome(m, answer) ==
    IF answer = "Hit" /\ Cardinality(pending) + 1 > MaxRetained THEN "Invalid"
    ELSE IF answer = "Hit" /\ ~ plan.deps[m] \subseteq verified \cup pending THEN "Unreconstructible"
    ELSE answer

MutBypassedUncounted(m, outcome, bypassed) ==
    [Visited(m) EXCEPT
        !.misses = @ + IF outcome \in {"Hit", "NotAsked"} THEN 0 ELSE 1,
        !.classified = @ + IF outcome \in {"Stale", "Invalid", "Unreconstructible"} THEN 1 ELSE 0]

LookupCount(m, outcome, bypassed) ==
    [Visited(m) EXCEPT
        !.bypassed = @ + Cardinality(bypassed),
        !.misses = @ + IF outcome \in {"Hit", "NotAsked"} THEN 0 ELSE 1,
        !.classified = @ + IF outcome \in {"Stale", "Invalid", "Unreconstructible"} THEN 1 ELSE 0]

(* resolve_reached_pre_target_support: what is not a hit is built live with   *)
(* everything it depends on, and hits among those are given up.               *)
Promote(m, outcome) == IF outcome = "Hit" THEN {} ELSE {m} \cup plan.closure[m]

VisitPreTarget(m) ==
    /\ Reached(m) /\ m \in plan.pre
    /\ \E answer \in Answers(m) :
           LET outcome == Outcome(m, answer)
               toLive == Promote(m, outcome)
               bypassed == pending \cap toLive
           IN /\ outcome = "NotAsked" => m \in forceLive
              /\ keys' = IF keyed /\ m \in plan.eligible THEN keys \cup {m} ELSE keys
              /\ keyed' = (keyed /\ outcome # "Unavailable")
              /\ session' = (session /\ outcome # "Unavailable")
              /\ suppressed' = suppressed \cup IF outcome = "Unreconstructible" THEN {m} ELSE {}
              /\ missed' = missed \cup IF outcome \in {"Hit", "NotAsked"} THEN {} ELSE {m}
              /\ pending' = (pending \cup IF outcome = "Hit" THEN {m} ELSE {}) \ toLive
              /\ snapshots' = snapshots \cup bypassed \cup IF outcome = "Hit" THEN {} ELSE {m}
              /\ forceLive' = forceLive \cup toLive
              /\ promoted' = toLive \ live
              /\ count' = LookupCount(m, outcome, bypassed)
    /\ todo' = todo \ {m}
    /\ UNCHANGED <<plan, current, producerVars, adopted, result>>

-----------------------------------------------------------------------------
(* Live support: a promoted module, or one after the first target.            *)

\* import_identity_unavailable, live_authoring_context_duplicate,
\* live_support_completed_twice and the ledger's refusals
LiveChecks(m) ==
    /\ \A d \in plan.deps[m] : avail[d] > 0 /\ contexts[d] # "none"
    /\ plan.closure[m] \subseteq verified
    /\ ImportUses(m) > 0
    /\ contexts[m] = "none" /\ m \notin live
    /\ LedgerAccepts({m}, {m})

CheckLive(m) ==
    /\ LiveChecks(m)
    /\ live' = live \cup {m}
    /\ Retain({m}, "live", TRUE, plan.deps[m], Released({m}, {m}))
    /\ uses' = LedgerAfter({m}, {m})
    /\ consumed' = consumed \cup {m}

\* The writer's gate: only Human support whose imports are all live.
Publishable(m) ==
    /\ plan.profile[m] = "human"
    /\ \A d \in plan.deps[m] : contexts[d] # "cached"

Written(m, published) == Tally({"liveChecks", "completedSupport"} \cup IF published THEN {"written"} ELSE {})

BuildPromoted(m) ==
    /\ result = "running" /\ promoted # {} /\ m = Min(promoted)
    /\ m \in snapshots
    /\ CheckLive(m)
    /\ promoted' = promoted \ {m}
    /\ snapshots' = snapshots \ {m}
    /\ IF m \in suppressed \/ m \notin keys \/ ~ session
       THEN count' = Written(m, FALSE) /\ UNCHANGED <<session, suppressed>>
       ELSE IF ~ Publishable(m)
       THEN count' = Written(m, FALSE) /\ suppressed' = suppressed \cup {m} /\ UNCHANGED session
       ELSE /\ \/ count' = Written(m, TRUE) /\ UNCHANGED session
               \/ count' = Written(m, FALSE) /\ UNCHANGED session      \* present, or in conflict
               \/ count' = Written(m, FALSE) /\ session' = FALSE       \* store lost
            /\ UNCHANGED suppressed
    /\ UNCHANGED <<plan, todo, current, keyed, keys, forceLive, pending, missed, adopted, result>>

VisitPostTarget(m) ==
    /\ Reached(m) /\ m \in plan.support \ plan.pre
    /\ CheckLive(m)
    /\ count' = [f \in DOMAIN count |->
                    Visited(m)[f] + IF f \in {"liveChecks", "completedSupport"} THEN 1 ELSE 0]
    /\ todo' = todo \ {m}
    /\ UNCHANGED <<plan, promoted, current, storeVars, lookupVars, adopted, result>>

-----------------------------------------------------------------------------
(* Targets.  The first target that is not forced live adopts every pending    *)
(* hit, in dependency order, before it is compiled.                           *)

Adopts(m) == m \notin plan.forced /\ ~ adopted

\* cached_authoring_context_duplicate, and the ledger's refusals
AdoptionChecks ==
    /\ \A p \in pending : contexts[p] = "none"
    /\ LedgerAccepts(pending, pending)

AdoptCached ==
    /\ AdoptionChecks
    /\ Retain(pending, "cached", FALSE, {}, Released(pending, pending))
    /\ uses' = LedgerAfter(pending, pending)
    /\ consumed' = consumed \cup pending
    /\ count' = [Tally({"visitedTargets"}) EXCEPT
                    !.hits = @ + Cardinality(pending), !.completedSupport = @ + Cardinality(pending)]
    /\ pending' = {} /\ adopted' = TRUE
    /\ UNCHANGED live

AttemptTarget(m) ==
    /\ Reached(m) /\ m \in plan.targets
    /\ IF Adopts(m) THEN AdoptCached
       ELSE /\ count' = Tally({"visitedTargets"} \cup IF m \in plan.forced THEN {"forcedTargets"} ELSE {})
            /\ UNCHANGED <<producerVars, pending, adopted>>
    /\ current' = m
    /\ todo' = todo \ {m}
    /\ UNCHANGED <<plan, promoted, storeVars, forceLive, snapshots, missed, result>>

\* A forced target is built from ordinary imports, a fresh one from contexts.
TargetChecks(m) ==
    /\ IF m \in plan.forced
       THEN (\A d \in plan.deps[m] : avail[d] > 0) /\ plan.closure[m] \subseteq verified
       ELSE \A d \in plan.closure[m] : contexts[d] # "none"
    /\ LedgerAccepts({m}, {m})

BuildTarget(m) ==
    LET forced == m \in plan.forced
        kept == IF plan.uses[m] > 0 THEN {m} ELSE {}
    IN /\ result = "running" /\ m = current
       /\ TargetChecks(m)
       /\ Retain(kept, "fresh", forced, IF forced THEN plan.deps[m] ELSE {}, Released({m}, {m}))
       /\ uses' = LedgerAfter({m}, {m})
       /\ consumed' = consumed \cup {m}
       /\ count' = Tally({"completedTargets"})
       /\ current' = NoModule
       /\ UNCHANGED <<plan, todo, promoted, storeVars, lookupVars, live, adopted, result>>

-----------------------------------------------------------------------------
\* A source, certificate or build is rejected: the command stops where it is.
\* Support was counted as visited before its snapshot was read or its
\* certificate was checked; a target was counted as attempted.
Rejected ==
    /\ result = "running"
    /\ \/ /\ promoted # {} \/ current # NoModule
          /\ UNCHANGED <<count, todo>>
       \/ \E m \in plan.support :
              Reached(m) /\ count' = Visited(m) /\ todo' = todo \ {m}
    /\ result' = "stopped"
    /\ UNCHANGED <<plan, promoted, current, storeVars, lookupVars, producerVars, adopted>>

Complete ==
    /\ result = "running" /\ todo = {} /\ promoted = {} /\ current = NoModule
    /\ result' = "completed"
    /\ UNCHANGED <<plan, todo, promoted, current, storeVars, lookupVars, producerVars, adopted, count>>

Next ==
    \/ \E m \in Modules :
           \/ VisitPreTarget(m) \/ BuildPromoted(m) \/ VisitPostTarget(m)
           \/ AttemptTarget(m) \/ BuildTarget(m)
    \/ Rejected
    \/ Complete

Spec == Init /\ [][Next]_vars

-----------------------------------------------------------------------------
(* Whenever the driver reaches a step, what the plan promised is there: the   *)
(* snapshot of a promoted module, every import of a live module as a live     *)
(* one, every import of a target in the form the target is built from, and a  *)
(* ledger that accepts the registration and the use.  None of the command's   *)
(* `targeted_authoring_plan_invalid` answers can be given, whatever hits,     *)
(* misses and losses the store produced on the way.                           *)
PlanHolds ==
    result = "running" =>
        IF promoted # {} THEN Min(promoted) \in snapshots /\ LiveChecks(Min(promoted))
        ELSE IF current # NoModule THEN TargetChecks(current)
        ELSE \A m \in Modules : Reached(m) =>
                 /\ m \in plan.pre => m \in plan.eligible \cup forceLive
                 /\ m \in plan.support \ plan.pre => LiveChecks(m)
                 /\ m \in plan.targets /\ Adopts(m) => AdoptionChecks

(* A module stays in the maps exactly as long as a selected module that has   *)
(* not been processed depends on it: nothing is released early, and nothing   *)
(* is held after its last consumer, so a completed command holds nothing.     *)
RetainedWhileNeeded ==
    result \in {"running", "completed"} =>
        /\ \A m \in Modules : contexts[m] # "none" <=>
               /\ m \in consumed
               /\ \E c \in (plan.targets \cup plan.support) \ consumed : m \in plan.closure[c]
        /\ result = "completed" =>
               verified = {} /\ pending = {} /\ snapshots = {} /\ \A m \in Modules : avail[m] = 0

(* TargetedAuthoringCheckSummary::validate never refuses the command's own    *)
(* summary, wherever the command stopped: every selected module has one       *)
(* outcome (adopted hit, bypassed hit, miss, ineligible), all but the adopted *)
(* hits were checked live, and the store was written for live modules only.   *)
SummaryConsistent ==
    LET outcomes == count.hits + count.bypassed + count.misses + count.ineligible
        selectedSupport == Cardinality(plan.support)
    IN /\ count.visitedSupport <= selectedSupport
       /\ count.visitedTargets <= Cardinality(plan.targets)
       /\ count.forcedTargets <= Cardinality(plan.targets \cap plan.forced)
       /\ count.completedSupport <= count.visitedSupport
       /\ count.completedTargets <= count.visitedTargets
       /\ count.liveChecks <= count.visitedSupport
       /\ count.written <= count.liveChecks
       /\ outcomes <= count.visitedSupport
       /\ count.classified <= count.misses
       /\ result = "completed" =>
              /\ count.completedSupport = selectedSupport
              /\ count.completedTargets = Cardinality(plan.targets)
              /\ count.forcedTargets = Cardinality(plan.targets \cap plan.forced)
              /\ outcomes = selectedSupport
              /\ count.liveChecks = count.bypassed + count.misses + count.ineligible
=============================================================================
