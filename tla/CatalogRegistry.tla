---------------------------- MODULE CatalogRegistry ----------------------------
(***************************************************************************)
(* The promotion-origin registry and its reconciliation with a changed     *)
(* catalog, as values: which routes a registry makes effective, how two    *)
(* catalogs are compared, which registry reconcile-promotion-origin-       *)
(* registry proposes, and what its validators accept.                      *)
(*                                                                         *)
(* A catalog is a package version with the artifacts of each module.  The  *)
(* artifacts of a module are its body (source, certificate, export, axiom  *)
(* report and theorems) and its side files (meta and replay; 0 stands for  *)
(* the zero hash of absent ones).  A registry is an append-only record:    *)
(* entries that own a module and its first revision, and events that       *)
(* revise, add and retire routes.  Hashes are injective, so the hash of a  *)
(* value is the value.                                                     *)
(***************************************************************************)
EXTENDS Integers, FiniteSets, Sequences, SequencesExt, Functions

CONSTANTS
  MaxEntries,      \* MAX_ENTRIES: entries of a registry
  MaxEvents,       \* MAX_EVENTS: events of a registry
  MaxEventRows,    \* MAX_EVENT_ROWS: rows of one kind in an event
  MaxComparisons   \* MAX_COMPARISONS: rows of an attestation

ASSUME LimitsAssumption ==
  {MaxEntries, MaxEvents, MaxEventRows, MaxComparisons} \subseteq Nat

\* package_revisions: the revision of every module of a catalog.
PackageRevisions(cat) ==
  [m \in DOMAIN cat.rows |->
     [version |-> cat.version, body |-> cat.rows[m].body, side |-> cat.rows[m].side]]

Incomplete(rev) == rev.side = 0

\* A stored revision without side files agrees with any.
SameArtifacts(stored, actual) ==
  stored.body = actual.body /\ stored.side \in {0, actual.side}

SameCompleteArtifacts(left, right) ==
  left.body = right.body /\ left.side = right.side

CompleteLegacy(stored, actual) ==
  IF Incomplete(stored) THEN [stored EXCEPT !.side = actual.side] ELSE stored

-----------------------------------------------------------------------------
\* Routes.  An entry is its own owner: its id is the hash of its content.

Collision == [ok |-> FALSE, routes |-> {}]

\* Two entries for one module collide, whether or not one is retired.  Every
\* entry starts active: the lifecycle field of a version 3 entry, and the legacy
\* targets it leaves unresolved (reserved, never active), have no counterpart.
EntryRoutes(reg) ==
  IF \E a, b \in reg.entries : a # b /\ a.module = b.module
    THEN Collision
    ELSE [ok |-> TRUE,
          routes |-> {[owner |-> e, revision |-> e.first, active |-> TRUE] : e \in reg.entries}]

RevisedRowsFit(routes, rows) ==
  \A row \in rows : \E state \in routes :
    /\ state.owner = row.owner
    /\ state.owner.module = row.module
    /\ state.active
    /\ state.revision = row.was \/ Incomplete(state.revision)
    /\ row.revision.version > state.revision.version

RetiredBy(event) == UNION {change.old : change \in event.lifecycle}

LifecycleFits(routes, event) ==
  LET active == {state.owner : state \in {s \in routes : s.active}}
  IN /\ RetiredBy(event) \subseteq active
     /\ \A c, d \in event.lifecycle : c # d => c.old \cap d.old = {}
     /\ UNION {change.new : change \in event.lifecycle} \subseteq active \ RetiredBy(event)

\* One event of the overlay: revised rows, added rows, then lifecycle changes.
OverlayEvent(entries, acc, event) ==
  IF /\ acc.ok
     /\ RevisedRowsFit(acc.routes, event.revised)
     /\ event.added \subseteq entries
     /\ LifecycleFits(acc.routes, event)
    THEN [ok |-> TRUE,
          routes |-> {LET rows == {row \in event.revised : row.owner = state.owner}
                      IN [owner |-> state.owner,
                          revision |-> IF rows = {} THEN state.revision
                                       ELSE (CHOOSE row \in rows : TRUE).revision,
                          active |-> state.active /\ state.owner \notin RetiredBy(event)] :
                        state \in acc.routes}]
    ELSE Collision

\* The overlay of all events.  The code finally rejects two active routes with
\* one certificate and export: a certificate covers the module's name, so
\* routes that agree on it are routes of one module, which EntryRoutes rejects.
EffectiveRoutes(reg) ==
  LET after[n \in 0..Len(reg.events)] ==
        IF n = 0 THEN EntryRoutes(reg)
                 ELSE OverlayEvent(reg.entries, after[n - 1], reg.events[n])
  IN after[Len(reg.events)]

\* The active route of each module that has one.
ActiveRoutes(reg) ==
  LET active == {state \in EffectiveRoutes(reg).routes : state.active}
  IN [m \in {state.owner.module : state \in active} |->
        CHOOSE state \in active : state.owner.module = m]

-----------------------------------------------------------------------------
\* Validators.

\* validate_event: versions advance, a request comes with lifecycle changes,
\* and no kind of row is over its limit.
EventValid(event) ==
  /\ \A rows \in {event.revised, event.added, event.lifecycle} :
       Cardinality(rows) <= MaxEventRows
  /\ event.target.version > event.previous.version
  /\ (event.request = {}) = (event.lifecycle = {})
  /\ \A row \in event.revised : row.revision.version = event.target.version

\* Each event starts at the target of the one before, or after it.
EventsChained(events) ==
  \A i \in 2..Len(events) :
    /\ events[i].target.version > events[i - 1].target.version
    /\ \/ events[i].previous = events[i - 1].target
       \/ events[i].previous.version > events[i - 1].target.version

ShapeValid(reg) ==
  /\ reg.generation > 0
  /\ Cardinality(reg.entries) <= MaxEntries
  /\ Len(reg.events) <= MaxEvents
  /\ \A i \in DOMAIN reg.events : EventValid(reg.events[i])
  /\ EventsChained(reg.events)
  /\ EffectiveRoutes(reg).ok

\* validate_registry_v3_target: the active routes are the catalog's modules.
OwnsTarget(reg, cat) ==
  LET routes == ActiveRoutes(reg)
      actual == PackageRevisions(cat)
  IN /\ EffectiveRoutes(reg).ok
     /\ DOMAIN routes = DOMAIN actual
     /\ \A m \in DOMAIN routes : SameCompleteArtifacts(routes[m].revision, actual[m])

\* The bytes of an attestation: what the event says, without its own path.
Attestation(event) == Restrict(event, DOMAIN event \ {"out"})

Attested(reg, outs) ==
  \A i \in DOMAIN reg.events : outs[reg.events[i].out] = Attestation(reg.events[i])

\* validate-promotion-origin-registry, for each registry version.
RegistryValid(reg, outs, cat) ==
  IF reg.schema = 3
    THEN ShapeValid(reg) /\ Attested(reg, outs) /\ OwnsTarget(reg, cat)
    ELSE /\ {e.module : e \in reg.entries} = DOMAIN cat.rows
         /\ \A e \in reg.entries : /\ e.first.version <= cat.version
                                   /\ SameArtifacts(e.first, PackageRevisions(cat)[e.module])

Migrate(reg) == [reg EXCEPT !.schema = 3]

\* validate_reconciliation_transition: was[m] is the completed old revision.
TransitionValid(previous, next, was) ==
  LET event == Last(next.events)
      added == next.entries \ previous.entries
      routes == ActiveRoutes(previous)
  IN /\ ShapeValid(Migrate(previous))
     /\ next.events # <<>> /\ Front(next.events) = previous.events
     /\ ShapeValid(next)
     /\ next.generation = previous.generation + 1
     /\ previous.entries \subseteq next.entries
     /\ event.input = previous
     /\ \A row \in event.revised :
          /\ row.module \in DOMAIN routes
          /\ LET stored == routes[row.module].revision
             IN Incomplete(stored) =>
                  row.was = (IF row.module \in DOMAIN was THEN was[row.module] ELSE stored)
     /\ event.added = added

-----------------------------------------------------------------------------
\* The proposed registry.

\* The routes of the registry, legacy revisions completed from the previous
\* package.
CompletedRoutes(reg, previous) ==
  LET actual == PackageRevisions(previous)
      routes == ActiveRoutes(reg)
  IN [m \in DOMAIN routes |->
        IF m \in DOMAIN actual
          THEN [routes[m] EXCEPT !.revision = CompleteLegacy(@, actual[m])]
          ELSE routes[m]]

\* The registry owns exactly the modules of the previous package.
CoversPrevious(reg, previous) ==
  LET actual == PackageRevisions(previous)
      routes == ActiveRoutes(reg)
  IN /\ DOMAIN routes = DOMAIN actual
     /\ \A m \in DOMAIN routes : SameArtifacts(routes[m].revision, actual[m])

\* Mutant: an incomplete legacy revision is left as it is.
MutRevisedIfChanged(reg, previous, cat) ==
  LET old == CompletedRoutes(reg, previous)
      new == PackageRevisions(cat)
  IN {[module |-> m, owner |-> old[m].owner, was |-> old[m].revision, revision |-> new[m]] :
        m \in {n \in DOMAIN old \cap DOMAIN new :
                 ~SameCompleteArtifacts(old[n].revision, new[n])}}

RevisedRows(reg, previous, cat) ==
  LET old == CompletedRoutes(reg, previous)
      new == PackageRevisions(cat)
      stored == ActiveRoutes(reg)
  IN {[module |-> m, owner |-> old[m].owner, was |-> old[m].revision, revision |-> new[m]] :
        m \in {n \in DOMAIN old \cap DOMAIN new :
                 \/ Incomplete(stored[n].revision)
                 \/ ~SameCompleteArtifacts(old[n].revision, new[n])}}

AddedTargets(reg, cat) ==
  {[kind |-> "catalog", module |-> m, first |-> PackageRevisions(cat)[m]] :
     m \in DOMAIN cat.rows \ DOMAIN ActiveRoutes(reg)}

RemovedModules(reg, cat) == DOMAIN ActiveRoutes(reg) \ DOMAIN cat.rows

\* A change request names every removed module once and only added modules.
RequestValid(reg, cat, request) ==
  IF request = {}
    THEN RemovedModules(reg, cat) = {}
    ELSE /\ UNION {change.old : change \in request} = RemovedModules(reg, cat)
         /\ UNION {change.new : change \in request} \subseteq
              DOMAIN cat.rows \ DOMAIN ActiveRoutes(reg)
         /\ \A c, d \in request : c # d => c.old \cap d.old = {} /\ c.new \cap d.new = {}

LifecycleChanges(reg, cat, request) ==
  LET routes == ActiveRoutes(reg)
  IN {[old |-> {routes[m].owner : m \in change.old},
       new |-> {e \in AddedTargets(reg, cat) : e.module \in change.new}] : change \in request}

\* comparison_rows: what happened to each module, with its old and new
\* revision; the optional ones are sets of at most one.
ComparisonRows(old, current, event) ==
  [m \in DOMAIN old \cup DOMAIN current |->
     LET was == IF m \in DOMAIN old THEN {old[m].revision} ELSE {}
         status == IF \E owner \in RetiredBy(event) : owner.module = m THEN "retired"
                   ELSE IF \E row \in event.revised : row.module = m THEN "revised"
                   ELSE IF \E owner \in event.added : owner.module = m THEN "added"
                   ELSE "unchanged"
     IN [status |-> status,
         was |-> was,
         now |-> IF status = "unchanged" THEN was
                 ELSE IF m \in DOMAIN current THEN {current[m]} ELSE {}]]

\* An event with its attestation rows, which fix the payload hash.
WithRows(event) ==
  [event EXCEPT !.rows = ComparisonRows(CompletedRoutes(event.input, event.previous),
                                        PackageRevisions(event.target), event)]

ChangeEvent(reg, cat, args) ==
  WithRows([input |-> reg,
            previous |-> args.previous,
            target |-> cat,
            request |-> args.request,
            out |-> args.out,
            revised |-> RevisedRows(reg, args.previous, cat),
            added |-> AddedTargets(reg, cat),
            lifecycle |-> LifecycleChanges(reg, cat, args.request),
            rows |-> <<>>])

WithEvent(reg, event) ==
  [reg EXCEPT !.generation = @ + 1,
              !.entries = @ \cup event.added,
              !.events = Append(@, event)]

Proposal(reg, cat, args) == WithEvent(Migrate(reg), ChangeEvent(reg, cat, args))

NoCatalogChange(reg, cat, args) ==
  /\ RevisedRows(reg, args.previous, cat) = {}
  /\ AddedTargets(reg, cat) = {}
  /\ args.request = {}

\* The attestation's own check, made when its hash is refreshed.
AttestationFits(event) == Cardinality(DOMAIN event.rows) <= MaxComparisons

\* previous_revision_hashes of the completed routes.
OldRevisions(reg, previous) ==
  LET old == CompletedRoutes(reg, previous) IN [m \in DOMAIN old |-> old[m].revision]

ProposalValid(reg, next) ==
  LET event == Last(next.events)
  IN /\ AttestationFits(event)
     /\ OwnsTarget(next, event.target)
     /\ TransitionValid(reg, next, OldRevisions(reg, event.previous))

-----------------------------------------------------------------------------
\* Going back: the registry before the last event, in the version it had.
Reconstruct(reg, schema) ==
  LET event == Last(reg.events)
  IN [reg EXCEPT !.schema = schema,
                 !.generation = @ - 1,
                 !.entries = @ \ event.added,
                 !.events = Front(@)]

\* The attestation on disk and the registry still describe one transition.
LastTransitionIntact(reg, outs, cat) ==
  LET event == Last(reg.events)
      before == Reconstruct(reg, event.input.schema)
  IN /\ outs[event.out] = Attestation(event)
     /\ CoversPrevious(before, event.previous)
     /\ event.rows = ComparisonRows(CompletedRoutes(before, event.previous),
                                    PackageRevisions(cat), event)
     /\ event.input = before
     /\ OwnsTarget(reg, cat)

\* The arguments are those of the last event.
RepeatsLast(reg, cat, args) ==
  /\ reg.events # <<>>
  /\ LET event == Last(reg.events)
     IN /\ event.previous = args.previous
        /\ event.target = cat
        /\ event.request = args.request
        /\ event.out = args.out

\* What reconcile answers before it writes; "apply" goes on to the writes.
Outcome(reg, outs, cat, args) ==
  CASE ~(cat.version > args.previous.version) -> "not_newer"
    [] cat.version > args.previous.version /\ RepeatsLast(reg, cat, args) ->
         IF LastTransitionIntact(reg, outs, cat) THEN "already_applied" ELSE "partial_apply"
    [] OTHER ->
         IF ~CoversPrevious(reg, args.previous) THEN "previous_target_mismatch"
         ELSE IF ~RequestValid(reg, cat, args.request) THEN "request_invalid"
         ELSE IF NoCatalogChange(reg, cat, args) THEN "no_catalog_change"
         ELSE IF ~ProposalValid(reg, Proposal(reg, cat, args)) THEN "invalid"
         ELSE "apply"

\* recover: what the journal must contain for its registry to be applied.
\* The rows are compared with those of the stored, uncompleted routes.
RecoveryRows(previous, next) ==
  LET event == Last(next.events)
      routes == ActiveRoutes(next)
      rows == ComparisonRows(ActiveRoutes(previous),
                             [m \in DOMAIN routes |-> routes[m].revision], event)
  IN [m \in DOMAIN rows |->
        IF \E row \in event.revised : row.module = m
          THEN [rows[m] EXCEPT !.was = {(CHOOSE row \in event.revised : row.module = m).was}]
          ELSE rows[m]]

JournalAccepted(journal) ==
  LET event == Last(journal.new.events)
      was == [m \in {row.module : row \in event.revised} |->
                (CHOOSE row \in event.revised : row.module = m).was]
  IN /\ TransitionValid(journal.old, journal.new, was)
     /\ event.input = journal.old
     /\ journal.attestation = Attestation(event)
     /\ event.rows = RecoveryRows(journal.old, journal.new)
=============================================================================
