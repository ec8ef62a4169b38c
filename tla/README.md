# A TLA+ model of npa-core

npa-core is a certificate-first proof assistant: untrusted tools (frontend,
tactics, search, AI interfaces) produce certificates, and small checkers verify
them, module by module, for a whole package. This directory models the parts of
it in which state, order and interruption matter, checks them with TLC on small
instances and proves the central properties with TLAPS for every instance.

`PROJECT.json` lists the components, the runs, the source lines behind every
definition, the hazards and the theorems.

## The system

| Part | State | Operations | What is hard about it |
|---|---|---|---|
| Package lock graph (`npa-package/lock.rs`) | lock entries, traversal stack, index | resolve imports, order, index | any import graph, cycles, an iterative traversal |
| Verification planning (`lock.rs`, `npa-api/package_verifier.rs`) | index, selection, cache hits | dependency closure, layers, live set | marks set in one pass and read in another |
| Package verifier (`package_verifier.rs`) | results, verified imports, worker threads, use counts | classify, plan, check, merge, retire, report | threads, panics, memo shared between runs |
| Process memo (`package_verifier.rs`) | entries, recency index, byte count, `u64` clock | lookup, insert, clear | limits, wrap-around of the clock |
| Promotion transaction (`npa-cli/package_promotion_materialize.rs`, `package_promotion_transaction.rs`) | target files, transaction directories, journal, lock | apply, rollback, finalize, cleanup, recover | death, power loss or I/O error between any two calls |
| Registry reconciliation (`npa-cli/package_promotion_registry_reconcile.rs`, `npa-package/promotion_registry_v3.rs`) | origin registry, attestations, recovery journal | propose, validate, apply, recover, register an equivalent | a history that must stay extendable; interruption; other writers |
| Governance writer (`npa-cli/governance_writer.rs`) | one canonical file and its sibling lock | lock, compare, publish, sync | competing writers that read before they lock |
| Targeted authoring build (`npa-cli/targeted_authoring_build.rs`) | plan, hits, retained contexts, use ledger, counters | look up, check live, adopt, build targets | three books that must agree whatever the support store answers |
| Universe levels (`npa-kernel/level.rs`, `env.rs`) | constraint closure of a declaration | decompose, close, entail, discharge | an in-place closure; substitution; imax |
| Build-check result cache (`npa-package/build_check_cache.rs`) | content-addressed entries | publish without replacing, read back | concurrent builds |
| Sessions, snapshots, replay (`npa-api`) | snapshot store | create, insert, look up, replay | stale fingerprints, the store's limit |
| Proof-hole scheduler (`npa-api`) | holes and their dependencies | plan, rebase, submit | stale submissions |
| Tactic machine (`npa-tactic`) | goals, metavariables | one operation per tactic | term-level detail |
| The rest of the kernel, certificates, checkers, frontend | terms, environments, bytes | type checking, encoding, parsing | unbounded data, little control |

The first nine are modelled. How they interact: the lock graph gives the order,
planning selects what is checked and in which layers, the verifier executes that
plan and asks the memo, and a promotion adds verified modules to another package.
The registry records where the modules of that package come from, and is
reconciled when its catalog changes; its file is written through the governance
writer. A targeted authoring build is what a developer runs before all that, and
the universe levels are a part of what the verifier's checkers decide.

## Modules

| Module | Models |
|---|---|
| `LockGraph` | `build_indexed_package_lock_graph`: import resolution, depth-first order, cycle report, index |
| `VerificationPlan` | `dependency_closure`, `topological_layers`, live modules beside local audit cache hits; extends `LockGraph` |
| `MCVerificationPlan` | all locks of three modules, and flawed locks |
| `VerificationPlan_proofs` | proofs about `LockGraph` and `VerificationPlan` |
| `PackageVerifier` | layered, serial and reference execution over a shared memo |
| `MCPackageVerifier` | two runs over two packages of three modules |
| `PackageVerifier_proofs` | proofs about `PackageVerifier` |
| `ProcessMemo` | `BoundedPackageVerificationProcessMemo` |
| `LruCache`, `ProcessMemoLru` | what the memo promises, and the refinement mapping |
| `ProcessMemo_proofs` | proofs about `ProcessMemo`, the refinement included |
| `PromotionTransaction` | `materialize-promotion --apply` and `--recover`, one step per system call |
| `AtomicPromotion`, `PromotionAtomicity` | what a promotion promises, and the refinement mapping |
| `PromotionTransaction_proofs`, `PromotionAtomicity_proofs` | the inductive invariant of a promotion, and the proof of the refinement |
| `CatalogRegistry` | registries, routes, events and attestations as data: comparison, proposal, validators, what recovery recomputes |
| `RegistryReconcile` | reconcile `--apply` and `--recover`, and register-equivalent, one step per durable effect; extends `CatalogRegistry` |
| `MCRegistryReconcile` | four releases that revise, retire, rename, bring back and add modules |
| `RegistryReconcile_proofs` | proofs about `RegistryReconcile` |
| `GovernanceWriter` | the writer under the three protocols its callers use |
| `MCGovernanceWriter` | four commands on one artifact |
| `TargetedAuthoring`, `TargetedAuthoring_proofs` | the targeted authoring driver of `build-certs --check --module`; proofs |
| `UniverseClosure` | `UniverseConstraintClosure`: edges, closing row by row, negative cycles |
| `UniverseLevels`, `MCUniverseLevels` | normalization, decomposition of constraints, entailment, discharge at a mention; extends `UniverseClosure` |
| `WriterAndClosure_proofs` | proofs about `GovernanceWriter` and `UniverseClosure` |

### LockGraph and VerificationPlan

Entries are numbered in the order of their names. `Resolve` is
`resolve_lock_entry_imports`; `StartVisit`, `VisitImport` and `Finish` are the
loop bodies of `lock_topological_order` and `visit_lock_entry`; `Index` builds
the index and evaluates its internal checks (phase `broken` if one fails).
Hashes are abstracted to whether an import names the hash its entry has.
In `VerificationPlan`, `Ask` starts a query on a built index, and each `...Step`
is one iteration of the loop it is named after.

### PackageVerifier

Each run has a request: a package (its index is the one `LockGraph` and
`VerificationPlan` compute), a strategy, the bytes supplied, the selection and
the live modules. What a checker says of a certificate is a constant of the
package, and the fast and the reference checker may disagree. `Classify`,
`StartLayer`, `Work`, `Panic`, `Join`, `Merge` and `EndLayer` are the layered
execution; the distribution over shards is any partition into at most `Jobs`
non-empty shards, which covers every result of the cost and memory heuristics.
`Consult`, `Check`, `Skip`, `TakeCached` and `PassBy` are the bodies of the serial
and reference loops. The memo is a set of verdicts from which a lookup may miss
at any time: `ProcessMemo` says which entries are evicted, and nothing here
depends on it.

### ProcessMemo

All operations run under one mutex. An insert takes one step per iteration of
its eviction loop, during which nothing else happens (`op`). `MaxU64` stands for
`u64::MAX`, so the renumbering of `next_recency` is reached. The cumulative
counters, which nothing reads, are left out.

`LruCache` has the resident items and which of two was used less recently, and
neither timestamps nor a byte counter. The mapping of `ProcessMemoLru` counts what an
unfinished insert has removed as still resident, so an insert takes effect in its
last step.

### PromotionTransaction

Every directory has a current state and the set of its states since its last
fsync (images). A dying process leaves the current state; a power loss brings
each directory back as any of its images, independently. A file is `Partial`
until its own fsync. `Fault` is an I/O error at any call. The two promotions add
a file each and regenerate a shared one; `ForeignWrite` is another package
command that replaces the shared file under the lock, as the generated artifact
writer does.

Assumptions: what an earlier process left unsynced is written back before the
next one takes the lock (`WrittenBack`); the directories of the promoted files
exist durably; a directory entry that was fsynced stays.

### CatalogRegistry and RegistryReconcile

A module of a catalog has a body and side files (the meta and replay files); a
stored whole-module entry of the first schemas knows the body only (`Incomplete`),
and `CompletedRoutes` fills in the rest from the previous package.
`EffectiveRoutes` overlays the events on the entries and fails on a collision;
`ChangeEvent` and `Proposal` are what `reconcile` builds, `ProposalValid` and
`TransitionValid` what it then asks of it, `Outcome` the answer. `RecoveryRows` and
`JournalAccepted` are what `recover` recomputes from a journal. Hashes are the
values they are hashes of. The validators' fixed limits (4096 entries, events, rows of
one kind in an event, and rows of an attestation) are the constants `MaxEntries`,
`MaxEvents`, `MaxEventRows` and `MaxComparisons`.

In `RegistryReconcile` a command goes from `WriteJournal` to `SyncRemoval`, and
`BeginRecover` resumes at the place `Disposition` finds by comparing contents.
`files` is what processes see, `disk` the set of states a power loss may leave.
`BeginRegister` is the other writer of the registry: it reads before it takes the
lock and does not look for a journal, as in the code. `Prepare` is a maintainer who
puts the next catalog in place. A command that refuses before its first write is
not a step.

Files have a length, counted in rows of their JSON: entries, equivalent origins and
events with their rows for a registry, compared modules for an attestation, and twice
the sum of the three files it holds in hexadecimal for a journal. The governance writer
refuses more than 128 MiB (`Writable`, `MaxArtifact`); the recovery journal is read, to be
recovered or to be removed, up to 64 MiB (`Readable`, `MaxJournal`). A journal between
the two is written, stays when `apply` has succeeded (it ignores that the removal
failed) and is refused by `recover`.

Assumption: the file system persists renames in order (`Reordered = FALSE`).

### GovernanceWriter

The content of the artifact is the set of commands whose contribution it holds.
`merge` locks, reads and replaces; `replace` reads, locks and replaces if the bytes
are still those it read; `create` writes only a missing file. A command dies
anywhere (its lock is released with it) and may be run again; power is lost at any
time.

### TargetedAuthoring

`Plan` computes the selected modules, the support before the targets, what is
forced live and the planned uses from any import graph, profiles and targets.
`VisitPreTarget` looks support up in the store, whose answer is arbitrary;
a miss promotes the module and the hits it depends on (`Promote`), which
`BuildPromoted` builds. `VisitPostTarget`, `AttemptTarget` (which adopts the pending
hits before the first target that is not forced live), `BuildTarget` and `Complete`
are the remaining steps of the driver, `Rejected` a source, certificate or build
that is refused. `LedgerAccepts` and `LedgerAfter` are the lifetime ledger.

### UniverseClosure and UniverseLevels

A context is built in one step per edge (`AddEdge`) and one per row of the closure
(`CloseRow`), in place, as the nested loops do. `UniverseLevels` decides which edges:
`Decompose` takes the constraints one by one, refuses the unsupported and counts
edges against the limit. `Mention` is a later
declaration, without constraints of its own or with the same ones, that passes
levels for the parameters and must discharge the constraints for them.

## Runs

| Run | Shows | Bounds |
|---|---|---|
| `process_memo` | The index is exact, limits hold, bytes are accounted, the memo implements `LruCache`, inserts complete | 3 keys, 2 entries, weights around the limit 4, `MaxU64` = 5: eviction of several entries, oversize, replacement and renumbering all happen |
| `promotion_transaction` | Promotions are atomic; a recovery refused because of the transaction directory's layout leaves nothing half done (`RefusedIsWhole`; other refusals may, see `promotion_recovery`); the lock is released | 2 promotions, 2 events (death, power loss, error, foreign write): an interrupted rollback of an interrupted apply is included |
| `promotion_recovery` | A violation, see below | 1 event |
| `verification_plan` | Dependency order, cycle, index, verdict, closure, layers and live set are what their definitions ask for; the build ends | every graph of 3 modules: all cycles, diamonds and forests of that size |
| `package_verifier` | Reports are true, verdicts exact, contexts retained exactly, no internal error, runs end | 2 runs, 2 threads, 2 packages (a fork and a chain), bytes that are locked, other or missing |
| `registry_reconcile` | Every event of a registry a power loss can leave has its attestation; every legal change of a catalog can be recorded, unless a retired name is used again, the previous package is older than the last event or a fixed limit is exceeded; the registry only goes forward; a pending journal is worked off unless one of five named obstacles has come up (`Obstructed`: catalog or registry changed since, `--out` taken by other bytes, rows that cannot be rebuilt, a journal too long to be read) | 4 releases with 4 module names, 2 processes, 2 values of `--out`, 2 stops or power losses: an interrupted recovery, and a revision or a rename followed by a retirement, a return or an addition. 3 entries, 2 events, 1 row of a kind; journals are read up to 30 and written up to 36 rows: each of these limits is exceeded in some state, histories of two events pass, and the longest have journals that are written and not read, or not written. The limit on attestation rows (3) is never exceeded alone, as every compared module has an entry |
| `repeated_reconcile`, `journal_recovery` | Violations, see below | the same releases, 1 value of `--out`, limits out of reach, without faults and with 2 |
| `governance_writer` | No update is lost | 4 commands (1 create, 1 replace, 2 merge), any number of deaths and power losses |
| `universe_levels` | The closure is sound while it is built; entailment is sound; unsatisfiability and comparisons of atoms are decided exactly; a mention that is admitted makes true what was accepted before | 3 parameters, so that bounds chain through two nodes; at most 3 of 14 constraints without imax on the left; levels 0 to 5, enough to refute every comparison of atoms that is not entailed (`AtomsDecided`) |
| `imax_constraint` | A violation, see below | 1 constraint with imax on the left |
| `targeted_authoring` | No step finds the plan, the ledger or the maps short of what it needs; contexts are held exactly while needed; the summary always passes its own validation | every import graph of 4 modules, every set of targets, at most 2 modules of another profile, 2 retained contexts: chains, diamonds, a hit given up for a later miss, the limit |

Fairness. A command that holds the target lock goes on with its next call
(`WF(Step)`): a process that is not dead is scheduled. Deaths and errors are never
fair. The memo's insert and the lock build are plain loops on one thread. A
verification run's coordinator goes on, and a started worker ends by finishing
or panicking; a thread that did not start is not waited for.
`LockIsReleased` also rests on the bound on events, as a process cannot fail
for ever. `RecoveryFinishes` assumes that a started reconciliation, recovery or
registration takes its steps (`Scheduled`, weak fairness of `Work` with its enabling
condition, a command that is not idle, written out), and that the maintainer keeps running the recovery
command the tool prints (strong fairness, as other commands may hold the lock
in between); the bound on faults enters in the same way.

Deadlock is checked except where a program that has its answer stops:
`verification_plan`, `package_verifier`, the universe runs and
`targeted_authoring`, and the reconciliation runs, in which the last release may
have been recorded and no command has anything to do.

### The violations

`promotion_recovery`. The comment at the head of `npa-package/src/promotion_transaction.rs` says that the
journal "binds old and new file identities so the CLI can recover
deterministically after interruption". `RecoverySucceeds` states it for one
interruption without foreign writes. TLC finds a process death after the replacement temporary was
created and before its bytes were written: `rollback_transaction` takes a
temporary that has neither the old nor the new hash for a conflict and
`--recover` refuses. An interruption in the middle of `cleanup_transaction` ends
in a refusal as well, since the layout is not exact any more; `RefusedIsWhole`
shows that at that point the package is whole.

`journal_recovery`. `docs/promotion-origin-registry-reconciliation.md` says of the answer
`promotion_recovery_required`: "A tracked write began and recovery must finish."
`JournalRecoverable` asks that `recover` accept the content of every journal
`reconcile` writes. `reconcile` computes the attestation rows from routes completed
with the previous package's side files, `recover` from the stored routes. They
differ when a whole-module route that no event has revised is retired or renamed,
and the journal is then refused. `RecoveryFinishes` has this as one of its obstacles.

`repeated_reconcile`. The same document says: "Apply is idempotent. Repeating the
same command after success returns passed with `already_applied`". When an
equivalent origin was registered in between, the registry rebuilt for the
comparison differs from the event's input and the answer is
`promotion_registry_reconciliation_partial_apply` (`IdempotentApply`).

`imax_constraint`. The comment at `npa-kernel/src/level.rs:790` says that replacing
imax by max on the left "can therefore only reject additional valid constraints; it
cannot admit an invalid one". This holds of obligations (`EntailmentSound` covers
them). The same decomposition is used for a declaration's own constraints, where it
assumes more than the constraint states, while a mention discharges the
constraint as stated. `InstanceSound` holds in `universe_levels` and fails once a
constraint has imax on the left.

## Proofs

`ProcessMemo_proofs` (for all keys, weights, limits below `u64::MAX`):
`TypeCorrect`, `RecencyIndexIsExact`, `EntryLimitHolds`, `BytesAreAccounted`,
`MemoImplementsLru`. The inductive invariant
is the conjunction of the type invariant, the exact index and the entry limit
with the condition under which an insert runs: the index determines the number
of entries, so that an eviction always finds its entry and the renumbered
timestamps are distinct and stay below the clock. For the byte total the sum over the
entries, a fold in an order nobody knows, is shown to be the number of pairs of a key
and a byte of its entry (`FoldIsWeight`), which has no order; each step then adds or
removes the pairs of one key (`Accounted`). For the refinement a third invariant
remembers what the eviction loop has done (`Evictions`): what it removed is older than
what is left, and the last entry it removed would not fit beside what is left. A
lookup is then a hit, the last step of an insert is `LruCache`'s `Put` (a larger set of
the most recent items would hold that last entry), and all other steps of an insert
change nothing (`SameItems`). A fresh timestamp keeps the order of the others also
when it renumbers (`StampOrder`).

`VerificationPlan_proofs`, first part (`LockGraph`, for every lock of any size): `TypeCorrect`,
`OrderIsDependencyFirst`, `ReportedCycleIsReal`, `IndexInvariantsHold`,
`VerdictIsExact`. The inductive invariant says that the stack is a path of imports
holding exactly the entries being visited (`Stack`), that an import a frame has
passed is visited or is the next frame (`Seen`), and that the order holds exactly
the visited entries, once each and after their imports (`Ordered`). That an
indexed lock has no cycle follows from the order: the member of a cycle that is
first in it would need its import before it.

Second part (`VerificationPlan`, for every lock, selection and set of hits):
`SelectionIsExact`, `LayersAreSound`, `LiveSetIsExact`, `PlanFitsVerifier`. The
inductive invariant extends that of `LockGraph`. For each worklist it says that the
set so far lies in every closed set that holds the seeds, and that only entries
still on the list can have neighbours outside; when the list is empty the set is
the least closed one. For the layers it says that an entry's layer is below its
position in the order, which bounds the maximum taken over its imports. The
second loop of the live set starts where the first ended, so the invariant keeps a
witness for what was live at that point (`LiveSeeds`).

`PackageVerifier_proofs` (for all packages,
requests and numbers of entries, runs and threads): `TypeCorrect`,
`NoInternalErrorHolds`, `VerdictsHold`, `RetainedHolds`, `ReportHolds`. They assume
of an index that imports come earlier in the order and in an earlier layer
(`PackageType`), and of a request that the selection and the live modules are closed
under imports and that a local cache hit was a success of the same checker on the
same bytes (`RequestType`). All but the last are results about the plan
(`OrderIsDependencyFirst`, `PlanFitsVerifier`). The inductive
invariant has two parts. A verdict in the memo is a function of its key
(`MemoOK`), so that it does not matter which run left it there, nor what was
evicted. And for each run (`RunOK`): every result so far is right given the others
(`AllRight`); in the layered execution exactly the modules up to the current layer
that are neither pending nor runnable have results, the verified imports are the
passed modules and every runnable module has all of its imports among them; in the
others exactly the modules before the current one have results, and a use count
is the number of imports still to come. That last equation is what makes
retirement exact: a count of one is the last use. A report of success is then
immediate; that good certificates lead to success in the layered execution looks
at the first module that did not pass. The steps of a run leave the other runs'
part alone (`Frame`).

`PromotionTransaction_proofs` and `PromotionAtomicity_proofs` (for any set of
promotions, and any number of deaths, power losses, I/O errors and foreign writes;
each promotion adds one file and regenerates the shared one): `PromotionTypes`,
`PromotionIsAtomic`, `RefusedDirectoriesAreWhole`. `AtomicPromotion` sees the package
as it is once every promotion that can still be rolled back is (`Tree`), and a
promotion as in once its journal can no longer come back as applying. What makes
this a refinement is an invariant on everything a power loss may bring back, not only
on what processes see:
- at most one transaction directory is in any image of its parent, and at most one
  promotion can be rolled back (`DiskInv`);
- its files come back as old or new, or are foreign and fixed; none of them is new
  while its directory or its stores may be missing, and all of them are new in every
  image when the journal may say anything but applying (`FilesOK`). Without the
  second half a power loss could bring back an applying journal whose stores are
  gone, without the third a validated journal over an old file;
- files of no such promotion have one image;
- the holder of the lock is at a place where the rows before the current one are new
  and those after it old, or the reverse when rolling back, in all images
  (`RunOK` and the predicates it names).

`PromotionTransaction_proofs` shows that every step keeps it, `PromotionAtomicity_proofs`
that under it every step is a step of `AtomicPromotion` or changes nothing there: only
`JournalSync` commits, only `SyncStores` ends a rollback, and a power loss changes
neither (`ComesBack`). `RefusedDirectoriesAreWhole` then follows from an invariant of the
abstract tree alone: each step of `AtomicPromotion` leaves it whole (`Whole`), and
where nothing can be rolled back the files are that tree.

`RegistryReconcile_proofs` (for any releases, processes and number of faults):
`AttestationBeforeRegistry`, `RegistryHistoryKept`. They assume that renames persist in
order, the model's assumption, and that the mark for a missing file is not the
content of an attestation. The inductive invariant says of every state a power loss
may leave that its registry is attested and its journal adds one event to a registry
and holds that event's attestation (`StateOK`), and of a command where in its sequence
it is: until it replaces the registry it expects the journal's old one, and from the
write of the attestation to the replacement the attestation is there with the job's
bytes (`ReconcileOK`). `register-equivalent`, which takes no notice of a journal, changes
no event (`RegisterOK`). No fact is needed about which catalogs are compared: a
proposal extends the registry it starts from by one event whatever they are.

`TargetedAuthoring_proofs` (for packages of any size, all import graphs, targets and
profiles, any limit on retained contexts, and whatever the support store answers):
`PlanAlwaysHolds`, `RetentionIsExact`, `SummaryAlwaysValid`. The closure of the imports
is a recursive function; that it exists, and is transitive, is shown from the least
sets that hold a module's imports (`ClosureExists`, `ClosureShape`). The inductive
invariant says three things of a command that has not been stopped. `Books`: every
module reached is processed, a pending hit, promoted or the target at hand, processed
modules depend on processed ones only, and what a promoted module depends on is live
or promoted with it. `Ledger`: what is left of a module's uses, its context and its
place among the verified and the available modules follow from which of its consumers
are still to come. `Counts`: the counters are the sizes of the sets the books hold. The
properties need all three together: giving up a hit takes a module from pending to
promoted, which leaves it buildable only if all it depends on goes with it, keeps the
ledger right only because nobody has used the hit, and is counted as a bypass and
not as a hit. A stopped command keeps the summary it had.

`WriterAndClosure_proofs` holds the proofs of two small components.
`GovernanceWriter` (for all commands and protocols): `NoUpdateIsLost`. The
inductive invariant says that only the holder of the lock is between reading or
comparing and syncing (`Exclusive`), that a command's bytes are what it
captured and its own contribution (`BytesExtend`), and that from the comparison to
the sync nobody else changes the content (`Unchanged`).

`UniverseClosure` (for any number of parameters and any edges, over all
valuations in any set of integers): `ClosureIsSound`, `BoundsOnlyTighten`. Closing a
row adds two bounds that hold, so their sum holds; a valuation that respected a
negative cycle would be below itself.

Only model-checked: liveness (`InsertCompletes`, `LockIsReleased`, `BuildEnds`,
`VerificationEnds`, `RecoveryFinishes`), which the prover cannot do;
`EveryChangeRepresentable`, which says what the fold over a registry's events
gives, an induction over the events; and the properties of `UniverseLevels`, whose
recursive operators on levels are beyond the prover (the completeness of the closure,
`AtomsDecided`, is among them).

## Not modelled

Type checking of terms, encoding, hashing, parsing and elaboration: their difficulty
is in unbounded terms, and a small instance would say little. This holds for the
certificates, the frontend, the tactic machine, the reference and the external
checker and the larger part of the kernel. The reference checker repeats the
kernel's universe algorithm, and the external checker's import traversal is that of
`LockGraph`.

Sessions, snapshots and the proof-hole scheduler: each request is one call on one
thread, checked against a stored fingerprint, and a model would restate single
guards. The build-check result cache: entries are content-addressed and published
by a rename that never replaces, so a race only selects a diagnostic. Search,
solver and AI interfaces produce candidates that are checked again.

In the modelled parts: the computation of a promotion's staged tree; the cost and
memory arithmetic of shards (any partition is allowed); the JSON schemas and path
rules of the registry, the lifecycle field and the unresolved legacy targets of its
entries, the collision of two active routes on certificate and export hashes (they
would be routes of one module), journals of the first version and the `u64` bound of
its generation; the cleanup of a promotion's preparing directory after an error, which no
other command looks at; the support store's keys and byte budgets, the plan's size
limits and external imports of a targeted build; overflow of the closure's `i128`
sums; rendering, diagnostics and measurements.

What the code does that a model assumption hides: a fresh parent directory is not
fsynced (`fs.rs:504`); a governance write that finds identical bytes succeeds
without an fsync (`governance_writer.rs:298`); a rollback that finds the old bytes
does not fsync them (`package_promotion_materialize.rs:2978`). `PROJECT.json` lists
them as hazards without a property.
