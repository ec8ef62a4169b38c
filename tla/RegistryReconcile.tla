--------------------------- MODULE RegistryReconcile ---------------------------
(***************************************************************************)
(* package reconcile-promotion-origin-registry --apply and --recover, with *)
(* package register-equivalent-promotion-origin --apply as another writer  *)
(* of the registry and a maintainer who prepares the next catalog.         *)
(*                                                                         *)
(* Three files matter: the recovery journal, the attestation at --out and  *)
(* the registry.  Each lies in a directory of its own.  files is what      *)
(* processes see and what outlives them; disk is the set of states a power *)
(* loss may leave.  Every write creates a temporary file, syncs it and     *)
(* renames it (one step), then syncs the directory (the next step).        *)
(*                                                                         *)
(* A command that refuses before its first write changes nothing and is    *)
(* not a step.  An I/O error ends a command like its death does (Stop).    *)
(***************************************************************************)
EXTENDS CatalogRegistry

CONSTANTS
  Releases,     \* for each version, the catalogs that may be prepared
  Requests,     \* the change requests a maintainer may write, {} for none
  Declared,     \* the first modules that entered by declaration promotion
  Origins,      \* equivalent source origins that may be registered
  Outs,         \* values of --out
  Processes,    \* running commands
  Nobody,       \* the holder of a free target lock
  NoFile,       \* the content of a file that does not exist
  Reordered,    \* whether the file system may persist renames out of order
  FirstSchema,  \* the version of the first registry
  MaxArtifact,  \* MAX_GOVERNANCE_ARTIFACT_BYTES: the longest file written
  MaxJournal,   \* MAX_RECOVERY_JOURNAL_BYTES: the longest journal read back
  MaxFaults     \* bound on stops and power losses

ASSUME LengthAssumption == {MaxArtifact, MaxJournal} \subseteq Nat
ASSUME BoundAssumption == MaxFaults \in Nat
ASSUME ReorderedAssumption == Reordered \in BOOLEAN
ASSUME NobodyAssumption == Nobody \notin Processes
ASSUME SchemaAssumption == FirstSchema \in 1..3
ASSUME ReleasesAssumption ==
  \A v \in DOMAIN Releases : \A cat \in Releases[v] : cat.version = v

VARIABLES
  catalog,      \* the package at --root
  released,     \* every catalog there has been; --previous-target-root is one
  files,        \* the journal, the attestations and the registry
  disk,         \* the values of files a power loss may leave
  lock,         \* the holder of the exclusive TargetLock
  proc,         \* each process: where it is and what it writes
  faults        \* stops and power losses so far

vars == <<catalog, released, files, disk, lock, proc, faults>>

\* A whole-module entry has no side files in its revision.
FirstEntry(m, row) ==
  [kind |-> IF m \in Declared THEN "declaration" ELSE "source",
   module |-> m,
   first |-> [version |-> 1, body |-> row.body, side |-> IF m \in Declared THEN row.side ELSE 0]]

FirstRegistry(cat) ==
  [schema |-> FirstSchema, generation |-> 1, equivalents |-> {}, events |-> <<>>,
   entries |-> {FirstEntry(m, cat.rows[m]) : m \in DOMAIN cat.rows}]

NoJob == [kind |-> "none"]
Idle == [pc |-> "idle", job |-> NoJob]
JournalOf(job) == [old |-> job.old, new |-> job.new, out |-> job.out,
                   attestation |-> job.attestation]
JobOf(journal) == [kind |-> "reconcile", expected |-> journal.old, old |-> journal.old,
                   new |-> journal.new, out |-> journal.out,
                   attestation |-> journal.attestation]

-----------------------------------------------------------------------------
\* Lengths of the files, in rows of their JSON.

EventLength(event) ==
  1 + Cardinality(event.revised) + Cardinality(event.added) + Cardinality(event.lifecycle)

RegistryLength(reg) ==
  LET events[n \in 0..Len(reg.events)] ==
        IF n = 0 THEN 0 ELSE events[n - 1] + EventLength(reg.events[n])
  IN Cardinality(reg.entries) + Cardinality(reg.equivalents) + events[Len(reg.events)]

AttestationLength(attestation) == 1 + Cardinality(DOMAIN attestation.rows)

\* The journal holds three files in hexadecimal, two digits for a byte.
JournalLength(journal) ==
  2 * (RegistryLength(journal.old) + AttestationLength(journal.attestation)
         + RegistryLength(journal.new))

\* require_governance_artifact_size, before a file is written.
Writable(length) == length <= MaxArtifact

\* The first check of parse_recovery_journal.
Readable(journal) == JournalLength(journal) <= MaxJournal

-----------------------------------------------------------------------------
\* Files.

\* A rename is visible at once.  If renames persist in order, the disk holds
\* some prefix of them; if not, each file is old or new by itself.
Rename(new, f) ==
  /\ files' = [files EXCEPT ![f] = new]
  /\ disk' = disk \cup (IF Reordered THEN {[s EXCEPT ![f] = new] : s \in disk}
                                     ELSE {[files EXCEPT ![f] = new]})

\* sync_all on the directory of f; in order, what came before is there too.
SyncDirectory(f) ==
  /\ disk' = IF Reordered THEN {[s EXCEPT ![f] = files[f]] : s \in disk} ELSE {files}
  /\ UNCHANGED files

GoTo(p, pc) == proc' = [proc EXCEPT ![p].pc = pc]

\* The command ends; dropping the TargetLock releases the flock.
Finish(p) ==
  /\ proc' = [proc EXCEPT ![p] = Idle]
  /\ lock' = IF lock = p THEN Nobody ELSE lock

-----------------------------------------------------------------------------
Init ==
  /\ catalog \in Releases[1]
  /\ released = {catalog}
  /\ files = [journal |-> NoFile, outs |-> [o \in Outs |-> NoFile],
              registry |-> FirstRegistry(catalog)]
  /\ disk = {files}
  /\ lock = Nobody
  /\ proc = [p \in Processes |-> Idle]
  /\ faults = 0

\* The maintainer prepares the next version while no command runs.
Prepare ==
  /\ lock = Nobody
  /\ catalog.version < Len(Releases)
  /\ catalog' \in Releases[catalog.version + 1]
  /\ released' = released \cup {catalog'}
  /\ UNCHANGED <<files, disk, lock, proc, faults>>

\* reconcile --apply up to its first write: lock, pending journal, compare.
BeginReconcile(p, args) ==
  /\ proc[p] = Idle
  /\ lock = Nobody
  /\ files.journal = NoFile
  /\ Outcome(files.registry, files.outs, catalog, args) = "apply"
  /\ lock' = p
  /\ LET next == Proposal(files.registry, catalog, args)
     IN proc' = [proc EXCEPT ![p] =
          [pc |-> "journal",
           job |-> JobOf([old |-> files.registry, new |-> next, out |-> args.out,
                          attestation |-> Attestation(Last(next.events))])]]
  /\ UNCHANGED <<catalog, released, files, disk, faults>>

\* The inputs are read again, then the journal is created if it is not too long
\* to be written.  What it holds is shorter, so that the later writes pass.
WriteJournal(p) ==
  /\ proc[p].pc = "journal"
  /\ IF /\ files.registry = proc[p].job.old
        /\ Last(proc[p].job.new.events).target = catalog
        /\ Writable(JournalLength(JournalOf(proc[p].job)))
       THEN /\ Rename(JournalOf(proc[p].job), "journal")
            /\ GoTo(p, "journal_sync")
            /\ UNCHANGED lock
       ELSE Finish(p) /\ UNCHANGED <<files, disk>>
  /\ UNCHANGED <<catalog, released, faults>>

\* Mutant: the registry is replaced before the attestation is written.
MutRegistryFirst(p) ==
  /\ proc[p].pc = "journal_sync"
  /\ SyncDirectory("journal")
  /\ GoTo(p, "registry")
  /\ UNCHANGED <<catalog, released, lock, faults>>

SyncJournal(p) ==
  /\ proc[p].pc = "journal_sync"
  /\ SyncDirectory("journal")
  /\ GoTo(p, "attestation")
  /\ UNCHANGED <<catalog, released, lock, faults>>

\* CreateOrIdentical: identical bytes are left alone, others are a conflict.
WriteAttestation(p) ==
  /\ proc[p].pc = "attestation"
  /\ LET job == proc[p].job
         found == files.outs[job.out]
     IN \/ /\ found = job.attestation
           /\ GoTo(p, "registry")
           /\ UNCHANGED <<files, disk, lock>>
        \/ /\ found = NoFile
           /\ Rename([files.outs EXCEPT ![job.out] = job.attestation], "outs")
           /\ GoTo(p, "attestation_sync")
           /\ UNCHANGED lock
        \/ /\ found \notin {NoFile, job.attestation}
           /\ Finish(p)
           /\ UNCHANGED <<files, disk>>
  /\ UNCHANGED <<catalog, released, faults>>

SyncAttestation(p) ==
  /\ proc[p].pc = "attestation_sync"
  /\ SyncDirectory("outs")
  /\ GoTo(p, "registry")
  /\ UNCHANGED <<catalog, released, lock, faults>>

\* Mutant: replaced without comparing.
MutReplaceAlways(p) ==
  /\ proc[p].pc = "registry"
  /\ Rename(proc[p].job.new, "registry")
  /\ GoTo(p, "registry_sync")
  /\ UNCHANGED <<lock, catalog, released, faults>>

\* replace_if_unchanged: the registry must still be the one that was read.
ReplaceRegistry(p) ==
  /\ proc[p].pc = "registry"
  /\ IF Writable(RegistryLength(proc[p].job.new)) /\ files.registry = proc[p].job.expected
       THEN /\ Rename(proc[p].job.new, "registry")
            /\ GoTo(p, "registry_sync")
            /\ UNCHANGED lock
       ELSE Finish(p) /\ UNCHANGED <<files, disk>>
  /\ UNCHANGED <<catalog, released, faults>>

SyncRegistry(p) ==
  /\ proc[p].pc = "registry_sync"
  /\ SyncDirectory("registry")
  /\ IF proc[p].job.kind = "register"
       THEN Finish(p)
       ELSE GoTo(p, "validate") /\ UNCHANGED lock
  /\ UNCHANGED <<catalog, released, faults>>

\* validate-promotion-origin-registry; a failure leaves the journal.
ValidateRegistry(p) ==
  /\ proc[p].pc = "validate"
  /\ IF RegistryValid(files.registry, files.outs, catalog)
       THEN GoTo(p, "remove") /\ UNCHANGED lock
       ELSE Finish(p)
  /\ UNCHANGED <<catalog, released, files, disk, faults>>

\* The journal is removed if it can be read and is the one that was written.
RemoveJournal(p) ==
  /\ proc[p].pc = "remove"
  /\ IF files.journal = JournalOf(proc[p].job) /\ Readable(files.journal)
       THEN /\ Rename(NoFile, "journal")
            /\ GoTo(p, "remove_sync")
            /\ UNCHANGED lock
       ELSE Finish(p) /\ UNCHANGED <<files, disk>>
  /\ UNCHANGED <<catalog, released, faults>>

SyncRemoval(p) ==
  /\ proc[p].pc = "remove_sync"
  /\ SyncDirectory("journal")
  /\ Finish(p)
  /\ UNCHANGED <<catalog, released, faults>>

-----------------------------------------------------------------------------
\* reconcile --recover reads the journal before it takes the lock.
BeginRecover(p) ==
  /\ proc[p] = Idle
  /\ files.journal # NoFile
  /\ proc' = [proc EXCEPT ![p] = [pc |-> "recover", job |-> JobOf(files.journal)]]
  /\ UNCHANGED <<catalog, released, files, disk, lock, faults>>

\* Mutant: a registry that is already the proposed one is not recognised.
MutForgetComplete(journal, registry, found) ==
  IF registry # journal.old \/ found \notin {NoFile, journal.attestation}
    THEN "irreconcilable" ELSE "apply"

\* recovery_disposition.
Disposition(journal, registry, found) ==
  IF registry = journal.new
    THEN IF found = journal.attestation THEN "already_complete" ELSE "irreconcilable"
    ELSE IF registry # journal.old \/ found \notin {NoFile, journal.attestation}
           THEN "irreconcilable" ELSE "apply"

\* The checks of recover under the lock.  Its registry replacement expects
\* the bytes it has just read.
DisposeJournal(p) ==
  /\ proc[p].pc = "recover"
  /\ lock = Nobody
  /\ LET journal == JournalOf(proc[p].job)
         disposition == Disposition(journal, files.registry, files.outs[journal.out])
     IN IF /\ Readable(journal)
           /\ disposition # "irreconcilable"
           /\ OwnsTarget(journal.new, catalog)
           /\ JournalAccepted(journal)
          THEN /\ proc' = [proc EXCEPT
                    ![p].pc = IF disposition = "apply" THEN "attestation" ELSE "validate",
                    ![p].job.expected = files.registry]
               /\ lock' = p
          ELSE Finish(p)
  /\ UNCHANGED <<catalog, released, files, disk, faults>>

\* The target lock is held by another command: recover gives up.
RecoverRefused(p) ==
  /\ proc[p].pc = "recover"
  /\ lock # Nobody
  /\ Finish(p)
  /\ UNCHANGED <<catalog, released, files, disk, faults>>

\* The registry with one more equivalent origin; version 1 is migrated.
WithOrigin(reg, origin) ==
  [reg EXCEPT !.schema = IF @ = 1 THEN 2 ELSE @,
              !.generation = @ + 1,
              !.equivalents = @ \cup {origin}]

\* register-equivalent reads the registry before it takes the lock.
BeginRegister(p, origin) ==
  /\ proc[p] = Idle
  /\ origin \notin files.registry.equivalents
  /\ proc' = [proc EXCEPT ![p] =
       [pc |-> "register",
        job |-> [kind |-> "register", expected |-> files.registry,
                 new |-> WithOrigin(files.registry, origin)]]]
  /\ UNCHANGED <<catalog, released, files, disk, lock, faults>>

\* Under the lock it validates the registry against the target.  It does
\* not look for a recovery journal.
ValidateTarget(p) ==
  /\ proc[p].pc = "register"
  /\ lock = Nobody
  /\ IF RegistryValid(files.registry, files.outs, catalog)
       THEN GoTo(p, "registry") /\ lock' = p
       ELSE Finish(p)
  /\ UNCHANGED <<catalog, released, files, disk, faults>>

RegisterRefused(p) ==
  /\ proc[p].pc = "register"
  /\ lock # Nobody
  /\ Finish(p)
  /\ UNCHANGED <<catalog, released, files, disk, faults>>

-----------------------------------------------------------------------------
\* A process dies, or one of its file operations fails.
Stop(p) ==
  /\ proc[p] # Idle
  /\ faults < MaxFaults
  /\ faults' = faults + 1
  /\ Finish(p)
  /\ UNCHANGED <<catalog, released, files, disk>>

PowerLoss ==
  /\ faults < MaxFaults
  /\ faults' = faults + 1
  /\ files' \in disk
  /\ disk' = {files'}
  /\ lock' = Nobody
  /\ proc' = [p \in Processes |-> Idle]
  /\ UNCHANGED <<catalog, released>>

Arguments == [previous : released, request : Requests, out : Outs]

Work(p) ==
  \/ WriteJournal(p) \/ SyncJournal(p)
  \/ WriteAttestation(p) \/ SyncAttestation(p)
  \/ ReplaceRegistry(p) \/ SyncRegistry(p)
  \/ ValidateRegistry(p) \/ RemoveJournal(p) \/ SyncRemoval(p)
  \/ DisposeJournal(p) \/ RecoverRefused(p)
  \/ ValidateTarget(p) \/ RegisterRefused(p)

Next ==
  \/ Prepare
  \/ PowerLoss
  \/ \E p \in Processes :
       \/ \E args \in Arguments : BeginReconcile(p, args)
       \/ BeginRecover(p)
       \/ \E origin \in Origins : BeginRegister(p, origin)
       \/ Work(p)
       \/ Stop(p)

\* Weak fairness of Work(p), which is enabled as long as p is not idle.
Scheduled(p) == []<>(proc[p] = Idle) \/ []<><<Work(p)>>_vars

\* A command that has started takes its steps, and the maintainer runs the
\* recovery command that reconcile prints.
Fairness ==
  /\ \A p \in Processes : Scheduled(p)
  /\ SF_vars(\E p \in Processes : BeginRecover(p))

Spec == Init /\ [][Next]_vars /\ Fairness

-----------------------------------------------------------------------------
\* The registry is replaced last: in every state a power loss may leave,
\* each event of the registry has its attestation, with the bytes that the
\* event fixes, whoever was stopped where and whoever went on.
RegistryAttested ==
  \A s \in disk : Attested(s.registry, s.outs)

Extends(old, new) ==
  /\ new.schema >= old.schema
  /\ new.generation = old.generation + 1
  /\ old.entries \subseteq new.entries
  /\ old.equivalents \subseteq new.equivalents
  /\ IsPrefix(old.events, new.events)

\* No command takes anything out of the registry another one put in: the
\* file only ever goes forward by one generation, with everything the last
\* generation had, unless power is lost.  A stale recovery rolls nothing back.
HistoryKept ==
  [][files'.registry # files.registry =>
       Extends(files.registry, files'.registry) \/ (faults' = faults + 1 /\ files' \in disk)]_vars

\* The names of modules that were retired stay reserved.
Reserved(reg) ==
  {e.module : e \in UNION {RetiredBy(reg.events[i]) : i \in DOMAIN reg.events}}

\* A registry with more entries, events or rows than the validators allow.
Overfull(next) ==
  LET event == Last(next.events)
  IN \/ Cardinality(next.entries) > MaxEntries
     \/ Len(next.events) > MaxEvents
     \/ \E rows \in {event.revised, event.added, event.lifecycle} :
          Cardinality(rows) > MaxEventRows
     \/ Cardinality(DOMAIN event.rows) > MaxComparisons

\* Every change of the catalog can be recorded: when the registry owns the
\* previous package and the request fits, the registry that reconcile builds
\* passes the route overlay and the transition validator, unless a retired
\* name is used again, the previous package is older than the last event, or
\* the new registry is over one of the validators' fixed limits.  (A request
\* file over its own limits is no request that fits.)
EveryChangeRepresentable ==
  (\A p \in Processes : proc[p] = Idle) =>
  \A args \in Arguments :
    Outcome(files.registry, files.outs, catalog, args) = "invalid" =>
      \/ Overfull(Proposal(files.registry, catalog, args))
      \/ {e.module : e \in AddedTargets(files.registry, catalog)} \cap Reserved(files.registry) # {}
      \/ /\ files.registry.events # <<>>
         /\ args.previous # Last(files.registry.events).target
         /\ args.previous.version <= Last(files.registry.events).target.version

\* The journal retires a whole-module route that no event has revised: the
\* stored revision has no side files.
RetiresIncomplete(journal) ==
  \E owner \in RetiredBy(Last(journal.new.events)) :
    /\ owner.kind = "source"
    /\ \A i \in DOMAIN journal.old.events :
         \A row \in journal.old.events[i].revised : row.owner # owner

\* What keeps recover from finishing: the catalog or the registry has been
\* changed since, --out names another file, the rows cannot be rebuilt, or the
\* journal that the writer let pass is too long for the reader.
Obstructed ==
  /\ files.journal # NoFile
  /\ LET journal == files.journal
     IN \/ catalog.rows # Last(journal.new.events).target.rows
        \/ files.registry \notin {journal.old, journal.new}
        \/ files.outs[journal.out] \notin {NoFile, journal.attestation}
        \/ RetiresIncomplete(journal)
        \/ ~Readable(journal)

\* A pending journal is worked off: whatever dies and wherever, if the
\* recovery command is run again and again, either the attestation and the
\* registry are both in place and the journal is gone, or one of the five
\* obstacles has come up.
RecoveryFinishes ==
  files.journal # NoFile ~> (files.journal = NoFile \/ Obstructed)

\* "Repeating the same command after success returns passed with
\* already_applied": as long as the catalog is the target of the last event
\* and nothing is pending, the same arguments are recognised.
IdempotentApply ==
  LET reg == files.registry
      event == Last(reg.events)
  IN (reg.events # <<>> /\ event.target = catalog /\ files.journal = NoFile) =>
       Outcome(reg, files.outs, catalog,
               [previous |-> event.previous, request |-> event.request, out |-> event.out])
         = "already_applied"

\* "A tracked write began and recovery must finish": recover accepts the
\* content of every journal that reconcile writes.
JournalRecoverable ==
  files.journal # NoFile => JournalAccepted(files.journal)
=============================================================================
