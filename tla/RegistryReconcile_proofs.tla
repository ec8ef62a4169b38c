------------------------ MODULE RegistryReconcile_proofs ------------------------
(***************************************************************************)
(* Proofs about RegistryReconcile, for all catalogs, change requests,      *)
(* processes and any number of faults.  Renames persist in order.          *)
(***************************************************************************)
EXTENDS RegistryReconcile, TLAPS

IsSeq(s) == Len(s) \in Nat /\ s = [i \in 1..Len(s) |-> s[i]]

\* A registry whose events have their attestations at known paths.
RegistryOK(reg) ==
  /\ reg = [schema |-> reg.schema, generation |-> reg.generation, entries |-> reg.entries,
            equivalents |-> reg.equivalents, events |-> reg.events]
  /\ reg.schema \in 1..3
  /\ reg.generation \in Nat
  /\ IsSeq(reg.events)
  /\ \A i \in 1..Len(reg.events) : reg.events[i].out \in Outs

\* A journal adds one event to a registry, and holds its attestation.
JournalOK(j) ==
  /\ RegistryOK(j.old) /\ RegistryOK(j.new)
  /\ Extends(j.old, j.new)
  /\ Len(j.new.events) = Len(j.old.events) + 1
  /\ \A i \in 1..Len(j.old.events) : j.new.events[i] = j.old.events[i]
  /\ j.out \in Outs
  /\ Last(j.new.events).out = j.out
  /\ j.attestation = Attestation(Last(j.new.events))

\* What a power loss may leave.
StateOK(s) ==
  /\ s = [journal |-> s.journal, outs |-> s.outs, registry |-> s.registry]
  /\ s.outs = [o \in Outs |-> s.outs[o]]
  /\ RegistryOK(s.registry)
  /\ Attested(s.registry, s.outs)
  /\ s.journal # NoFile => JournalOK(s.journal)

\* Where a command holds the target lock.
Holding == {"journal", "journal_sync", "attestation", "attestation_sync", "registry",
            "registry_sync", "validate", "remove", "remove_sync"}

\* A reconciliation or its recovery: until it replaces the registry it expects
\* the journal's old one, and the attestation is there before.
ReconcileOK(pr, fs) ==
  LET job == pr.job
  IN /\ pr = [pc |-> pr.pc, job |-> job]
     /\ job.kind = "reconcile"
     /\ job = [kind |-> "reconcile", expected |-> job.expected, old |-> job.old,
               new |-> job.new, out |-> job.out, attestation |-> job.attestation]
     /\ JournalOK(JournalOf(job))
     /\ pr.pc \in Holding \cup {"recover"}
     /\ pr.pc \in {"journal", "journal_sync", "attestation", "attestation_sync", "registry"}
          => job.expected = job.old
     /\ pr.pc \in {"attestation_sync", "registry"} => fs.outs[job.out] = job.attestation

\* A registration changes no event.
RegisterOK(pr) ==
  LET job == pr.job
  IN /\ pr = [pc |-> pr.pc, job |-> job]
     /\ job.kind = "register"
     /\ job = [kind |-> "register", expected |-> job.expected, new |-> job.new]
     /\ RegistryOK(job.expected) /\ RegistryOK(job.new)
     /\ Extends(job.expected, job.new)
     /\ job.new.events = job.expected.events
     /\ pr.pc \in {"register", "registry", "registry_sync"}

ProcOK(pr, fs) == pr = Idle \/ ReconcileOK(pr, fs) \/ RegisterOK(pr)

DiskOK == files \in disk /\ \A s \in disk : StateOK(s)

ProcsOK ==
  /\ lock \in Processes \cup {Nobody}
  /\ proc = [p \in Processes |-> proc[p]]
  /\ \A p \in Processes : /\ proc[p].pc \in Holding <=> lock = p
                          /\ ProcOK(proc[p], files)

\* The inductive invariant: every state a power loss may leave is good, and
\* every command is where the lock lets it be, with a job that fits.
IInv == DiskOK /\ ProcsOK

-----------------------------------------------------------------------------
\* The steps are mostly first-order reasoning.
USE Zenon

\* Sequences of events.
LEMMA SeqIsFunction == ASSUME NEW S, NEW s \in Seq(S) PROVE s \in [1..Len(s) -> S]
BY SMT

LEMMA AppendSeq ==
  ASSUME NEW s, IsSeq(s), NEW e
  PROVE  /\ IsSeq(Append(s, e)) /\ Len(Append(s, e)) = Len(s) + 1
         /\ Append(s, e)[Len(s) + 1] = e
         /\ \A i \in 1..Len(s) : Append(s, e)[i] = s[i]
         /\ IsPrefix(s, Append(s, e))
<1> DEFINE S == {s[i] : i \in 1..Len(s)} \cup {e}
<1>1. s \in Seq(S) /\ e \in S
  <2>1. s \in [1..Len(s) -> S] /\ Len(s) \in Nat
    BY DEF IsSeq
  <2> QED BY SMT, <2>1
<1> HIDE DEF S
<1>2. Append(s, e) \in Seq(S)
  BY SMT, <1>1
<1>3. /\ Len(s) \in Nat /\ Len(Append(s, e)) = Len(s) + 1
      /\ \A i \in 1..Len(s) : Append(s, e)[i] = s[i]
      /\ Append(s, e)[Len(s) + 1] = e
  BY SMT, <1>1
<1>4. IsSeq(Append(s, e))
  <2>1. Append(s, e) \in [1..Len(Append(s, e)) -> S]
    BY <1>2, SeqIsFunction
  <2>2. Append(s, e) = [i \in 1..Len(Append(s, e)) |-> Append(s, e)[i]]
    BY <2>1
  <2> QED BY SMT, <1>3, <2>2 DEF IsSeq
<1>5. SubSeq(s, 1, Len(s)) = SubSeq(Append(s, e), 1, Len(s))
  BY SMT, <1>1, <1>2, <1>3
<1> QED BY SMT, <1>3, <1>4, <1>5 DEF IsPrefix

\* What reconcile proposes extends the registry by one event.
\* The updates of WithEvent, one at a time.
LEMMA ExceptThree ==
  ASSUME NEW r, NEW b1, NEW c1, NEW e1,
         r = [schema |-> r.schema, generation |-> r.generation, entries |-> r.entries,
              equivalents |-> r.equivalents, events |-> r.events]
  PROVE  [r EXCEPT !.generation = b1, !.entries = c1, !.events = e1]
         = [schema |-> r.schema, generation |-> b1, entries |-> c1,
            equivalents |-> r.equivalents, events |-> e1]
<1> DEFINE r1 == [r EXCEPT !.generation = b1]
           r2 == [r1 EXCEPT !.entries = c1]
           r3 == [r2 EXCEPT !.events = e1]
<1>0. [r EXCEPT !.generation = b1, !.entries = c1, !.events = e1] = r3
  OBVIOUS
<1>1. r1 = [schema |-> r.schema, generation |-> b1, entries |-> r.entries,
            equivalents |-> r.equivalents, events |-> r.events]
  BY SMT
<1> HIDE DEF r1
<1>2. r2 = [schema |-> r.schema, generation |-> b1, entries |-> c1,
            equivalents |-> r.equivalents, events |-> r.events]
  BY SMT, <1>1
<1> HIDE DEF r2
<1>3. r3 = [schema |-> r.schema, generation |-> b1, entries |-> c1,
            equivalents |-> r.equivalents, events |-> e1]
  BY SMT, <1>2
<1> QED BY <1>0, <1>3

LEMMA ProposalFits ==
  ASSUME NEW reg, RegistryOK(reg), NEW cat, NEW args, args.out \in Outs
  PROVE  JournalOK([old |-> reg, new |-> Proposal(reg, cat, args), out |-> args.out,
                    attestation |-> Attestation(Last(Proposal(reg, cat, args).events))])
<1> DEFINE event == ChangeEvent(reg, cat, args)
           new == Proposal(reg, cat, args)
<1>1. event.out = args.out
  BY DEF ChangeEvent, WithRows
<1>2. /\ new = [schema |-> 3, generation |-> reg.generation + 1,
                entries |-> reg.entries \cup event.added,
                equivalents |-> reg.equivalents, events |-> Append(reg.events, event)]
  <2>1. Migrate(reg) = [schema |-> 3, generation |-> reg.generation, entries |-> reg.entries,
                        equivalents |-> reg.equivalents, events |-> reg.events]
    BY SMT DEF Migrate, RegistryOK
  <2> DEFINE m == Migrate(reg)
  <2> HIDE DEF event, m
  <2>2. new = [m EXCEPT !.generation = m.generation + 1,
                        !.entries = m.entries \cup event.added,
                        !.events = Append(m.events, event)]
    BY DEF Proposal, WithEvent, event, m
  <2>3. m = [schema |-> m.schema, generation |-> m.generation, entries |-> m.entries,
             equivalents |-> m.equivalents, events |-> m.events]
    BY <2>1 DEF m
  <2> HIDE DEF new
  <2>4. new = [schema |-> m.schema, generation |-> m.generation + 1,
               entries |-> m.entries \cup event.added, equivalents |-> m.equivalents,
               events |-> Append(m.events, event)]
    BY <2>2, <2>3, ExceptThree
  <2> QED BY SMT, <2>1, <2>4 DEF m
<1> HIDE DEF event, new
<1>3. /\ IsSeq(new.events) /\ Len(new.events) = Len(reg.events) + 1
      /\ new.events[Len(reg.events) + 1] = event
      /\ \A i \in 1..Len(reg.events) : new.events[i] = reg.events[i]
      /\ IsPrefix(reg.events, new.events)
  BY SMT, <1>2, AppendSeq DEF RegistryOK
<1>4. Last(new.events) = event
  BY <1>3 DEF Last
<1>5. RegistryOK(new)
  <2>1. \A i \in 1..Len(new.events) : new.events[i].out \in Outs
    <3>1. Len(reg.events) \in Nat
      BY DEF RegistryOK, IsSeq
    <3> QED BY SMT, <1>1, <1>3, <3>1 DEF RegistryOK
  <2> QED BY SMT, <1>2, <1>3, <2>1 DEF RegistryOK
<1>6. Extends(reg, new)
  BY SMT, <1>2, <1>3 DEF Extends, RegistryOK
<1> QED BY <1>1, <1>3, <1>4, <1>5, <1>6 DEF JournalOK, new

LEMMA WithOriginFits ==
  ASSUME NEW reg, RegistryOK(reg), NEW origin
  PROVE  /\ RegistryOK(WithOrigin(reg, origin)) /\ Extends(reg, WithOrigin(reg, origin))
         /\ WithOrigin(reg, origin).events = reg.events
<1> DEFINE new == WithOrigin(reg, origin)
<1>1. new = [schema |-> IF reg.schema = 1 THEN 2 ELSE reg.schema,
             generation |-> reg.generation + 1, entries |-> reg.entries,
             equivalents |-> reg.equivalents \cup {origin}, events |-> reg.events]
  <2> DEFINE r1 == [reg EXCEPT !.schema = IF reg.schema = 1 THEN 2 ELSE reg.schema]
             r2 == [r1 EXCEPT !.generation = reg.generation + 1]
             r3 == [r2 EXCEPT !.equivalents = reg.equivalents \cup {origin}]
  <2>0. new = r3
    BY DEF WithOrigin
  <2>1. r1 = [schema |-> IF reg.schema = 1 THEN 2 ELSE reg.schema,
              generation |-> reg.generation, entries |-> reg.entries,
              equivalents |-> reg.equivalents, events |-> reg.events]
    BY SMT DEF RegistryOK
  <2> HIDE DEF r1
  <2>2. r2 = [schema |-> IF reg.schema = 1 THEN 2 ELSE reg.schema,
              generation |-> reg.generation + 1, entries |-> reg.entries,
              equivalents |-> reg.equivalents, events |-> reg.events]
    BY SMT, <2>1
  <2> HIDE DEF r2
  <2>3. r3 = [schema |-> IF reg.schema = 1 THEN 2 ELSE reg.schema,
              generation |-> reg.generation + 1, entries |-> reg.entries,
              equivalents |-> reg.equivalents \cup {origin}, events |-> reg.events]
    BY SMT, <2>2
  <2> HIDE DEF new, r3
  <2> QED BY <2>0, <2>3
<1> HIDE DEF new
<1>2. IsPrefix(reg.events, new.events)
  BY SMT, <1>1 DEF IsPrefix, RegistryOK, IsSeq
<1> QED BY SMT, <1>1, <1>2 DEF RegistryOK, Extends, new

-----------------------------------------------------------------------------
\* Files.

LEMMA RenameDisk ==
  ASSUME DiskOK, ~Reordered, NEW new, NEW f, Rename(new, f), StateOK(files')
  PROVE  DiskOK'
BY DEF DiskOK, Rename

LEMMA SyncDisk ==
  ASSUME DiskOK, ~Reordered, NEW f, SyncDirectory(f)
  PROVE  DiskOK' /\ files' = files
BY DEF DiskOK, SyncDirectory

LEMMA JournalState ==
  ASSUME NEW s, StateOK(s), NEW j, j # NoFile => JournalOK(j)
  PROVE  StateOK([s EXCEPT !["journal"] = j])
<1> DEFINE t == [s EXCEPT !.journal = j]
<1>1. t = [journal |-> j, outs |-> s.outs, registry |-> s.registry]
  BY SMT DEF StateOK
<1>2. [s EXCEPT !["journal"] = j] = t
  OBVIOUS
<1> HIDE DEF t
<1>3. StateOK(t)
  BY <1>1 DEF StateOK
<1> QED BY <1>2, <1>3

\* An attestation goes where nothing was: no event of the registry had its
\* attestation there.
LEMMA AttestationState ==
  ASSUME NEW s, StateOK(s), NEW o \in Outs, s.outs[o] = NoFile, NEW a,
         \A event : Attestation(event) # NoFile
  PROVE  /\ StateOK([s EXCEPT !["outs"] = [s.outs EXCEPT ![o] = a]])
         /\ [s EXCEPT !["outs"] = [s.outs EXCEPT ![o] = a]].outs[o] = a
<1> DEFINE outs == [s.outs EXCEPT ![o] = a]
           t == [s EXCEPT !.outs = outs]
<1>1. outs = [x \in Outs |-> IF x = o THEN a ELSE s.outs[x]]
  BY DEF StateOK
<1> HIDE DEF outs
<1>2. t = [journal |-> s.journal, outs |-> outs, registry |-> s.registry]
  BY SMT DEF StateOK
<1>0. [s EXCEPT !["outs"] = outs] = t
  OBVIOUS
<1> HIDE DEF t
<1>3. Attested(s.registry, outs)
  <2> SUFFICES ASSUME NEW i \in DOMAIN s.registry.events
               PROVE  outs[s.registry.events[i].out] = Attestation(s.registry.events[i])
    BY DEF Attested
  <2>1. s.outs[s.registry.events[i].out] = Attestation(s.registry.events[i])
    BY DEF StateOK, Attested
  <2>2. DOMAIN s.registry.events = 1..Len(s.registry.events)
    BY DEF StateOK, RegistryOK, IsSeq
  <2>3. s.registry.events[i].out \in Outs
    BY <2>2 DEF StateOK, RegistryOK
  <2>4. s.registry.events[i].out # o
    BY <2>1
  <2> QED BY <1>1, <2>1, <2>3, <2>4
<1>4. StateOK(t) /\ t.outs[o] = a
  BY <1>1, <1>2, <1>3 DEF StateOK
<1> QED BY <1>0, <1>4 DEF outs

LEMMA RegistryState ==
  ASSUME NEW s, StateOK(s), NEW reg, RegistryOK(reg), Attested(reg, s.outs)
  PROVE  StateOK([s EXCEPT !["registry"] = reg])
<1> DEFINE t == [s EXCEPT !.registry = reg]
<1>1. t = [journal |-> s.journal, outs |-> s.outs, registry |-> reg]
  BY SMT DEF StateOK
<1>2. [s EXCEPT !["registry"] = reg] = t
  OBVIOUS
<1> HIDE DEF t
<1>3. StateOK(t)
  BY <1>1 DEF StateOK
<1> QED BY <1>2, <1>3

\* The new registry of a journal is attested when the old one is and the
\* attestation of the last event is in place.
LEMMA NewAttested ==
  ASSUME NEW s, StateOK(s), NEW j, JournalOK(j), s.registry = j.old, s.outs[j.out] = j.attestation
  PROVE  Attested(j.new, s.outs)
<1> SUFFICES ASSUME NEW i \in DOMAIN j.new.events
             PROVE  s.outs[j.new.events[i].out] = Attestation(j.new.events[i])
  BY DEF Attested
<1>1. /\ DOMAIN j.new.events = 1..Len(j.new.events)
      /\ DOMAIN j.old.events = 1..Len(j.old.events)
      /\ Len(j.old.events) \in Nat
  BY DEF JournalOK, RegistryOK, IsSeq
<1>2. CASE i \in 1..Len(j.old.events)
  <2>1. s.outs[j.old.events[i].out] = Attestation(j.old.events[i])
    BY <1>1, <1>2 DEF StateOK, Attested
  <2>2. j.new.events[i] = j.old.events[i]
    BY <1>2 DEF JournalOK
  <2> QED BY <2>1, <2>2
<1>3. CASE i = Len(j.new.events)
  BY <1>3 DEF JournalOK, Last
<1> QED BY SMT, <1>1, <1>2, <1>3 DEF JournalOK

-----------------------------------------------------------------------------
\* Commands.

\* The step of a command that holds the lock, takes it or releases it.
LEMMA HolderStep ==
  ASSUME ProcsOK, NEW p \in Processes, NEW new, proc' = [proc EXCEPT ![p] = new],
         lock \in {p, Nobody}, lock' \in {p, Nobody},
         ProcOK(new, files'), new.pc \in Holding <=> lock' = p
  PROVE  ProcsOK'
<1>1. proc' = [q \in Processes |-> IF q = p THEN new ELSE proc[q]]
  BY DEF ProcsOK
<1>2. ASSUME NEW q \in Processes, q # p
      PROVE  ProcOK(proc[q], files') /\ proc[q].pc \notin Holding
  <2>1. lock # q
    BY <1>2, NobodyAssumption
  <2>2. ProcOK(proc[q], files) /\ proc[q].pc \notin Holding
    BY <2>1 DEF ProcsOK
  <2> QED BY <2>2 DEF ProcOK, ReconcileOK, Holding
<1> QED BY SMT, <1>1, <1>2, NobodyAssumption DEF ProcsOK

\* The end of a command, whoever holds the lock.
LEMMA FinishStep ==
  ASSUME ProcsOK, NEW p \in Processes, Finish(p), UNCHANGED files
  PROVE  ProcsOK'
<1>1. proc' = [q \in Processes |-> IF q = p THEN Idle ELSE proc[q]]
  BY DEF ProcsOK, Finish
<1>2. Idle.pc \notin Holding
  BY DEF Idle, Holding
<1> QED BY <1>1, <1>2, NobodyAssumption DEF ProcsOK, Finish, ProcOK

LEMMA ReconcileMove ==
  ASSUME NEW pr, NEW fs, NEW fs2, NEW pc, ReconcileOK(pr, fs), pc \in Holding,
         pc \in {"journal", "journal_sync", "attestation", "attestation_sync", "registry"}
           => pr.job.expected = pr.job.old,
         pc \in {"attestation_sync", "registry"} => fs2.outs[pr.job.out] = pr.job.attestation
  PROVE  ReconcileOK([pr EXCEPT !.pc = pc], fs2) /\ [pr EXCEPT !.pc = pc].pc = pc
<1>1. [pr EXCEPT !.pc = pc] = [pc |-> pc, job |-> pr.job]
  BY SMT DEF ReconcileOK
<1> QED BY <1>1 DEF ReconcileOK

-----------------------------------------------------------------------------
LEMMA Initially == Init => IInv
<1> SUFFICES ASSUME Init PROVE IInv
  OBVIOUS
<1>1. RegistryOK(FirstRegistry(catalog)) /\ FirstRegistry(catalog).events = << >>
  BY SMT, SchemaAssumption DEF FirstRegistry, RegistryOK, IsSeq
<1>2. StateOK(files)
  BY SMT, <1>1 DEF Init, StateOK, Attested
<1>3. ProcsOK
  BY NobodyAssumption DEF Init, ProcsOK, ProcOK, Idle, Holding
<1> QED BY <1>2, <1>3 DEF Init, IInv, DiskOK

\* A command that is not idle has a job that fits where it is.
LEMMA JobKinds ==
  ASSUME ProcsOK, NEW p \in Processes
  PROVE  /\ proc[p].pc \in Holding <=> lock = p
         /\ proc[p].pc \in {"journal", "journal_sync", "attestation", "attestation_sync",
                           "validate", "remove", "remove_sync", "recover"}
              => ReconcileOK(proc[p], files)
         /\ proc[p].pc = "register" => RegisterOK(proc[p])
         /\ proc[p].pc \in {"registry", "registry_sync"}
              => ReconcileOK(proc[p], files) \/ RegisterOK(proc[p])
<1>1. (proc[p].pc \in Holding <=> lock = p) /\ ProcOK(proc[p], files)
  BY DEF ProcsOK
<1>2. proc[p] = Idle => proc[p].pc = "idle"
  BY SMT DEF Idle
<1>3. RegisterOK(proc[p]) => proc[p].pc \in {"register", "registry", "registry_sync"}
  BY DEF RegisterOK
<1>4. ReconcileOK(proc[p], files) => proc[p].pc # "register"
  BY DEF ReconcileOK, Holding
<1> QED BY <1>1, <1>2, <1>3, <1>4 DEF ProcOK

\* A reconciling holder of the lock moves on.
LEMMA ReconcilerStep ==
  ASSUME ProcsOK, NEW p \in Processes, lock = p, ReconcileOK(proc[p], files),
         NEW pc \in Holding, GoTo(p, pc), UNCHANGED lock,
         pc \in {"journal", "journal_sync", "attestation", "attestation_sync", "registry"}
           => proc[p].job.expected = proc[p].job.old,
         pc \in {"attestation_sync", "registry"}
           => files'.outs[proc[p].job.out] = proc[p].job.attestation
  PROVE  ProcsOK'
<1> DEFINE new == [proc[p] EXCEPT !.pc = pc]
<1>1. proc' = [proc EXCEPT ![p] = new]
  BY DEF GoTo
<1>2. ReconcileOK(new, files') /\ new.pc = pc
  BY ReconcileMove
<1> HIDE DEF new
<1> QED BY <1>1, <1>2, HolderStep DEF ProcOK

LEMMA BeginReconcileStep ==
  ASSUME IInv, ~Reordered, NEW p \in Processes, NEW args, args.out \in Outs, BeginReconcile(p, args)
  PROVE  IInv'
<1> DEFINE next == Proposal(files.registry, catalog, args)
           j == [old |-> files.registry, new |-> next, out |-> args.out,
                 attestation |-> Attestation(Last(next.events))]
           new == [pc |-> "journal", job |-> JobOf(j)]
<1>1. JournalOK(j)
  BY ProposalFits DEF IInv, DiskOK, StateOK
<1>2. proc' = [proc EXCEPT ![p] = new] /\ lock = Nobody /\ lock' = p /\ UNCHANGED <<files, disk>>
  BY DEF BeginReconcile
<1> HIDE DEF next, j
<1>3. ReconcileOK(new, files')
  <2>1. new.job = JobOf(j) /\ new.pc = "journal"
    OBVIOUS
  <2>2. JournalOK(JournalOf(JobOf(j)))
    BY <1>1 DEF JournalOf, JobOf, JournalOK
  <2> QED BY <2>1, <2>2 DEF ReconcileOK, Holding, JobOf
<1>4. new.pc \in Holding
  BY DEF Holding
<1> HIDE DEF new
<1>5. ProcsOK'
  BY <1>2, <1>3, <1>4, HolderStep DEF IInv, ProcOK
<1> QED BY <1>2, <1>5 DEF IInv, DiskOK

LEMMA BeginRecoverStep ==
  ASSUME IInv, NEW p \in Processes, BeginRecover(p)
  PROVE  IInv'
<1> DEFINE new == [pc |-> "recover", job |-> JobOf(files.journal)]
<1>1. /\ proc' = [proc EXCEPT ![p] = new] /\ UNCHANGED <<files, disk, lock>>
      /\ files.journal # NoFile
  BY DEF BeginRecover
<1>2. ReconcileOK(new, files)
  <2>1. JournalOK(files.journal)
    BY <1>1 DEF IInv, DiskOK, StateOK
  <2>2. JournalOK(JournalOf(JobOf(files.journal)))
    BY <2>1 DEF JournalOf, JobOf, JournalOK
  <2>3. new.job = JobOf(files.journal) /\ new.pc = "recover"
    OBVIOUS
  <2> QED BY <2>2, <2>3 DEF ReconcileOK, Holding, JobOf
<1>3. new.pc \notin Holding /\ proc[p].pc \notin Holding
  BY SMT DEF Holding, BeginRecover, Idle
<1> HIDE DEF new
<1>4. proc' = [q \in Processes |-> IF q = p THEN new ELSE proc[q]]
  BY <1>1 DEF IInv, ProcsOK
<1>5. ProcsOK'
  BY <1>1, <1>2, <1>3, <1>4 DEF IInv, ProcsOK, ProcOK
<1> QED BY <1>1, <1>5 DEF IInv, DiskOK

LEMMA BeginRegisterStep ==
  ASSUME IInv, NEW p \in Processes, NEW origin, BeginRegister(p, origin)
  PROVE  IInv'
<1> DEFINE job == [kind |-> "register", expected |-> files.registry,
                   new |-> WithOrigin(files.registry, origin)]
           new == [pc |-> "register", job |-> job]
<1>1. proc' = [proc EXCEPT ![p] = new] /\ UNCHANGED <<files, disk, lock>>
  BY DEF BeginRegister
<1>2. RegisterOK(new)
  <2>1. RegistryOK(files.registry)
    BY DEF IInv, DiskOK, StateOK
  <2> QED BY <2>1, WithOriginFits DEF RegisterOK
<1>3. new.pc \notin Holding /\ proc[p].pc \notin Holding
  BY SMT DEF Holding, BeginRegister, Idle
<1> HIDE DEF new
<1>4. proc' = [q \in Processes |-> IF q = p THEN new ELSE proc[q]]
  BY <1>1 DEF IInv, ProcsOK
<1>5. ProcsOK'
  BY <1>1, <1>2, <1>3, <1>4 DEF IInv, ProcsOK, ProcOK
<1> QED BY <1>1, <1>5 DEF IInv, DiskOK

LEMMA WriteJournalStep ==
  ASSUME IInv, ~Reordered, NEW p \in Processes, WriteJournal(p)
  PROVE  IInv'
<1>1. lock = p /\ ReconcileOK(proc[p], files)
  BY JobKinds DEF IInv, WriteJournal, Holding
<1>2. CASE Rename(JournalOf(proc[p].job), "journal") /\ GoTo(p, "journal_sync") /\ UNCHANGED lock
  <2>1. proc[p].pc = "journal"
    BY DEF WriteJournal
  <2>2. JournalOK(JournalOf(proc[p].job)) /\ proc[p].job.expected = proc[p].job.old
    BY <1>1, <2>1 DEF ReconcileOK
  <2>3. StateOK(files')
    BY <1>2, <2>2, JournalState DEF IInv, DiskOK, Rename
  <2>4. DiskOK'
    BY <1>2, <2>3, RenameDisk DEF IInv
  <2>5. ProcsOK'
    BY <1>1, <1>2, <2>2, ReconcilerStep DEF IInv, Holding
  <2> QED BY <2>4, <2>5 DEF IInv
<1>3. CASE Finish(p) /\ UNCHANGED <<files, disk>>
  BY <1>3, FinishStep DEF IInv, DiskOK
<1> QED BY <1>2, <1>3 DEF WriteJournal

LEMMA SyncJournalStep ==
  ASSUME IInv, ~Reordered, NEW p \in Processes, SyncJournal(p)
  PROVE  IInv'
<1>1. lock = p /\ ReconcileOK(proc[p], files) /\ proc[p].pc = "journal_sync"
  BY JobKinds DEF IInv, SyncJournal, Holding
<1>2. DiskOK' /\ files' = files
  BY SyncDisk DEF SyncJournal, IInv
<1>3. proc[p].job.expected = proc[p].job.old
  BY <1>1 DEF ReconcileOK
<1>4. ProcsOK'
  BY <1>1, <1>3, ReconcilerStep DEF IInv, Holding, SyncJournal
<1> QED BY <1>2, <1>4 DEF IInv

LEMMA WriteAttestationStep ==
  ASSUME IInv, ~Reordered, \A event : Attestation(event) # NoFile,
         NEW p \in Processes, WriteAttestation(p)
  PROVE  IInv'
<1> DEFINE job == proc[p].job
           found == files.outs[job.out]
<1>1. /\ lock = p /\ ReconcileOK(proc[p], files) /\ proc[p].pc = "attestation"
  BY JobKinds DEF IInv, WriteAttestation, Holding
<1>2. job.expected = job.old /\ job.out \in Outs
  BY <1>1 DEF ReconcileOK, JournalOK, JournalOf
<1>3. CASE found = job.attestation /\ GoTo(p, "registry") /\ UNCHANGED <<files, disk, lock>>
  <2>1. ProcsOK'
    BY <1>1, <1>2, <1>3, ReconcilerStep DEF IInv, Holding
  <2> QED BY <1>3, <2>1 DEF IInv, DiskOK
<1>4. CASE /\ found = NoFile
           /\ Rename([files.outs EXCEPT ![job.out] = job.attestation], "outs")
           /\ GoTo(p, "attestation_sync")
           /\ UNCHANGED lock
  <2>1. StateOK(files)
    BY DEF IInv, DiskOK
  <2>2. files' = [files EXCEPT !["outs"] = [files.outs EXCEPT ![job.out] = job.attestation]]
    BY <1>4 DEF Rename
  <2>3. StateOK(files') /\ files'.outs[job.out] = job.attestation
    <3> DEFINE o == job.out
               a == job.attestation
    <3>1. o \in Outs /\ files.outs[o] = NoFile
      BY <1>2, <1>4
    <3>2. files' = [files EXCEPT !["outs"] = [files.outs EXCEPT ![o] = a]]
      BY <2>2
    <3> HIDE DEF o, a, job, found
    <3>3. /\ StateOK([files EXCEPT !["outs"] = [files.outs EXCEPT ![o] = a]])
          /\ [files EXCEPT !["outs"] = [files.outs EXCEPT ![o] = a]].outs[o] = a
      BY ZenonT(40), <2>1, <3>1, AttestationState
    <3> QED BY <3>2, <3>3 DEF o, a
  <2>4. DiskOK'
    BY <1>4, <2>3, RenameDisk DEF IInv
  <2>5. ProcsOK'
    BY <1>1, <1>2, <1>4, <2>3, ReconcilerStep DEF IInv, Holding
  <2> QED BY <2>4, <2>5 DEF IInv
<1>5. CASE Finish(p) /\ UNCHANGED <<files, disk>>
  BY <1>5, FinishStep DEF IInv, DiskOK
<1> QED BY <1>3, <1>4, <1>5 DEF WriteAttestation

LEMMA SyncAttestationStep ==
  ASSUME IInv, ~Reordered, NEW p \in Processes, SyncAttestation(p)
  PROVE  IInv'
<1>1. lock = p /\ ReconcileOK(proc[p], files) /\ proc[p].pc = "attestation_sync"
  BY JobKinds DEF IInv, SyncAttestation, Holding
<1>2. DiskOK' /\ files' = files
  BY SyncDisk DEF SyncAttestation, IInv
<1>3. /\ proc[p].job.expected = proc[p].job.old
      /\ files.outs[proc[p].job.out] = proc[p].job.attestation
  BY <1>1 DEF ReconcileOK
<1>4. ProcsOK'
  BY <1>1, <1>2, <1>3, ReconcilerStep DEF IInv, Holding, SyncAttestation
<1> QED BY <1>2, <1>4 DEF IInv

\* A command that replaces the registry expects the one the journal starts
\* from, or adds no event: either way the new one is attested.
LEMMA Replacement ==
  ASSUME IInv, NEW p \in Processes, proc[p].pc = "registry", files.registry = proc[p].job.expected
  PROVE  /\ lock = p
         /\ Extends(files.registry, proc[p].job.new)
         /\ RegistryOK(proc[p].job.new)
         /\ Attested(proc[p].job.new, files.outs)
<1> DEFINE job == proc[p].job
<1>1. lock = p /\ (ReconcileOK(proc[p], files) \/ RegisterOK(proc[p]))
  BY JobKinds DEF IInv, Holding
<1>2. StateOK(files)
  BY DEF IInv, DiskOK
<1>3. CASE ReconcileOK(proc[p], files)
  <2>1. /\ JournalOK(JournalOf(job)) /\ job.expected = job.old
        /\ files.outs[job.out] = job.attestation
    BY <1>3 DEF ReconcileOK
  <2>2. /\ JournalOf(job).new = job.new /\ JournalOf(job).old = job.old
        /\ JournalOf(job).out = job.out /\ JournalOf(job).attestation = job.attestation
    BY DEF JournalOf
  <2>3. Attested(JournalOf(job).new, files.outs)
    BY <1>2, <2>1, <2>2, NewAttested
  <2>4. RegistryOK(job.new) /\ Extends(job.old, job.new)
    BY <2>1, <2>2 DEF JournalOK
  <2> QED BY <1>1, <2>1, <2>2, <2>3, <2>4
<1>4. CASE RegisterOK(proc[p])
  <2>1. /\ RegistryOK(job.new) /\ Extends(job.expected, job.new)
        /\ job.new.events = files.registry.events
    BY <1>4 DEF RegisterOK
  <2>2. Attested(files.registry, files.outs)
    BY <1>2 DEF StateOK
  <2>3. Attested(job.new, files.outs)
    BY <2>1, <2>2 DEF Attested
  <2> QED BY <1>1, <2>1, <2>3
<1> QED BY <1>1, <1>3, <1>4

LEMMA ReplaceRegistryStep ==
  ASSUME IInv, ~Reordered, NEW p \in Processes, ReplaceRegistry(p)
  PROVE  IInv'
<1>1. CASE /\ files.registry = proc[p].job.expected
           /\ Rename(proc[p].job.new, "registry")
           /\ GoTo(p, "registry_sync") /\ UNCHANGED lock
  <2>1. /\ proc[p].pc = "registry" /\ Rename(proc[p].job.new, "registry")
        /\ GoTo(p, "registry_sync") /\ UNCHANGED lock
    BY <1>1 DEF ReplaceRegistry
  <2>2. /\ lock = p /\ RegistryOK(proc[p].job.new) /\ Attested(proc[p].job.new, files.outs)
    BY <1>1, <2>1, Replacement
  <2>3. StateOK(files')
    BY <2>1, <2>2, RegistryState DEF IInv, DiskOK, Rename
  <2>4. DiskOK'
    BY <2>1, <2>3, RenameDisk DEF IInv
  <2>5. CASE ReconcileOK(proc[p], files)
    <3>1. ProcsOK'
      BY <2>1, <2>2, <2>5, ReconcilerStep DEF IInv, Holding
    <3> QED BY <2>4, <3>1 DEF IInv
  <2>6. CASE RegisterOK(proc[p])
    <3> DEFINE new == [proc[p] EXCEPT !.pc = "registry_sync"]
    <3>1. new = [pc |-> "registry_sync", job |-> proc[p].job]
      BY SMT, <2>6 DEF RegisterOK
    <3>2. proc' = [proc EXCEPT ![p] = new]
      BY <2>1 DEF GoTo
    <3> HIDE DEF new
    <3>3. RegisterOK(new) /\ new.pc \in Holding
      BY <2>6, <3>1 DEF RegisterOK, Holding
    <3>4. ProcsOK'
      BY <2>1, <2>2, <3>2, <3>3, HolderStep DEF IInv, ProcOK
    <3> QED BY <2>4, <3>4 DEF IInv
  <2> QED BY <2>1, <2>5, <2>6, JobKinds DEF IInv
<1>2. CASE Finish(p) /\ UNCHANGED <<files, disk>>
  BY <1>2, FinishStep DEF IInv, DiskOK
<1> QED BY <1>1, <1>2 DEF ReplaceRegistry

LEMMA SyncRegistryStep ==
  ASSUME IInv, ~Reordered, NEW p \in Processes, SyncRegistry(p)
  PROVE  IInv'
<1>1. /\ lock = p /\ proc[p].pc = "registry_sync"
      /\ ReconcileOK(proc[p], files) \/ RegisterOK(proc[p])
  BY JobKinds DEF IInv, SyncRegistry, Holding
<1>2. DiskOK' /\ files' = files
  BY SyncDisk DEF SyncRegistry, IInv
<1>3. CASE proc[p].job.kind = "register"
  BY <1>2, <1>3, FinishStep DEF SyncRegistry, IInv
<1>4. CASE proc[p].job.kind # "register"
  <2>1. ReconcileOK(proc[p], files) /\ GoTo(p, "validate") /\ UNCHANGED lock
    BY <1>1, <1>4 DEF RegisterOK, SyncRegistry
  <2>2. ProcsOK'
    BY <1>1, <2>1, ReconcilerStep DEF IInv, Holding
  <2> QED BY <1>2, <2>2 DEF IInv
<1> QED BY <1>3, <1>4

LEMMA ValidateRegistryStep ==
  ASSUME IInv, NEW p \in Processes, ValidateRegistry(p)
  PROVE  IInv'
<1>1. lock = p /\ ReconcileOK(proc[p], files) /\ UNCHANGED <<files, disk>>
  BY JobKinds DEF IInv, ValidateRegistry, Holding
<1>2. CASE GoTo(p, "remove") /\ UNCHANGED lock
  <2>1. ProcsOK'
    BY <1>1, <1>2, ReconcilerStep DEF IInv, Holding
  <2> QED BY <1>1, <2>1 DEF IInv, DiskOK
<1>3. CASE Finish(p)
  BY <1>1, <1>3, FinishStep DEF IInv, DiskOK
<1> QED BY <1>2, <1>3 DEF ValidateRegistry

LEMMA RemoveJournalStep ==
  ASSUME IInv, ~Reordered, NEW p \in Processes, RemoveJournal(p)
  PROVE  IInv'
<1>1. lock = p /\ ReconcileOK(proc[p], files)
  BY JobKinds DEF IInv, RemoveJournal, Holding
<1>2. CASE Rename(NoFile, "journal") /\ GoTo(p, "remove_sync") /\ UNCHANGED lock
  <2>1. StateOK(files')
    BY <1>2, JournalState DEF IInv, DiskOK, Rename
  <2>2. DiskOK'
    BY <1>2, <2>1, RenameDisk DEF IInv
  <2>3. ProcsOK'
    BY <1>1, <1>2, ReconcilerStep DEF IInv, Holding
  <2> QED BY <2>2, <2>3 DEF IInv
<1>3. CASE Finish(p) /\ UNCHANGED <<files, disk>>
  BY <1>3, FinishStep DEF IInv, DiskOK
<1> QED BY <1>2, <1>3 DEF RemoveJournal

LEMMA SyncRemovalStep ==
  ASSUME IInv, ~Reordered, NEW p \in Processes, SyncRemoval(p)
  PROVE  IInv'
<1>1. DiskOK' /\ files' = files
  BY SyncDisk DEF SyncRemoval, IInv
<1> QED BY <1>1, FinishStep DEF SyncRemoval, IInv

\* recover goes on to write only when the registry is the journal's old one.
LEMMA DisposeJournalStep ==
  ASSUME IInv, NEW p \in Processes, DisposeJournal(p)
  PROVE  IInv'
<1> DEFINE job == proc[p].job
           journal == JournalOf(job)
           disposition == Disposition(journal, files.registry, files.outs[journal.out])
           pc == IF disposition = "apply" THEN "attestation" ELSE "validate"
           new == [proc[p] EXCEPT !.pc = pc, !.job.expected = files.registry]
<1>1. /\ ReconcileOK(proc[p], files) /\ lock = Nobody /\ UNCHANGED <<files, disk>>
  BY JobKinds DEF IInv, DisposeJournal
<1>2. CASE proc' = [proc EXCEPT ![p] = new] /\ lock' = p
  <2>1. disposition = "apply" => files.registry = job.old
    BY DEF Disposition, JournalOf
  <2> HIDE DEF disposition
  <2>2. new = [pc |-> pc, job |-> [kind |-> "reconcile", expected |-> files.registry,
                                  old |-> job.old, new |-> job.new, out |-> job.out,
                                  attestation |-> job.attestation]]
    <3> DEFINE new1 == [proc[p] EXCEPT !.pc = pc]
    <3>1. new1 = [pc |-> pc, job |-> job]
      BY SMT, <1>1 DEF ReconcileOK
    <3>2. new = [new1 EXCEPT !.job = [new1.job EXCEPT !.expected = files.registry]]
      OBVIOUS
    <3> HIDE DEF new, new1, pc
    <3>3. [job EXCEPT !.expected = files.registry]
            = [kind |-> "reconcile", expected |-> files.registry,
               old |-> job.old, new |-> job.new, out |-> job.out,
               attestation |-> job.attestation]
      BY SMT, <1>1 DEF ReconcileOK
    <3> QED BY <3>1, <3>2, <3>3
  <2> HIDE DEF new
  <2>3. JournalOf(new.job) = journal
    BY <2>2 DEF JournalOf
  <2>4. ReconcileOK(new, files') /\ new.pc \in Holding
    BY <1>1, <2>1, <2>2, <2>3 DEF ReconcileOK, Holding
  <2>5. ProcsOK'
    BY <1>1, <1>2, <2>4, HolderStep DEF IInv, ProcOK
  <2> QED BY <1>1, <2>5 DEF IInv, DiskOK
<1>3. CASE Finish(p)
  BY <1>1, <1>3, FinishStep DEF IInv, DiskOK
<1> QED BY <1>2, <1>3 DEF DisposeJournal

LEMMA ValidateTargetStep ==
  ASSUME IInv, NEW p \in Processes, ValidateTarget(p)
  PROVE  IInv'
<1>1. RegisterOK(proc[p]) /\ lock = Nobody /\ UNCHANGED <<files, disk>>
  BY JobKinds DEF IInv, ValidateTarget
<1>2. CASE GoTo(p, "registry") /\ lock' = p
  <2> DEFINE new == [proc[p] EXCEPT !.pc = "registry"]
  <2>1. new = [pc |-> "registry", job |-> proc[p].job]
    BY SMT, <1>1 DEF RegisterOK
  <2>2. proc' = [proc EXCEPT ![p] = new]
    BY <1>2 DEF GoTo
  <2> HIDE DEF new
  <2>3. RegisterOK(new) /\ new.pc \in Holding
    BY <1>1, <2>1 DEF RegisterOK, Holding
  <2>4. ProcsOK'
    BY <1>1, <1>2, <2>2, <2>3, HolderStep DEF IInv, ProcOK
  <2> QED BY <1>1, <2>4 DEF IInv, DiskOK
<1>3. CASE Finish(p)
  BY <1>1, <1>3, FinishStep DEF IInv, DiskOK
<1> QED BY <1>2, <1>3 DEF ValidateTarget

LEMMA GiveUpStep ==
  ASSUME IInv, NEW p \in Processes, RecoverRefused(p) \/ RegisterRefused(p) \/ Stop(p)
  PROVE  IInv'
BY FinishStep DEF RecoverRefused, RegisterRefused, Stop, IInv, DiskOK

LEMMA PowerLossStep ==
  ASSUME IInv, PowerLoss
  PROVE  IInv'
<1>1. Idle.pc \notin Holding
  BY DEF Idle, Holding
<1> QED BY <1>1, NobodyAssumption DEF PowerLoss, IInv, DiskOK, ProcsOK, ProcOK

LEMMA Preserved ==
  ASSUME ~Reordered, \A event : Attestation(event) # NoFile, IInv, [Next]_vars
  PROVE  IInv'
<1>1. CASE UNCHANGED vars \/ Prepare
  BY <1>1 DEF vars, Prepare, IInv, DiskOK, ProcsOK
<1>2. CASE PowerLoss
  BY <1>2, PowerLossStep
<1>3. ASSUME NEW p \in Processes, \E args \in Arguments : BeginReconcile(p, args) PROVE IInv'
  BY <1>3, BeginReconcileStep DEF Arguments
<1>4. ASSUME NEW p \in Processes, BeginRecover(p) PROVE IInv'
  BY <1>4, BeginRecoverStep
<1>5. ASSUME NEW p \in Processes, \E origin \in Origins : BeginRegister(p, origin) PROVE IInv'
  BY <1>5, BeginRegisterStep
<1>6. ASSUME NEW p \in Processes, Work(p) PROVE IInv'
  BY <1>6, WriteJournalStep, SyncJournalStep, WriteAttestationStep, SyncAttestationStep,
     ReplaceRegistryStep, SyncRegistryStep, ValidateRegistryStep, RemoveJournalStep,
     SyncRemovalStep, DisposeJournalStep, GiveUpStep, ValidateTargetStep DEF Work
<1>7. ASSUME NEW p \in Processes, Stop(p) PROVE IInv'
  BY <1>7, GiveUpStep
<1> QED BY <1>1, <1>2, <1>3, <1>4, <1>5, <1>6, <1>7 DEF Next

-----------------------------------------------------------------------------
\* The registry file changes only in ReplaceRegistry and in a power loss.
LEMMA RegistryUntouched ==
  ASSUME IInv, NEW new, NEW f \in {"journal", "outs"}, Rename(new, f)
  PROVE  files'.registry = files.registry
<1> DEFINE t == [files EXCEPT ![f] = new]
<1>1. files = [journal |-> files.journal, outs |-> files.outs, registry |-> files.registry]
  BY DEF IInv, DiskOK, StateOK
<1>2. [files EXCEPT !["journal"] = new] = [files EXCEPT !.journal = new]
  OBVIOUS
<1>3. [files EXCEPT !["outs"] = new] = [files EXCEPT !.outs = new]
  OBVIOUS
<1>4. [files EXCEPT !.journal = new].registry = files.registry
  BY <1>1
<1>5. [files EXCEPT !.outs = new].registry = files.registry
  BY <1>1
<1> QED BY <1>2, <1>3, <1>4, <1>5 DEF Rename

LEMMA HistoryStep ==
  ASSUME ~Reordered, IInv, [Next]_vars, files'.registry # files.registry
  PROVE  Extends(files.registry, files'.registry) \/ (faults' = faults + 1 /\ files' \in disk)
<1>1. CASE PowerLoss
  BY <1>1 DEF PowerLoss
<1>2. ASSUME NEW p \in Processes, ReplaceRegistry(p)
      PROVE  Extends(files.registry, files'.registry)
  <2>1. /\ files.registry = proc[p].job.expected /\ proc[p].pc = "registry"
        /\ Rename(proc[p].job.new, "registry")
    BY <1>2 DEF ReplaceRegistry
  <2>2. files'.registry = proc[p].job.new
    <3> DEFINE t == [files EXCEPT !.registry = proc[p].job.new]
    <3>1. [files EXCEPT !["registry"] = proc[p].job.new] = t
      OBVIOUS
    <3>2. t.registry = proc[p].job.new
      BY SMT DEF IInv, DiskOK, StateOK
    <3> QED BY <2>1, <3>1, <3>2 DEF Rename
  <2> QED BY <2>1, <2>2, Replacement
<1>3. ASSUME NEW p \in Processes, Work(p), ~ReplaceRegistry(p) PROVE files'.registry = files.registry
  BY <1>3, RegistryUntouched
     DEF Work, WriteJournal, SyncJournal, WriteAttestation, SyncAttestation, SyncRegistry,
         ValidateRegistry, RemoveJournal, SyncRemoval, DisposeJournal, RecoverRefused,
         ValidateTarget, RegisterRefused, SyncDirectory
<1> QED BY <1>1, <1>2, <1>3
     DEF Next, vars, Prepare, BeginReconcile, BeginRecover, BeginRegister, Stop

\* Whoever is stopped where, and whoever goes on: in every state a power
\* loss may leave, each event of the registry has its attestation with the
\* bytes the event fixes.  Renames persist in the order they were made, and
\* no attestation looks like a missing file.
THEOREM AttestationBeforeRegistry ==
  ASSUME ~Reordered, \A event : Attestation(event) # NoFile
  PROVE  Spec => []RegistryAttested
<1>1. IInv /\ [Next]_vars => IInv'
  BY Preserved
<1>2. IInv => RegistryAttested
  BY DEF IInv, DiskOK, StateOK, RegistryAttested
<1> QED BY Initially, <1>1, <1>2, PTL DEF Spec

\* reconcile, recover and register-equivalent only ever replace a registry
\* by one that extends it by a generation; all else is a power loss.
THEOREM RegistryHistoryKept ==
  ASSUME ~Reordered, \A event : Attestation(event) # NoFile
  PROVE  Spec => HistoryKept
<1>1. IInv /\ [Next]_vars => IInv'
  BY Preserved
<1>2. IInv /\ [Next]_vars =>
        [files'.registry # files.registry =>
           \/ Extends(files.registry, files'.registry)
           \/ faults' = faults + 1 /\ files' \in disk]_vars
  BY HistoryStep
<1> QED BY Initially, <1>1, <1>2, PTL DEF Spec, HistoryKept
=============================================================================
