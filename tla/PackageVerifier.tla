--------------------------- MODULE PackageVerifier ---------------------------
(***************************************************************************)
(* Source-free verification of the certificates of a package, in the three *)
(* ways the package verifier executes it: layer by layer with the modules  *)
(* of a layer spread over worker threads (layered), one module after the   *)
(* other next to local cache hits (serial), and one after the other with   *)
(* the reference checker, which drops import contexts that are no longer   *)
(* needed (reference).  Several runs may share one process memo.           *)
(*                                                                         *)
(* Entries are numbered in the topological order of the lock graph.  What  *)
(* a checker says of a certificate is given: sound holds the entries whose *)
(* locked certificate it accepts next to their imports.                    *)
(***************************************************************************)
EXTENDS Integers, FiniteSets

CONSTANTS
  N,         \* the number of entries
  Packages,  \* the packages, each an indexed lock graph with its policy
  Requests,  \* what the callers ask for
  Runs,      \* the runs
  Jobs       \* the number of worker threads asked for

Entries == 1..N
Modes == {"fast", "reference"}
Mode(strategy) == IF strategy = "reference" THEN "reference" ELSE "fast"

\* The index that LockGraph and VerificationPlan compute: imports come earlier in
\* the order, and in an earlier layer.
PackageType ==
  {g \in [imports : [Entries -> SUBSET Entries], layer : [Entries -> 0..(N - 1)],
          sound : [Modes -> SUBSET Entries]] :
     \A e \in Entries : \A d \in g.imports[e] : d < e /\ g.layer[d] < g.layer[e]}

\* The certificate bytes supplied for an entry: the ones whose file hash is in the
\* lock, others, or none.  selected is closed under imports.  live are the
\* entries that are not taken from a local cache, which is closed under imports
\* too; a cache hit was a success of the same checker on the same bytes.
RequestType ==
  {q \in [package : Packages, strategy : {"layered", "serial", "reference"},
          artifact : [Entries -> {"locked", "other", "missing"}],
          selected : SUBSET Entries, live : SUBSET Entries] :
     /\ \A e \in q.selected : q.package.imports[e] \subseteq q.selected
     /\ \A e \in q.live : q.package.imports[e] \subseteq q.live
     /\ q.live \subseteq q.selected
     /\ q.strategy # "serial" => q.live = q.selected
     /\ \A e \in q.selected \ q.live :
          q.artifact[e] = "locked" /\ e \in q.package.sound["fast"]}

ASSUME VerifierAssumption ==
  /\ N \in Nat
  /\ Jobs \in Nat \ {0}
  /\ Packages \subseteq PackageType
  /\ Requests \subseteq RequestType

VARIABLES
  memo,      \* the process memo: a set of pairs of a key and a verdict
  job,       \* the request each run works on
  phase,     \* where each run is
  at,        \* the current layer, or entry
  pending,   \* the modules of the layer that are not looked at yet
  runnable,  \* the ones that have to be checked
  shard,     \* the shard of each of them
  working,   \* the shards being checked
  broken,    \* the shards whose thread did not start or panicked
  outcome,   \* what the workers found
  result,    \* the status of each module in the report
  context,   \* verified_modules_by_module, the session, or checked_by_module
  uses       \* remaining_import_uses

vars == <<memo, job, phase, at, pending, runnable, shard, working, broken, outcome,
          result, context, uses>>

\* The parts of the state that only the layered execution uses.
layered == <<pending, runnable, shard, working, broken, outcome>>

NoRequest == [strategy |-> "none"]
NoShards == [e \in {} |-> 1]
NoOutcome == [e \in {} |-> "failed"]

Imports(r, e) == job[r].package.imports[e]
Selected(r) == job[r].selected
Layer_UpTo(r, n) == {e \in Selected(r) : job[r].package.layer[e] <= n}
Layer(r, n) == {e \in Selected(r) : job[r].package.layer[e] = n}
Has(r, status) == {e \in Entries : result[r][e] = status}
Set(f, r, x) == [f EXCEPT ![r] = x]

-----------------------------------------------------------------------------
(* The process memo *)

\* The parts of PackageAuditCacheKeyInput that runs can differ in: the lock and
\* the policy, the checker, the module and the file hash of its bytes.
Key_WithoutBytes(r, e) == <<job[r].package, Mode(job[r].strategy), e, "locked">>
Key(r, e) == <<job[r].package, Mode(job[r].strategy), e, job[r].artifact[e]>>

\* Without bytes there is no key.
Keyed_Always(r, e) == TRUE
Keyed(r, e) == job[r].artifact[e] # "missing"

\* A lookup may miss whatever was inserted: entries are evicted, memoization is
\* an option, and a poisoned memo is no longer used.
Lookup(r, e, answer) ==
  \/ answer = "miss"
  \/ Keyed(r, e) /\ <<Key(r, e), answer>> \in memo

\* An insert replaces what the key had, or is not done at all.
Insert(r, e, verdict) ==
  \/ UNCHANGED memo
  \/ /\ Keyed(r, e)
     /\ memo' = {m \in memo : m[1] # Key(r, e)} \cup {<<Key(r, e), verdict>>}

-----------------------------------------------------------------------------
(* One certificate *)

\* The file hash, the checker with the imports found in the context, and the
\* hashes of the result.
Verdict(r, e) ==
  IF /\ job[r].artifact[e] = "locked"
     /\ e \in job[r].package.sound[Mode(job[r].strategy)]
     /\ Imports(r, e) \subseteq context[r]
  THEN "passed" ELSE "failed"

Report(r, e, status) == result' = [result EXCEPT ![r][e] = status]

-----------------------------------------------------------------------------
(* Layered execution *)

\* blocked_direct_import.
Blocked_Never(r, e) == FALSE
Blocked(r, e) == Imports(r, e) \cap (Has(r, "failed") \cup Has(r, "skipped")) # {}

\* A verified module becomes an import; record_verified insists that it is a new
\* one with bytes.
Admit(r, e) ==
  IF e \in context[r] \/ job[r].artifact[e] = "missing"
  THEN phase' = Set(phase, r, "internal_error") /\ UNCHANGED <<context, result>>
  ELSE /\ context' = Set(context, r, context[r] \cup {e})
       /\ Report(r, e, "passed")
       /\ UNCHANGED phase

\* One module of the layer: skipped, known from the memo, or to be checked.
Classify(r) ==
  /\ phase[r] = "classify"
  /\ \E e \in pending[r] :
       /\ pending' = Set(pending, r, pending[r] \ {e})
       /\ \/ /\ Blocked(r, e)
             /\ Report(r, e, "skipped")
             /\ UNCHANGED <<phase, runnable, context>>
          \/ /\ ~ Blocked(r, e)
             /\ Lookup(r, e, "passed")
             /\ Admit(r, e)
             /\ UNCHANGED runnable
          \/ /\ ~ Blocked(r, e)
             /\ Lookup(r, e, "failed")
             /\ Report(r, e, "failed")
             /\ UNCHANGED <<phase, runnable, context>>
          \/ /\ ~ Blocked(r, e)
             /\ Lookup(r, e, "miss")
             /\ runnable' = Set(runnable, r, runnable[r] \cup {e})
             /\ UNCHANGED <<phase, result, context>>
  /\ UNCHANGED <<memo, job, at, shard, working, broken, outcome, uses>>

\* plan_fast_verifier_shards_with_state gives up when an import is not verified
\* yet or bytes are missing; the layer is then checked without threads.
Plannable(r) ==
  \A e \in runnable[r] :
    /\ Imports(r, e) \subseteq context[r]
    /\ Imports(r, e) \cap runnable[r] = {}
    /\ job[r].artifact[e] # "missing"

\* The shards that have a thread to wait for.
Spawned_All(n, unspawned) == 1..n
Spawned(n, unspawned) == (1..n) \ unspawned

\* The shards: none is empty and there are no more of them than jobs, whatever
\* the costs and the memory budget are.  Threads may fail to start.
StartLayer(r) ==
  /\ phase[r] = "classify"
  /\ pending[r] = {}
  /\ runnable[r] # {}
  /\ \E n \in 1..Jobs : \E plan \in [runnable[r] -> 1..n], unspawned \in SUBSET (1..n) :
       /\ \A s \in 1..n : \E e \in runnable[r] : plan[e] = s
       /\ ~ Plannable(r) => n = 1
       /\ n = 1 => unspawned = {}
       /\ shard' = Set(shard, r, plan)
       /\ working' = Set(working, r, Spawned(n, unspawned))
       /\ broken' = Set(broken, r, unspawned)
  /\ phase' = Set(phase, r, "work")
  /\ UNCHANGED <<memo, job, at, pending, runnable, outcome, result, context, uses>>

\* verify_fast_shard: all members of shard s, against what was verified before the
\* layer.
Members(r, s) == {e \in runnable[r] : shard[r][e] = s}

Work(r, s) ==
  /\ phase[r] = "work"
  /\ s \in working[r] \ broken[r]
  /\ working' = Set(working, r, working[r] \ {s})
  /\ outcome' = Set(outcome, r, [e \in DOMAIN outcome[r] \cup Members(r, s) |->
                                  IF e \in Members(r, s) THEN Verdict(r, e)
                                  ELSE outcome[r][e]])
  /\ UNCHANGED <<memo, job, phase, at, pending, runnable, shard, broken, result,
                 context, uses>>

\* A worker thread panics.  A layer with one shard has no threads.
Panic(r, s) ==
  /\ phase[r] = "work"
  /\ s \in working[r] \ broken[r]
  /\ \E e \in runnable[r] : shard[r][e] # s
  /\ working' = Set(working, r, working[r] \ {s})
  /\ broken' = Set(broken, r, broken[r] \cup {s})
  /\ UNCHANGED <<memo, job, phase, at, pending, runnable, shard, outcome, result,
                 context, uses>>

\* All threads are joined.  One that was lost fails the run, without a report.
Join(r) ==
  /\ phase[r] = "work"
  /\ working[r] = {}
  /\ \/ /\ broken[r] = {}
        /\ phase' = Set(phase, r, "merge")
        /\ UNCHANGED <<shard, outcome>>
     \/ /\ broken[r] # {}
        /\ phase' = Set(phase, r, "worker_lost")
        /\ shard' = Set(shard, r, NoShards)
        /\ outcome' = Set(outcome, r, NoOutcome)
  /\ UNCHANGED <<memo, job, at, pending, runnable, working, broken, result, context,
                 uses>>

\* The coordinator takes over one worker result.
Merge(r) ==
  /\ phase[r] = "merge"
  /\ \E e \in runnable[r] :
       /\ runnable' = Set(runnable, r, runnable[r] \ {e})
       /\ Insert(r, e, outcome[r][e])
       /\ \/ outcome[r][e] = "passed" /\ Admit(r, e)
          \/ /\ outcome[r][e] = "failed"
             /\ Report(r, e, "failed")
             /\ UNCHANGED <<phase, context>>
  /\ UNCHANGED <<job, at, pending, shard, working, broken, outcome, uses>>

\* The layer is finished: the next one, or the report.
EndLayer(r) ==
  /\ \/ phase[r] = "classify" /\ pending[r] = {}
     \/ phase[r] = "merge"
  /\ runnable[r] = {}
  /\ at' = Set(at, r, at[r] + 1)
  /\ pending' = Set(pending, r, Layer(r, at[r] + 1))
  /\ phase' = Set(phase, r, IF at[r] + 1 < N THEN "classify" ELSE "done")
  /\ shard' = Set(shard, r, NoShards)
  /\ outcome' = Set(outcome, r, NoOutcome)
  /\ UNCHANGED <<memo, job, runnable, working, broken, result, context, uses>>

-----------------------------------------------------------------------------
(* One module after the other *)

\* reference_import_use_counts.
UseCount(q, d) == Cardinality({e \in q.selected : d \in q.package.imports[e]})

\* record_reference_checked_module_for_dependents, then
\* retire_reference_imports_after_module.
Retired_Early(r, e) == {d \in Imports(r, e) : uses[r][d] \in {1, 2}}
Retired(r, e) == {d \in Imports(r, e) : uses[r][d] = 1}

RecordAndRetire(r, e) ==
  /\ context' = Set(context, r,
                    (context[r] \cup (IF uses[r][e] > 0 THEN {e} ELSE {})) \ Retired(r, e))
  /\ uses' = Set(uses, r, [d \in Entries |->
                            IF d \in Imports(r, e) /\ uses[r][d] > 0
                            THEN uses[r][d] - 1 ELSE uses[r][d]])

\* After a failure no context is needed any more.
DropContexts(r) ==
  /\ context' = Set(context, r, {})
  /\ uses' = Set(uses, r, [d \in Entries |-> 0])

Advance(r) == at' = Set(at, r, at[r] + 1)

\* An entry that was not selected.
PassBy(r) ==
  /\ phase[r] = "next"
  /\ at[r] \in Entries \ Selected(r)
  /\ Advance(r)
  /\ UNCHANGED <<memo, job, phase, layered, result, context, uses>>

\* After the first failure everything is skipped.
Skip(r) ==
  /\ phase[r] = "next"
  /\ at[r] \in Selected(r)
  /\ Has(r, "failed") # {}
  /\ Report(r, at[r], "skipped")
  /\ Advance(r)
  /\ UNCHANGED <<memo, job, phase, layered, context, uses>>

\* A local cache hit that nothing live imports.
TakeCached(r) ==
  /\ phase[r] = "next"
  /\ at[r] \in Selected(r) \ job[r].live
  /\ Has(r, "failed") = {}
  /\ Report(r, at[r], "cached")
  /\ Advance(r)
  /\ UNCHANGED <<memo, job, phase, layered, context, uses>>

\* The memo is asked, by the reference strategy only.
Consult(r) ==
  /\ phase[r] = "next"
  /\ at[r] \in job[r].live
  /\ Has(r, "failed") = {}
  /\ \/ /\ phase' = Set(phase, r, "check")
        /\ UNCHANGED <<at, result, context, uses>>
     \/ /\ job[r].strategy = "reference"
        /\ Lookup(r, at[r], "passed")
        /\ RecordAndRetire(r, at[r])
        /\ Report(r, at[r], "passed")
        /\ Advance(r)
        /\ UNCHANGED phase
     \/ /\ job[r].strategy = "reference"
        /\ Lookup(r, at[r], "failed")
        /\ DropContexts(r)
        /\ Report(r, at[r], "failed")
        /\ Advance(r)
        /\ UNCHANGED phase
  /\ UNCHANGED <<memo, job, layered>>

\* The certificate is checked against the contexts at hand.
Check(r) ==
  LET e == at[r]
      verdict == Verdict(r, e)
      reference == job[r].strategy = "reference"
  IN
  /\ phase[r] = "check"
  /\ IF reference THEN Insert(r, e, verdict) ELSE UNCHANGED memo
  /\ \/ /\ reference /\ verdict = "passed"
        /\ RecordAndRetire(r, e)
     \/ /\ reference /\ verdict = "failed"
        /\ DropContexts(r)
     \/ /\ ~ reference
        /\ context' = Set(context, r,
                          IF verdict = "passed" THEN context[r] \cup {e} ELSE context[r])
        /\ UNCHANGED uses
  /\ Report(r, e, verdict)
  /\ Advance(r)
  /\ phase' = Set(phase, r, "next")
  /\ UNCHANGED <<job, layered>>

Finish(r) ==
  /\ phase[r] = "next"
  /\ at[r] > N
  /\ phase' = Set(phase, r, "done")
  /\ UNCHANGED <<memo, job, at, layered, result, context, uses>>

-----------------------------------------------------------------------------
Init ==
  /\ memo = {}
  /\ job = [r \in Runs |-> NoRequest]
  /\ phase = [r \in Runs |-> "idle"]
  /\ at = [r \in Runs |-> 0]
  /\ pending = [r \in Runs |-> {}]
  /\ runnable = [r \in Runs |-> {}]
  /\ shard = [r \in Runs |-> NoShards]
  /\ working = [r \in Runs |-> {}]
  /\ broken = [r \in Runs |-> {}]
  /\ outcome = [r \in Runs |-> NoOutcome]
  /\ result = [r \in Runs |-> [e \in Entries |-> "none"]]
  /\ context = [r \in Runs |-> {}]
  /\ uses = [r \in Runs |-> [e \in Entries |-> 0]]

\* A run starts.  With nothing selected its report is empty.
Start(r, q) ==
  /\ phase[r] = "idle"
  /\ job' = Set(job, r, q)
  /\ \/ /\ q.selected = {}
        /\ phase' = Set(phase, r, "done")
        /\ UNCHANGED <<at, pending, uses>>
     \/ /\ q.selected # {} /\ q.strategy = "layered"
        /\ phase' = Set(phase, r, "classify")
        /\ pending' = Set(pending, r, {e \in q.selected : q.package.layer[e] = 0})
        /\ UNCHANGED <<at, uses>>
     \/ /\ q.selected # {} /\ q.strategy # "layered"
        /\ phase' = Set(phase, r, "next")
        /\ at' = Set(at, r, 1)
        /\ uses' = Set(uses, r, IF q.strategy = "reference"
                                THEN [d \in Entries |-> UseCount(q, d)]
                                ELSE uses[r])
        /\ UNCHANGED pending
  /\ UNCHANGED <<memo, runnable, shard, working, broken, outcome, result, context>>

\* The thread that runs r, waiting for nobody but its workers.
Coordinate(r) ==
  \/ Classify(r) \/ StartLayer(r) \/ Join(r) \/ Merge(r) \/ EndLayer(r)
  \/ PassBy(r) \/ Skip(r) \/ TakeCached(r) \/ Consult(r) \/ Check(r) \/ Finish(r)

Next ==
  \E r \in Runs :
    \/ \E q \in Requests : Start(r, q)
    \/ Coordinate(r)
    \/ \E s \in 1..Jobs : Work(r, s) \/ Panic(r, s)

Fairness ==
  \A r \in Runs :
    /\ WF_vars(Coordinate(r))
    /\ \A s \in 1..Jobs : WF_vars(Work(r, s) \/ Panic(r, s))

Spec == Init /\ [][Next]_vars /\ Fairness

-----------------------------------------------------------------------------
(* Correctness *)

Keys == Packages \X Modes \X Entries \X {"locked", "other"}
Phases == {"idle", "classify", "work", "merge", "next", "check", "done",
           "worker_lost", "internal_error"}

\* The types of the state: only supplied bytes have memo entries, and a run's
\* use counts never become negative.
TypeOK ==
  /\ memo \subseteq Keys \X {"passed", "failed"}
  /\ job \in [Runs -> Requests \cup {NoRequest}]
  /\ phase \in [Runs -> Phases]
  /\ at \in [Runs -> 0..(N + 1)]
  /\ pending \in [Runs -> SUBSET Entries]
  /\ runnable \in [Runs -> SUBSET Entries]
  /\ DOMAIN shard = Runs /\ DOMAIN outcome = Runs
  /\ \A r \in Runs : /\ DOMAIN shard[r] \subseteq Entries
                     /\ shard[r] \in [DOMAIN shard[r] -> 1..Jobs]
                     /\ DOMAIN outcome[r] \subseteq Entries
                     /\ outcome[r] \in [DOMAIN outcome[r] -> {"passed", "failed"}]
  /\ working \in [Runs -> SUBSET (1..Jobs)]
  /\ broken \in [Runs -> SUBSET (1..Jobs)]
  /\ result \in [Runs -> [Entries -> {"none", "passed", "failed", "skipped", "cached"}]]
  /\ context \in [Runs -> SUBSET Entries]
  /\ uses \in [Runs -> [Entries -> Nat]]

\* The bytes of entry e are the locked ones, and the checker accepts them.
Good(r, e) ==
  /\ job[r].artifact[e] = "locked"
  /\ e \in job[r].package.sound[Mode(job[r].strategy)]

\* Whatever the memo held, and however the workers were interleaved: a module
\* passes only on its own merits and those of its imports, a failure is blamed on
\* a module that is itself at fault, and a module is skipped only after a failure
\* (of one of its imports, in the layered execution).
VerdictsAreExact ==
  \A r \in Runs : \A e \in Entries :
    /\ result[r][e] = "passed" => /\ Good(r, e)
                                  /\ Imports(r, e) \subseteq Has(r, "passed")
    /\ result[r][e] = "failed" => /\ ~ Good(r, e)
                                  /\ Imports(r, e) \subseteq Has(r, "passed")
    /\ result[r][e] = "skipped" => IF job[r].strategy = "layered" THEN Blocked(r, e)
                                   ELSE \E d \in Has(r, "failed") : d < e

\* The status of the report.
Passed(r) ==
  IF job[r].strategy = "layered" THEN Selected(r) \subseteq Has(r, "passed")
  ELSE Has(r, "failed") = {}

\* Every strategy reports on all selected modules, and its report says passed
\* exactly when all their certificates are good: memo hits, cache hits, thread
\* counts and the retirement of contexts change nothing.
ReportIsTrue ==
  \A r \in Runs : phase[r] = "done" =>
    /\ \A e \in Selected(r) : result[r][e] # "none"
    /\ Passed(r) <=> \A e \in Selected(r) : Good(r, e)

\* The reference execution keeps exactly the checked modules that a module still
\* to come imports: none is retired too early, and none is kept for nothing.
RetainedExactly ==
  \A r \in Runs :
    (job[r].strategy = "reference" /\ phase[r] \in {"next", "check"}
     /\ Has(r, "failed") = {}) =>
      context[r] = {d \in Has(r, "passed") :
                      \E e \in Selected(r) : e >= at[r] /\ d \in Imports(r, e)}

\* record_verified never meets a module that was verified before or has no bytes.
NoInternalError == \A r \in Runs : phase[r] # "internal_error"

\* Every run that was started ends, with a report or with the loss of a worker.
VerificationEnds ==
  \A r \in Runs : (phase[r] # "idle") ~> (phase[r] \in {"done", "worker_lost"})
=============================================================================
