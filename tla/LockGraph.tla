------------------------------ MODULE LockGraph ------------------------------
(***************************************************************************)
(* The package lock becomes a graph: every import is resolved to an entry, *)
(* the entries are put into dependency-first order by an iterative         *)
(* depth-first traversal, and the result is turned into the index that     *)
(* every later stage of verification plans with.                           *)
(*                                                                         *)
(* Entries are numbered in the order of their module names, and an entry's *)
(* imports are visited in that order too (normalized_package_lock sorts    *)
(* both), so a set of imports says everything about their sequence.        *)
(***************************************************************************)
EXTENDS Integers, Sequences, FiniteSets

CONSTANTS
  N,       \* the number of entries
  Locks    \* the locks considered, each valid by itself

Entries == 1..N
Absent == 0                        \* a module that has no entry in the lock
Names == Entries \cup {Absent}
Hashes == {"export_hash", "certificate_hash"}

\* A lock that validate_package_lock_manifest accepts: one entry per module, one
\* import per imported module.  stale holds the imports whose hash is not the
\* one of the entry they name.
LockType == [imports : [Entries -> SUBSET Names],
             external : SUBSET Entries,
             stale : SUBSET (Entries \X Names \X Hashes)]

ASSUME LockAssumption == N \in Nat /\ Locks \subseteq LockType

VARIABLES
  lock,    \* the normalized lock
  phase,   \* "resolve", "visit", "index", "indexed", "rejected" or "broken"
  reason,  \* why the lock was rejected, or "none"
  states,  \* LockVisitState of each entry
  frames,  \* the traversal stack; rest are the imports not looked at yet
  order,   \* the entries visited so far
  cycle    \* the import cycle reported

vars == <<lock, phase, reason, states, frames, order, cycle>>

Imports(e) == lock.imports[e]
Least(S) == CHOOSE x \in S : \A y \in S : x <= y

-----------------------------------------------------------------------------
(* resolve_lock_entry_imports *)

\* The first check that the import of i by e fails.
ImportError(e, i) ==
  IF i = Absent THEN "import_missing"
  ELSE IF e \in lock.external /\ i \notin lock.external THEN "external_depends_on_local"
  ELSE IF <<e, i, "export_hash">> \in lock.stale THEN "export_hash_mismatch"
  ELSE IF <<e, i, "certificate_hash">> \in lock.stale THEN "certificate_hash_mismatch"
  ELSE "none"

BadImports(e) == {i \in Imports(e) : ImportError(e, i) # "none"}
BadEntries == {e \in Entries : BadImports(e) # {}}

Resolve ==
  /\ phase = "resolve"
  /\ IF BadEntries = {}
     THEN phase' = "visit" /\ UNCHANGED reason
     ELSE /\ phase' = "rejected"
          /\ reason' = LET e == Least(BadEntries) IN ImportError(e, Least(BadImports(e)))
  /\ UNCHANGED <<lock, states, frames, order, cycle>>

-----------------------------------------------------------------------------
(* lock_topological_order and visit_lock_entry *)

Frames == [entry : Entries, rest : SUBSET Entries]
Unvisited == {e \in Entries : states[e] = "unvisited"}
Frame(e) == [entry |-> e, rest |-> Imports(e)]

\* The loop over the entries finds the next one that is not visited ...
StartVisit ==
  /\ phase = "visit"
  /\ frames = <<>>
  /\ Unvisited # {}
  /\ LET e == Least(Unvisited) IN
       /\ states' = [states EXCEPT ![e] = "visiting"]
       /\ frames' = <<Frame(e)>>
  /\ UNCHANGED <<lock, phase, reason, order, cycle>>

\* ... or comes to its end.
EndVisit ==
  /\ phase = "visit"
  /\ frames = <<>>
  /\ Unvisited = {}
  /\ phase' = "index"
  /\ UNCHANGED <<lock, reason, states, frames, order, cycle>>

Top == frames[Len(frames)]

\* The top entry has no import left: it follows all of them in the order.
Finish_TooEarly ==
  /\ phase = "visit"
  /\ frames # <<>>
  /\ Cardinality(Top.rest) <= 1
  /\ frames' = SubSeq(frames, 1, Len(frames) - 1)
  /\ states' = [states EXCEPT ![Top.entry] = "visited"]
  /\ order' = Append(order, Top.entry)
  /\ UNCHANGED <<lock, phase, reason, cycle>>
Finish_Unmarked ==
  /\ phase = "visit"
  /\ frames # <<>>
  /\ Top.rest = {}
  /\ frames' = SubSeq(frames, 1, Len(frames) - 1)
  /\ order' = Append(order, Top.entry)
  /\ UNCHANGED <<lock, phase, reason, states, cycle>>
Finish ==
  /\ phase = "visit"
  /\ frames # <<>>
  /\ Top.rest = {}
  /\ frames' = SubSeq(frames, 1, Len(frames) - 1)
  /\ states' = [states EXCEPT ![Top.entry] = "visited"]
  /\ order' = Append(order, Top.entry)
  /\ UNCHANGED <<lock, phase, reason, cycle>>

\* lock_cycle_path: the frames from the repeated entry on.
CyclePath_WholeStack(stack, repeated) ==
  Append([k \in 1..Len(stack) |-> stack[k].entry], repeated)
CyclePath(stack, repeated) ==
  LET found == {k \in 1..Len(stack) : stack[k].entry = repeated}
      start == IF found = {} THEN 1 ELSE CHOOSE k \in found : TRUE
  IN Append([k \in 1..(Len(stack) - start + 1) |-> stack[start + k - 1].entry], repeated)

\* next_import_index of the top frame moves past import i.
Looked_Again(i) == frames
Looked(i) == [frames EXCEPT ![Len(frames)].rest = @ \ {i}]

\* The next import of the top entry is looked at.
VisitImport ==
  /\ phase = "visit"
  /\ frames # <<>>
  /\ Top.rest # {}
  /\ LET i == Least(Top.rest) IN
        \/ /\ states[i] = "unvisited"
           /\ states' = [states EXCEPT ![i] = "visiting"]
           /\ frames' = Append(Looked(i), Frame(i))
           /\ UNCHANGED <<phase, reason, cycle>>
        \/ /\ states[i] = "visiting"
           /\ phase' = "rejected"
           /\ reason' = "import_cycle"
           /\ cycle' = CyclePath(frames, i)
           /\ frames' = Looked(i)
           /\ UNCHANGED states
        \/ /\ states[i] = "visited"
           /\ frames' = Looked(i)
           /\ UNCHANGED <<phase, reason, states, cycle>>
  /\ UNCHANGED <<lock, order>>

-----------------------------------------------------------------------------
(* build_indexed_package_lock_graph *)

\* topological_position_by_entry.
Position(e) == CHOOSE k \in 1..Len(order) : order[k] = e

\* The index is built; its checks are internal invariants that must not fail.
Index ==
  /\ phase = "index"
  /\ phase' = IF /\ Len(order) = N
                 /\ \A j, k \in 1..Len(order) : order[j] = order[k] => j = k
                 /\ \A e \in Entries : \A d \in Imports(e) :
                      d \in Entries /\ Position(d) < Position(e)
              THEN "indexed" ELSE "broken"
  /\ UNCHANGED <<lock, reason, states, frames, order, cycle>>

\* dependencies and reverse_dependencies of the index.
Dependencies(e) == Imports(e)
ReverseDependencies(e) == {d \in Entries : e \in Imports(d)}

-----------------------------------------------------------------------------
Init ==
  /\ lock \in Locks
  /\ phase = "resolve"
  /\ reason = "none"
  /\ states = [e \in Entries |-> "unvisited"]
  /\ frames = <<>>
  /\ order = <<>>
  /\ cycle = <<>>

Build == Resolve \/ StartVisit \/ EndVisit \/ Finish \/ VisitImport \/ Index

Next == Build

Spec == Init /\ [][Next]_vars /\ WF_vars(Build)

-----------------------------------------------------------------------------
Reasons == {"none", "import_missing", "external_depends_on_local",
            "export_hash_mismatch", "certificate_hash_mismatch", "import_cycle"}

\* Every variable has its type: entries on the stack, in the order and in the cycle
\* are entries of the lock, and nothing that did not resolve is ever visited.
TypeOK ==
  /\ lock \in Locks
  /\ phase \in {"resolve", "visit", "index", "indexed", "rejected", "broken"}
  /\ reason \in Reasons
  /\ states \in [Entries -> {"unvisited", "visiting", "visited"}]
  /\ frames \in Seq(Frames)
  /\ order \in Seq(Entries)
  /\ cycle \in Seq(Entries)

\* An entry is put into the order after everything it imports: lock_topological_
\* order is the order in which modules are verified, and a module is verified
\* with its imports' results.
DependencyFirst ==
  \A k \in 1..Len(order) : \A d \in Imports(order[k]) :
    \E j \in 1..(k - 1) : order[j] = d

\* A reported cycle is one: each module of the path imports the next, and the
\* last is the first (visit_lock_entry reports the stack from the repeated entry).
CycleIsReal ==
  reason = "import_cycle" =>
    /\ Len(cycle) >= 2
    /\ cycle[1] = cycle[Len(cycle)]
    /\ \A k \in 1..(Len(cycle) - 1) : cycle[k + 1] \in Imports(cycle[k])

\* The internal invariants of build_indexed_package_lock_graph never fail: no
\* accepted lock ends in an InternalInvariant error.
IndexHolds == phase # "broken"

\* A set of entries each of which imports one of the set.
Cyclic == \E S \in SUBSET Entries : S # {} /\ \A e \in S : Imports(e) \cap S # {}

\* A lock is indexed exactly when its imports resolve and contain no cycle.
VerdictIsRight ==
  /\ phase = "indexed" => BadEntries = {} /\ ~ Cyclic
  /\ phase = "rejected" => BadEntries # {} \/ Cyclic

\* Building the graph comes to an end.
BuildEnds == <>(phase \in {"indexed", "rejected"})
=============================================================================
