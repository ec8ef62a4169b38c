--------------------------- MODULE VerificationPlan ---------------------------
(***************************************************************************)
(* What verification plans with the index of the lock graph: the modules   *)
(* to execute for a selection, the layers in which they may be executed in *)
(* parallel, and the modules that must stay live next to the hits of the   *)
(* local audit cache.  Each is a worklist over the index.                  *)
(*                                                                         *)
(* A worklist is the set of the entries on it, and any of them is taken    *)
(* next; the code takes the last.                                          *)
(***************************************************************************)
EXTENDS LockGraph

VARIABLES
  step,       \* which loop is running
  query,      \* what was asked for
  selected,   \* selected, or live
  pending,    \* the worklist
  visited,    \* reverse_visited, or forward_visited
  layer       \* layer_by_entry of the entries that have one

planVars == <<step, query, selected, pending, visited, layer>>
allVars == <<vars, planVars>>

NoQuery == [seeds |-> {}, hits |-> {}]
NoLayers == [e \in {} |-> 0]

-----------------------------------------------------------------------------
(* execution_modules_for_indexed and dependency_closure *)

\* The modules a caller selects, which may be missing from the lock.
Select(seeds) ==
  /\ phase = "indexed"
  /\ step = "idle"
  /\ query' = [NoQuery EXCEPT !.seeds = seeds]
  /\ IF Absent \in seeds
     THEN step' = "selected_module_missing" /\ UNCHANGED <<selected, pending>>
     ELSE step' = "close" /\ selected' = seeds /\ pending' = seeds
  /\ UNCHANGED <<visited, layer>>

\* Without a selection everything is executed.
SelectAll ==
  /\ phase = "indexed"
  /\ step = "idle"
  /\ query' = [NoQuery EXCEPT !.seeds = Entries]
  /\ step' = "layer"
  /\ selected' = Entries
  /\ UNCHANGED <<pending, visited, layer>>

CloseStep_Direct ==
  /\ step = "close"
  /\ \E e \in pending :
       /\ pending' = pending \ {e}
       /\ selected' = selected \cup Dependencies(e)
  /\ UNCHANGED <<step, query, visited, layer>>

CloseStep ==
  /\ step = "close"
  /\ \E e \in pending :
       /\ pending' = (pending \ {e}) \cup (Dependencies(e) \ selected)
       /\ selected' = selected \cup Dependencies(e)
  /\ UNCHANGED <<step, query, visited, layer>>

CloseEnd ==
  /\ step = "close"
  /\ pending = {}
  /\ step' = "layer"
  /\ UNCHANGED <<query, selected, pending, visited, layer>>

-----------------------------------------------------------------------------
(* topological_layers *)

\* One above the highest selected dependency.
LayerOf_FirstFree(e) == Cardinality(Dependencies(e) \cap selected)
LayerOf(e) ==
  LET below == {layer[d] + 1 : d \in Dependencies(e) \cap selected}
  IN IF below = {} THEN 0 ELSE CHOOSE l \in below : \A m \in below : m <= l

\* The next selected entry of the topological order gets its layer.
LayerStep ==
  /\ step = "layer"
  /\ \E k \in 1..Len(order) :
       /\ order[k] \in selected \ DOMAIN layer
       /\ \A j \in 1..(k - 1) : order[j] \in selected => order[j] \in DOMAIN layer
       /\ layer' = [e \in DOMAIN layer \cup {order[k]} |->
                      IF e = order[k] THEN LayerOf(e) ELSE layer[e]]
  /\ UNCHANGED <<step, query, selected, pending, visited>>

LayerEnd ==
  /\ step = "layer"
  /\ selected = DOMAIN layer
  /\ step' = "layered"
  /\ UNCHANGED <<query, selected, pending, visited, layer>>

-----------------------------------------------------------------------------
(* local_audit_cache_live_modules *)

\* Everything but the cache hits is live, and the dirty modules are.
Live(hits, dirty) ==
  /\ phase = "indexed"
  /\ step = "idle"
  /\ query' = [seeds |-> dirty, hits |-> hits]
  /\ IF Absent \in dirty
     THEN step' = "selected_module_missing" /\ UNCHANGED <<selected, pending, visited>>
     ELSE /\ step' = "reverse"
          /\ selected' = (Entries \ hits) \cup dirty
          /\ pending' = dirty
          /\ visited' = dirty
  /\ UNCHANGED layer

\* What imports a dirty module is live, whatever the cache says.
ReverseStep_OnlyNew ==
  /\ step = "reverse"
  /\ \E e \in pending :
       LET dependents == ReverseDependencies(e) IN
       /\ selected' = selected \cup dependents
       /\ pending' = (pending \ {e}) \cup (dependents \ selected)
       /\ visited' = visited \cup dependents
  /\ UNCHANGED <<step, query, layer>>
ReverseStep ==
  /\ step = "reverse"
  /\ \E e \in pending :
       LET dependents == ReverseDependencies(e) IN
       /\ selected' = selected \cup dependents
       /\ pending' = (pending \ {e}) \cup (dependents \ visited)
       /\ visited' = visited \cup dependents
  /\ UNCHANGED <<step, query, layer>>

ReverseEnd ==
  /\ step = "reverse"
  /\ pending = {}
  /\ step' = "forward"
  /\ pending' = selected
  /\ visited' = {}
  /\ UNCHANGED <<query, selected, layer>>

\* What a live module imports is live.
ForwardStep ==
  /\ step = "forward"
  /\ \E e \in pending :
       /\ visited' = visited \cup {e}
       /\ IF e \in visited
          THEN pending' = pending \ {e} /\ UNCHANGED selected
          ELSE /\ selected' = selected \cup Dependencies(e)
               /\ pending' = (pending \ {e}) \cup (Dependencies(e) \ visited')
  /\ UNCHANGED <<step, query, layer>>

ForwardEnd ==
  /\ step = "forward"
  /\ pending = {}
  /\ step' = "live"
  /\ UNCHANGED <<query, selected, pending, visited, layer>>

-----------------------------------------------------------------------------
PlanInit ==
  /\ Init
  /\ step = "idle"
  /\ query = NoQuery
  /\ selected = {}
  /\ pending = {}
  /\ visited = {}
  /\ layer = NoLayers

Ask ==
  \/ \E seeds \in SUBSET Names : Select(seeds)
  \/ SelectAll
  \/ \E hits \in SUBSET Entries, dirty \in SUBSET Names : Live(hits, dirty)

Work ==
  \/ CloseStep \/ CloseEnd
  \/ LayerStep \/ LayerEnd
  \/ ReverseStep \/ ReverseEnd \/ ForwardStep \/ ForwardEnd

PlanNext ==
  \/ Build /\ UNCHANGED planVars
  \/ (Ask \/ Work) /\ UNCHANGED vars

PlanSpec ==
  /\ PlanInit
  /\ [][PlanNext]_allVars
  /\ WF_allVars(Build /\ UNCHANGED planVars)

-----------------------------------------------------------------------------
Steps == {"idle", "selected_module_missing", "close", "layer", "layered",
          "reverse", "forward", "live"}

\* The types of the plan: only selected entries are on a worklist, visited or in a
\* layer.
PlanTypeOK ==
  /\ TypeOK
  /\ step \in Steps
  /\ query \in [seeds : SUBSET Names, hits : SUBSET Entries]
  /\ selected \subseteq Entries
  /\ pending \subseteq selected
  /\ visited \subseteq selected
  /\ DOMAIN layer \subseteq selected
  /\ \A e \in DOMAIN layer : layer[e] \in Nat

Closed(S) == \A e \in S : Dependencies(e) \subseteq S
ClosedUp(S) == \A e \in S : ReverseDependencies(e) \subseteq S
Closure(S) == {e \in Entries : \A T \in SUBSET Entries : S \subseteq T /\ Closed(T) => e \in T}
ClosureUp(S) == {e \in Entries : \A T \in SUBSET Entries : S \subseteq T /\ ClosedUp(T) => e \in T}

\* dependency_closure: the modules executed for a selection are the selected ones
\* and all they import directly or indirectly, and no others.
SelectionIsClosure ==
  step \in {"layer", "layered"} => selected = Closure(query.seeds)

\* topological_layers: a module is in a later layer than everything it imports,
\* so the modules of a layer can be verified in any order, and no later than it
\* must be.
LayersAreMinimal ==
  \A e \in DOMAIN layer :
    /\ \A d \in Dependencies(e) \cap selected : d \in DOMAIN layer /\ layer[d] < layer[e]
    /\ layer[e] > 0 => \E d \in Dependencies(e) : layer[d] = layer[e] - 1

\* local_audit_cache_live_modules: live are the modules without a cache hit, those
\* that import a dirty one, and everything these import; a hit is trusted only
\* for the rest.
LiveIsExact ==
  step = "live" =>
    selected = Closure((Entries \ query.hits) \cup ClosureUp(query.seeds))
=============================================================================
