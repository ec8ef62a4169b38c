--------------------------- MODULE UniverseClosure ---------------------------
(***************************************************************************)
(* The difference-constraint closure behind a universe context             *)
(* (UniverseConstraintClosure, npa-kernel/src/level.rs).  Node 0 stands    *)
(* for the level zero and node p for the p-th universe parameter.  An edge *)
(* bounds a difference: value(to) - value(from) <= weight.  The edges of   *)
(* the constraints are added one by one, the matrix is closed row by row,  *)
(* and a negative diagonal refuses the context.                            *)
(***************************************************************************)
EXTENDS Integers

CONSTANTS
    Params,     \* how many universe parameters the declaration has
    Weights,    \* weights an edge may have
    Values,     \* universe levels the valuations of the properties range over
    None        \* no bound yet

ASSUME ParamsAssumption == Params \in Nat
ASSUME WeightsAssumption == Weights \subseteq Int /\ Values \subseteq Int
ASSUME NoneAssumption == None \notin Int

Nodes == 0 .. Params

Edges == [from : Nodes, to : Nodes, weight : Weights]

VARIABLES
    dist,       \* the matrix of the best known bounds
    edges,      \* the edges added so far: what the matrix is to mean
    phase,      \* how far the construction of the context is
    k, i        \* the loop variables of `close`

closureVars == <<dist, edges, phase, k, i>>

Bounded(m, a, b) == m[a][b] # None

WithLowerBounds == [a \in Nodes |-> [b \in Nodes |-> IF a = b \/ b = 0 THEN 0 ELSE None]]

ClosureInit ==
    /\ dist = WithLowerBounds
    /\ edges = {}
    /\ phase = "build"
    /\ k = 0 /\ i = 0

(* An added edge replaces whatever bound was there. *)
MutLatest(old, w) == w

Tighter(old, w) == IF old = None THEN w ELSE IF w < old THEN w ELSE old

AddEdge(e) ==
    /\ phase = "build"
    /\ dist' = [dist EXCEPT ![e.from][e.to] = Tighter(@, e.weight)]
    /\ edges' = edges \cup {e}
    /\ UNCHANGED <<phase, k, i>>

BeginClose ==
    /\ phase = "build"
    /\ phase' = "close"
    /\ UNCHANGED <<dist, edges, k, i>>

(* The two bounds are chained the wrong way round. *)
MutRelaxed(m, mid, r) ==
    [j \in Nodes |-> IF Bounded(m, r, mid) /\ Bounded(m, j, mid)
                     THEN Tighter(m[r][j], m[r][mid] + m[j][mid]) ELSE m[r][j]]

(* The inner loop over j: every entry of row r through the node mid.  The  *)
(* entry (r, mid) is read once, before the loop.                           *)
Relaxed(m, mid, r) ==
    [j \in Nodes |-> IF Bounded(m, r, mid) /\ Bounded(m, mid, j)
                     THEN Tighter(m[r][j], m[r][mid] + m[mid][j]) ELSE m[r][j]]

CloseRow ==
    /\ phase = "close"
    /\ k \in Nodes
    /\ dist' = [dist EXCEPT ![i] = Relaxed(dist, k, i)]
    /\ i' = IF i = Params THEN 0 ELSE i + 1
    /\ k' = IF i = Params THEN k + 1 ELSE k
    /\ UNCHANGED <<edges, phase>>

NegativeCycle == \E n \in Nodes : Bounded(dist, n, n) /\ dist[n][n] < 0

Decide ==
    /\ phase = "close"
    /\ k \notin Nodes
    /\ phase' = IF NegativeCycle THEN "unsatisfiable" ELSE "accepted"
    /\ UNCHANGED <<dist, edges, k, i>>

ClosureNext == (\E e \in Edges : AddEdge(e)) \/ BeginClose \/ CloseRow \/ Decide

ClosureSpec == ClosureInit /\ [][ClosureNext]_closureVars

Entailed(m, from, to, bound) == Bounded(m, from, to) /\ m[from][to] <= bound

------------------------------------------------------------------------------
(* Valuations give zero the value 0 and no parameter less. *)
Valuations == {v \in [Nodes -> Values] : v[0] = 0 /\ \A n \in Nodes : v[n] >= 0}

Respects(v, e) == v[e.to] - v[e.from] <= e.weight

Models == {v \in Valuations : \A e \in edges : Respects(v, e)}

ClosureTypeOK ==
    /\ dist \in [Nodes -> [Nodes -> Int \cup {None}]]
    /\ edges \subseteq Edges
    /\ phase \in {"build", "close", "accepted", "unsatisfiable"}
    /\ k \in 0 .. Params + 1 /\ i \in Nodes

(* A bound the closure holds, at any moment of its construction, is a bound *)
(* of every valuation that respects the edges added so far; and a context is *)
(* refused as unsatisfiable only when no valuation respects its edges        *)
(* (UniverseConstraintClosure::add_edge, close and entails).                 *)
ClosureSound ==
    /\ \A v \in Models : \A a, b \in Nodes :
          Bounded(dist, a, b) => v[b] - v[a] <= dist[a][b]
    /\ phase = "unsatisfiable" => Models = {}

(* No step loosens a bound, so that a negative diagonal met once is still    *)
(* there when `close` looks for one, whatever the later rows add to it.      *)
NeverLoosened ==
    [][\A a, b \in Nodes : Bounded(dist, a, b) =>
          Bounded(dist', a, b) /\ dist'[a][b] <= dist[a][b]]_closureVars
=============================================================================
