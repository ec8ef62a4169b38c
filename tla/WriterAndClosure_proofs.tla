---------------------- MODULE WriterAndClosure_proofs ----------------------
(***************************************************************************)
(* Proofs about two small components that share nothing: the writer of     *)
(* governance artifacts, and the closure of a universe context.  The       *)
(* constants and variables of the two modules are different ones, and no   *)
(* proof about the one uses a fact about the other.                        *)
(***************************************************************************)
EXTENDS GovernanceWriter, UniverseClosure, TLAPS

-----------------------------------------------------------------------------
(* No update of a governance artifact is lost, for any number of commands     *)
(* and any assignment of the three protocols.                                 *)

\* The flock excludes: a command is between lock and unlock iff it holds it.
Exclusive == \A c \in Commands : pc[c] \in Locked <=> holder = c

\* What a command would write is what it captured and its own contribution.
BytesExtend == \A c \in Commands : bytes[c] = expected[c] \cup {c}

\* The comparison is still true when the temporary file is renamed, and the
\* renamed bytes are still there when the directory is synced.
Unchanged ==
  \A c \in Commands :
    /\ pc[c] = "publish" => content \subseteq bytes[c]
    /\ pc[c] = "sync" => c \in content

WriterInv == TypeOK /\ Exclusive /\ BytesExtend /\ Unchanged /\ WrittenIsKept

LEMMA InitWriterInv == Init => WriterInv
  BY NobodyAssumption DEF Init, WriterInv, TypeOK, Exclusive, BytesExtend, Unchanged, WrittenIsKept, Locked

LEMMA FinishLemma ==
  ASSUME WriterInv, NEW c \in Commands, Finish(c), UNCHANGED <<content, images, expected, bytes, written>>
  PROVE  WriterInv'
  BY NobodyAssumption
     DEF Finish, WriterInv, TypeOK, Exclusive, BytesExtend, Unchanged, WrittenIsKept, Locked

LEMMA NextWriterInv == WriterInv /\ [Next]_vars => WriterInv'
<1> SUFFICES ASSUME WriterInv, [Next]_vars PROVE WriterInv'
  OBVIOUS
<1> USE NobodyAssumption, PolicyAssumption
<1>1. CASE UNCHANGED vars
  BY <1>1 DEF vars, WriterInv, TypeOK, Exclusive, BytesExtend, Unchanged, WrittenIsKept
<1>2. CASE PowerLoss
  BY <1>2 DEF PowerLoss, WriterInv, TypeOK, Exclusive, BytesExtend, Unchanged, WrittenIsKept, Locked
<1>3. ASSUME NEW c \in Commands, ReadUnlocked(c) PROVE WriterInv'
  <2> USE <1>3 DEF ReadUnlocked
  <2>1. TypeOK'
    BY DEF WriterInv, TypeOK
  <2>2. Exclusive'
    BY DEF WriterInv, TypeOK, Exclusive, Locked
  <2>3. BytesExtend'
    BY DEF WriterInv, TypeOK, BytesExtend
  <2>4. Unchanged'
    BY DEF WriterInv, TypeOK, Unchanged
  <2> QED
    BY <2>1, <2>2, <2>3, <2>4 DEF WriterInv, WrittenIsKept
<1>4. ASSUME NEW c \in Commands, Acquire(c) PROVE WriterInv'
  <2> USE <1>4 DEF Acquire
  <2>1. TypeOK'
    BY DEF WriterInv, TypeOK, Locked
  <2>2. Exclusive'
    BY DEF WriterInv, TypeOK, Exclusive, Locked
  <2>3. Unchanged'
    BY DEF WriterInv, TypeOK, Unchanged
  <2> QED
    BY <2>1, <2>2, <2>3 DEF WriterInv, BytesExtend, WrittenIsKept
<1>5. ASSUME NEW c \in Commands, AcquireRefused(c) PROVE WriterInv'
  BY <1>5, FinishLemma DEF AcquireRefused
<1>6. ASSUME NEW c \in Commands, ReadLocked(c) PROVE WriterInv'
  <2>1. CASE content = {}
    BY <1>6, <2>1, FinishLemma DEF ReadLocked
  <2>2. CASE content # {}
    <3> USE <1>6, <2>2 DEF ReadLocked
    <3>1. TypeOK'
      BY DEF WriterInv, TypeOK, Locked
    <3>2. Exclusive'
      BY DEF WriterInv, TypeOK, Exclusive, Locked
    <3>3. BytesExtend'
      BY DEF WriterInv, TypeOK, BytesExtend
    <3>4. Unchanged'
      BY DEF WriterInv, TypeOK, Unchanged
    <3> QED
      BY <3>1, <3>2, <3>3, <3>4 DEF WriterInv, WrittenIsKept
  <2> QED
    BY <2>1, <2>2
<1>7. ASSUME NEW c \in Commands, Compare(c) PROVE WriterInv'
  <2>1. CASE Finish(c)
    BY <1>7, <2>1, FinishLemma DEF Compare
  <2>2. CASE ~ Finish(c)
    <3>1. /\ pc[c] = "compare"
          /\ pc' = [pc EXCEPT ![c] = "publish"]
          /\ content = {} \/ content = expected[c]
          /\ UNCHANGED <<content, images, expected, bytes, holder, written>>
      BY <1>7, <2>2 DEF Compare
    <3>2. TypeOK'
      BY <3>1 DEF WriterInv, TypeOK, Locked
    <3>3. Exclusive'
      BY <3>1 DEF WriterInv, TypeOK, Exclusive, Locked
    <3>4. Unchanged'
      BY <3>1 DEF WriterInv, TypeOK, BytesExtend, Unchanged
    <3> QED
      BY <3>1, <3>2, <3>3, <3>4 DEF WriterInv, BytesExtend, WrittenIsKept
  <2> QED
    BY <2>1, <2>2
<1>8. ASSUME NEW c \in Commands, Publish(c) PROVE WriterInv'
  <2> USE <1>8 DEF Publish
  <2>1. TypeOK'
    BY DEF WriterInv, TypeOK, Locked
  <2>2. Exclusive'
    BY DEF WriterInv, TypeOK, Exclusive, Locked
  <2>3. Unchanged'
    \* every other command is outside the lock
    BY DEF WriterInv, TypeOK, Exclusive, BytesExtend, Unchanged, Locked
  <2>4. WrittenIsKept'
    BY DEF WriterInv, TypeOK, Unchanged, WrittenIsKept
  <2> QED
    BY <2>1, <2>2, <2>3, <2>4 DEF WriterInv, BytesExtend
<1>9. ASSUME NEW c \in Commands, SyncDirectory(c) PROVE WriterInv'
  <2> USE <1>9 DEF SyncDirectory, Finish
  <2>1. TypeOK'
    BY DEF WriterInv, TypeOK
  <2>2. Exclusive'
    BY DEF WriterInv, TypeOK, Exclusive, Locked
  <2>3. Unchanged'
    BY DEF WriterInv, TypeOK, Unchanged
  <2>4. WrittenIsKept'
    BY DEF WriterInv, TypeOK, Unchanged, WrittenIsKept
  <2> QED
    BY <2>1, <2>2, <2>3, <2>4 DEF WriterInv, BytesExtend
<1>10. ASSUME NEW c \in Commands, Stop(c) PROVE WriterInv'
  BY <1>10, FinishLemma DEF Stop
<1> QED
  BY <1>1, <1>2, <1>3, <1>4, <1>5, <1>6, <1>7, <1>8, <1>9, <1>10 DEF Next

\* What a command wrote before it passed stays in the artifact, in every
\* content a power loss may leave: write_locked compares under the flock.
THEOREM NoUpdateIsLost == Spec => []WrittenIsKept
<1>1. WriterInv => WrittenIsKept
  BY DEF WriterInv
<1> QED
  BY InitWriterInv, NextWriterInv, <1>1, PTL DEF Spec

-----------------------------------------------------------------------------
(* The closure of a universe context is sound for every number of             *)
(* parameters, every set of edges and every order of adding them.             *)

(* The matrix m bounds the differences of the valuation v. *)
Bounds(m, v) == \A a, b \in Nodes : Bounded(m, a, b) => v[b] - v[a] <= m[a][b]

Matrices == [Nodes -> [Nodes -> Int \cup {None}]]

(* A bound is only ever replaced by a smaller one (add_edge). *)
LEMMA TighterLemma ==
    \A old \in Int \cup {None}, w \in Int :
       /\ Tighter(old, w) \in Int
       /\ Tighter(old, w) = w \/ (old # None /\ Tighter(old, w) = old)
       /\ old # None => Tighter(old, w) <= old
  BY NoneAssumption, SMT DEF Tighter

(* What a valuation is (zero is worth 0, no parameter is worth less).      *)
LEMMA ValuationLemma ==
    \A v \in Valuations : v[0] = 0 /\ \A a \in Nodes : v[a] \in Int /\ v[a] >= 0
  BY WeightsAssumption, Zenon DEF Valuations

(* The matrix the closure starts from holds for every valuation.           *)
LEMMA LowerBoundsLemma ==
    /\ WithLowerBounds \in Matrices
    /\ \A v \in Valuations : Bounds(WithLowerBounds, v)
<1>1. 0 \in Nodes /\ Nodes \subseteq Int
  BY ParamsAssumption, SMT DEF Nodes
<1>2. WithLowerBounds \in Matrices
  BY SMT DEF WithLowerBounds, Matrices
<1>3. ASSUME NEW v \in Valuations, NEW a \in Nodes, NEW b \in Nodes,
             Bounded(WithLowerBounds, a, b)
      PROVE  v[b] - v[a] <= WithLowerBounds[a][b]
  <2>1. v[a] \in Int /\ v[b] \in Int /\ v[a] >= 0 /\ v[0] = 0
    BY ValuationLemma, Zenon
  <2>2. (a = b \/ b = 0) /\ WithLowerBounds[a][b] = 0
    BY <1>3, SMT DEF Bounded, WithLowerBounds
  <2> QED BY <2>1, <2>2, SMT
<1> QED BY <1>2, <1>3 DEF Bounds

(* Chaining two bounds through a node gives a bound (the inner loop of     *)
(* `close`).                                                               *)
LEMMA RelaxedLemma ==
    ASSUME NEW m \in Matrices, NEW mid \in Nodes, NEW r \in Nodes
    PROVE  /\ Relaxed(m, mid, r) \in [Nodes -> Int \cup {None}]
           /\ \A b \in Nodes : Bounded(m, r, b) =>
                 Relaxed(m, mid, r)[b] # None /\ Relaxed(m, mid, r)[b] <= m[r][b]
           /\ \A v \in Valuations : Bounds(m, v) =>
                 \A b \in Nodes : Relaxed(m, mid, r)[b] # None =>
                    v[b] - v[r] <= Relaxed(m, mid, r)[b]
<1> DEFINE row == Relaxed(m, mid, r)
<1>1. ASSUME NEW b \in Nodes, Bounded(m, r, mid), Bounded(m, mid, b)
      PROVE  /\ row[b] = Tighter(m[r][b], m[r][mid] + m[mid][b])
             /\ m[r][mid] \in Int /\ m[mid][b] \in Int
             /\ m[r][b] \in Int \cup {None}
  BY <1>1, SMT DEF Relaxed, Bounded, Matrices
<1>2. ASSUME NEW b \in Nodes, ~(Bounded(m, r, mid) /\ Bounded(m, mid, b))
      PROVE  row[b] = m[r][b] /\ m[r][b] \in Int \cup {None}
  BY <1>2, SMT DEF Relaxed, Matrices
<1>3. ASSUME NEW b \in Nodes
      PROVE  row[b] \in Int \cup {None}
  <2>1. CASE Bounded(m, r, mid) /\ Bounded(m, mid, b)
    <3>1. m[r][mid] + m[mid][b] \in Int
      BY <1>1, <2>1, SMT
    <3> QED BY <1>1, <2>1, <3>1, TighterLemma, Zenon
  <2> QED BY <1>2, <2>1, Zenon
<1>4. row \in [Nodes -> Int \cup {None}]
  BY <1>3 DEF Relaxed
<1> HIDE DEF row
<1>5. ASSUME NEW b \in Nodes, Bounded(m, r, b)
      PROVE  row[b] # None /\ row[b] <= m[r][b]
  <2>1. m[r][b] \in Int /\ m[r][b] # None
    BY <1>5, SMT DEF Bounded, Matrices
  <2>2. CASE Bounded(m, r, mid) /\ Bounded(m, mid, b)
    <3>1. m[r][mid] + m[mid][b] \in Int
      BY <1>1, <2>2, SMT
    <3>2. row[b] = Tighter(m[r][b], m[r][mid] + m[mid][b])
      BY <1>1, <2>2, Zenon
    <3>3. /\ Tighter(m[r][b], m[r][mid] + m[mid][b]) \in Int
          /\ Tighter(m[r][b], m[r][mid] + m[mid][b]) <= m[r][b]
      <4>1. m[r][b] \in Int \cup {None}
        BY <2>1, Zenon
      <4> QED BY <2>1, <3>1, <4>1, TighterLemma, Zenon
    <3> QED BY <3>2, <3>3, NoneAssumption, Zenon
  <2>3. CASE ~(Bounded(m, r, mid) /\ Bounded(m, mid, b))
    <3>1. row[b] = m[r][b]
      BY <1>2, <2>3, Zenon
    <3>2. m[r][b] <= m[r][b]
      BY <2>1, SMT
    <3> QED BY <2>1, <3>1, <3>2, Zenon
  <2> QED BY <2>2, <2>3
<1>6. ASSUME NEW v \in Valuations, Bounds(m, v), NEW b \in Nodes, row[b] # None
      PROVE  v[b] - v[r] <= row[b]
  <2>1. v[b] \in Int /\ v[r] \in Int /\ v[mid] \in Int
    BY ValuationLemma, Zenon
  <2>2. CASE Bounded(m, r, mid) /\ Bounded(m, mid, b)
    <3>1. v[mid] - v[r] <= m[r][mid] /\ v[b] - v[mid] <= m[mid][b]
      BY <1>6, <2>2 DEF Bounds
    <3>2. v[b] - v[r] <= m[r][mid] + m[mid][b]
      BY <1>1, <2>1, <2>2, <3>1, SMT
    <3>3. CASE row[b] = m[r][mid] + m[mid][b]
      BY <3>2, <3>3
    <3>4. CASE row[b] = m[r][b]
      BY <1>6, <3>4 DEF Bounds, Bounded
    <3>5. row[b] = m[r][mid] + m[mid][b] \/ row[b] = m[r][b]
      BY <1>1, <2>2 DEF Tighter
    <3> QED BY <3>3, <3>4, <3>5, Zenon
  <2>3. CASE ~(Bounded(m, r, mid) /\ Bounded(m, mid, b))
    BY <1>2, <1>6, <2>3 DEF Bounds, Bounded
  <2> QED BY <2>2, <2>3
<1> QED BY <1>4, <1>5, <1>6, Zenon DEF Bounded, row

(* The inductive invariant, in the terms of the lemmas. *)
ClosureInv ==
    /\ ClosureTypeOK
    /\ \A v \in Models : Bounds(dist, v)
    /\ phase = "unsatisfiable" => Models = {}

LEMMA InitLemma == ClosureInit => ClosureInv
<1> SUFFICES ASSUME ClosureInit PROVE ClosureInv
  OBVIOUS
<1>1. ClosureTypeOK
  BY LowerBoundsLemma, ParamsAssumption, SMT DEF ClosureInit, ClosureTypeOK, Matrices, Nodes
<1>2. \A v \in Models : Bounds(dist, v)
  BY LowerBoundsLemma DEF ClosureInit, Models
<1> QED BY <1>1, <1>2 DEF ClosureInit, ClosureInv

(* An added edge keeps the matrix typed, and sound for the valuations that  *)
(* respect the edge too (add_edge).                                         *)
LEMMA AddEdgeLemma ==
    ASSUME ClosureInv, NEW e \in Edges, AddEdge(e)
    PROVE  /\ dist' \in Matrices
           /\ \A a, b \in Nodes : Bounded(dist, a, b) =>
                 Bounded(dist', a, b) /\ dist'[a][b] <= dist[a][b]
           /\ \A v \in Valuations : Bounds(dist, v) /\ Respects(v, e) => Bounds(dist', v)
<1>1. /\ e.from \in Nodes /\ e.to \in Nodes /\ e.weight \in Int
      /\ dist \in Matrices
  <2>1. e.from \in Nodes /\ e.to \in Nodes /\ e.weight \in Int
    <3>1. e.from \in Nodes /\ e.to \in Nodes /\ e.weight \in Weights
      BY SMT DEF Edges
    <3> QED BY <3>1, WeightsAssumption, Zenon
  <2> QED BY <2>1, Zenon DEF ClosureInv, ClosureTypeOK, Matrices
<1> DEFINE t == Tighter(dist[e.from][e.to], e.weight)
<1>3. dist[e.from][e.to] \in Int \cup {None}
  BY <1>1, SMT DEF Matrices
<1>4. /\ t \in Int /\ t # None
      /\ t = e.weight \/ (dist[e.from][e.to] # None /\ t = dist[e.from][e.to])
      /\ dist[e.from][e.to] # None => t <= dist[e.from][e.to]
  BY <1>1, <1>3, TighterLemma, NoneAssumption, Zenon
<1>5. dist' = [dist EXCEPT ![e.from][e.to] = t]
  BY DEF AddEdge
<1> HIDE DEF t
<1>6. dist' \in Matrices
  BY <1>1, <1>4, <1>5, SMT DEF Matrices
<1>7. dist'[e.from][e.to] = t
  BY <1>1, <1>5, SMT DEF Matrices
<1>8. ASSUME NEW a \in Nodes, NEW b \in Nodes, ~(a = e.from /\ b = e.to)
      PROVE  dist'[a][b] = dist[a][b] /\ dist[a][b] \in Int \cup {None}
  BY <1>1, <1>5, <1>8, SMT DEF Matrices
<1>9. ASSUME NEW a \in Nodes, NEW b \in Nodes, Bounded(dist, a, b)
      PROVE  Bounded(dist', a, b) /\ dist'[a][b] <= dist[a][b]
  <2>1. CASE a = e.from /\ b = e.to
    BY <1>4, <1>7, <1>9, <2>1, Zenon DEF Bounded
  <2>2. CASE ~(a = e.from /\ b = e.to)
    <3>1. dist[a][b] \in Int /\ dist'[a][b] = dist[a][b]
      BY <1>8, <1>9, <2>2, Zenon DEF Bounded
    <3>2. dist[a][b] <= dist[a][b]
      BY <3>1, SMT
    <3> QED BY <1>9, <3>1, <3>2, Zenon DEF Bounded
  <2> QED BY <2>1, <2>2
<1>10. ASSUME NEW v \in Valuations, Bounds(dist, v), Respects(v, e),
              NEW a \in Nodes, NEW b \in Nodes, Bounded(dist', a, b)
       PROVE  v[b] - v[a] <= dist'[a][b]
  <2>1. CASE a = e.from /\ b = e.to
    <3>1. CASE t = e.weight
      BY <1>7, <1>10, <2>1, <3>1, Zenon DEF Respects
    <3>2. CASE dist[e.from][e.to] # None /\ t = dist[e.from][e.to]
      BY <1>7, <1>10, <2>1, <3>2, Zenon DEF Bounds, Bounded
    <3> QED BY <1>4, <3>1, <3>2, Zenon
  <2>2. CASE ~(a = e.from /\ b = e.to)
    BY <1>8, <1>10, <2>2, Zenon DEF Bounds, Bounded
  <2> QED BY <2>1, <2>2
<1> QED BY <1>6, <1>9, <1>10, Zenon DEF Bounds

(* A closed row keeps the matrix typed and sound (the loop over i).         *)
LEMMA CloseRowLemma ==
    ASSUME ClosureInv, CloseRow
    PROVE  /\ dist' \in Matrices
           /\ \A a, b \in Nodes : Bounded(dist, a, b) =>
                 Bounded(dist', a, b) /\ dist'[a][b] <= dist[a][b]
           /\ \A v \in Valuations : Bounds(dist, v) => Bounds(dist', v)
<1> DEFINE row == Relaxed(dist, k, i)
<1>1. k \in Nodes /\ i \in Nodes /\ dist \in Matrices
  BY Zenon DEF ClosureInv, ClosureTypeOK, CloseRow, Matrices
<1>2. /\ row \in [Nodes -> Int \cup {None}]
      /\ \A b \in Nodes : Bounded(dist, i, b) => row[b] # None /\ row[b] <= dist[i][b]
      /\ \A v \in Valuations : Bounds(dist, v) =>
            \A b \in Nodes : row[b] # None => v[b] - v[i] <= row[b]
  BY <1>1, RelaxedLemma, Zenon
<1>3. dist' = [dist EXCEPT ![i] = row]
  BY Zenon DEF CloseRow
<1> HIDE DEF row
<1>4. dist' \in Matrices
  BY <1>1, <1>2, <1>3, SMT DEF Matrices
<1>5. dist'[i] = row
  BY <1>1, <1>3, SMT DEF Matrices
<1>6. ASSUME NEW a \in Nodes, NEW b \in Nodes, a # i
      PROVE  dist'[a][b] = dist[a][b] /\ dist[a][b] \in Int \cup {None}
  BY <1>1, <1>3, <1>6, SMT DEF Matrices
<1>7. ASSUME NEW a \in Nodes, NEW b \in Nodes, Bounded(dist, a, b)
      PROVE  Bounded(dist', a, b) /\ dist'[a][b] <= dist[a][b]
  <2>1. CASE a = i
    BY <1>2, <1>5, <1>7, <2>1, Zenon DEF Bounded
  <2>2. CASE a # i
    <3>1. dist[a][b] \in Int /\ dist'[a][b] = dist[a][b]
      BY <1>6, <1>7, <2>2, Zenon DEF Bounded
    <3>2. dist[a][b] <= dist[a][b]
      BY <3>1, SMT
    <3> QED BY <1>7, <3>1, <3>2, Zenon DEF Bounded
  <2> QED BY <2>1, <2>2
<1>8. ASSUME NEW v \in Valuations, Bounds(dist, v),
             NEW a \in Nodes, NEW b \in Nodes, Bounded(dist', a, b)
      PROVE  v[b] - v[a] <= dist'[a][b]
  <2>1. CASE a = i
    BY <1>2, <1>5, <1>8, <2>1, Zenon DEF Bounded
  <2>2. CASE a # i
    BY <1>6, <1>8, <2>2, Zenon DEF Bounds, Bounded
  <2> QED BY <2>1, <2>2
<1> QED BY <1>4, <1>7, <1>8, Zenon DEF Bounds

LEMMA NextLemma == ClosureInv /\ [ClosureNext]_closureVars => ClosureInv'
<1> SUFFICES ASSUME ClosureInv, [ClosureNext]_closureVars PROVE ClosureInv'
  OBVIOUS
<1>1. ASSUME NEW e \in Edges, AddEdge(e) PROVE ClosureInv'
  <2>1. dist' \in Matrices /\ \A v \in Valuations : Bounds(dist, v) /\ Respects(v, e) => Bounds(dist', v)
    BY <1>1, AddEdgeLemma, Zenon
  <2>2. /\ edges' = edges \cup {e} /\ phase = "build"
        /\ UNCHANGED <<phase, k, i>>
    BY <1>1 DEF AddEdge
  <2>4. ClosureTypeOK'
    BY <2>1, <2>2 DEF ClosureInv, ClosureTypeOK, Matrices
  <2>5. ASSUME NEW v \in Models' PROVE Bounds(dist', v)
    <3>1. v \in Valuations /\ v \in Models /\ Respects(v, e)
      BY <2>2, <2>5, Zenon DEF Models, Valuations, Respects
    <3> QED BY <2>1, <3>1, Zenon DEF ClosureInv
  <2> QED BY <2>2, <2>4, <2>5 DEF ClosureInv
<1>2. CASE BeginClose
  BY <1>2 DEF BeginClose, ClosureInv, ClosureTypeOK, Models, Valuations, Respects, Bounds, Bounded
<1>3. CASE CloseRow
  <2>1. dist' \in Matrices /\ \A v \in Valuations : Bounds(dist, v) => Bounds(dist', v)
    BY <1>3, CloseRowLemma, Zenon
  <2>2. UNCHANGED <<edges, phase>> /\ phase = "close" /\ Models' = Models
    BY <1>3 DEF CloseRow, Models, Valuations, Respects
  <2>3. k' \in 0 .. Params + 1 /\ i' \in Nodes
    BY <1>3, ParamsAssumption, SMT DEF ClosureInv, ClosureTypeOK, CloseRow, Nodes
  <2>4. ClosureTypeOK'
    BY <2>1, <2>2, <2>3 DEF ClosureInv, ClosureTypeOK, Matrices
  <2>5. \A v \in Models : v \in Valuations /\ Bounds(dist, v)
    BY Zenon DEF ClosureInv, Models
  <2> QED BY <2>1, <2>2, <2>4, <2>5 DEF ClosureInv
<1>4. CASE Decide
  <2>1. UNCHANGED <<dist, edges, k, i>> /\ Models' = Models
    BY <1>4 DEF Decide, Models, Valuations, Respects
  <2>2. phase' \in {"accepted", "unsatisfiable"} /\ (phase' = "unsatisfiable" => NegativeCycle)
    BY <1>4, Zenon DEF Decide
  <2>3. ASSUME NegativeCycle PROVE Models = {}
    <3>1. PICK n \in Nodes : Bounded(dist, n, n) /\ dist[n][n] < 0
      BY <2>3 DEF NegativeCycle
    <3>2. ASSUME NEW v \in Models PROVE FALSE
      <4>1. v[n] \in Int
        BY <3>2, ValuationLemma, Zenon DEF Models
      <4>2. v[n] - v[n] <= dist[n][n]
        BY <3>1, <3>2, Zenon DEF ClosureInv, Bounds
      <4>3. dist[n][n] \in Int
        BY <3>1, SMT DEF ClosureInv, ClosureTypeOK, Bounded
      <4> QED BY <3>1, <4>1, <4>2, <4>3, SMT
    <3> QED BY <3>2, Zenon
  <2>4. ClosureTypeOK'
    BY <2>1, <2>2, Zenon DEF ClosureInv, ClosureTypeOK
  <2> QED BY <2>1, <2>2, <2>3, <2>4, Zenon DEF ClosureInv, Bounds, Bounded
<1>5. CASE UNCHANGED closureVars
  BY <1>5 DEF closureVars, ClosureInv, ClosureTypeOK, Models, Valuations, Respects, Bounds, Bounded
<1> QED BY <1>1, <1>2, <1>3, <1>4, <1>5 DEF ClosureNext

(* At every moment of its construction the closure bounds only what the     *)
(* constraints bound, and a context is refused as unsatisfiable only when   *)
(* no assignment of levels respects its constraints, for every number of    *)
(* parameters and every set of edges (level.rs, add_edge, close, entails).  *)
THEOREM ClosureIsSound == ClosureSpec => []ClosureSound
<1>1. ClosureInv => ClosureSound
  BY Zenon DEF ClosureInv, ClosureSound, Bounds
<1> QED BY InitLemma, NextLemma, <1>1, PTL DEF ClosureSpec

(* No step of the construction loosens or drops a bound, so that a negative *)
(* diagonal cannot be lost before `close` looks for it.                     *)
THEOREM BoundsOnlyTighten == ClosureSpec => NeverLoosened
<1> DEFINE Tightened ==
      \A a, b \in Nodes : Bounded(dist, a, b) =>
         Bounded(dist', a, b) /\ dist'[a][b] <= dist[a][b]
<1>1. ClosureInv /\ [ClosureNext]_closureVars => [Tightened]_closureVars
  <2> SUFFICES ASSUME ClosureInv, ClosureNext PROVE Tightened
    BY Zenon DEF closureVars
  <2>1. ASSUME NEW e \in Edges, AddEdge(e) PROVE Tightened
    BY <2>1, AddEdgeLemma, Zenon
  <2>2. CASE CloseRow
    BY <2>2, CloseRowLemma, Zenon
  <2>3. CASE BeginClose \/ Decide
    <3>1. dist' = dist
      BY <2>3 DEF BeginClose, Decide
    <3>2. ASSUME NEW a \in Nodes, NEW b \in Nodes, Bounded(dist, a, b)
          PROVE  dist[a][b] <= dist[a][b]
      BY <3>2, SMT DEF ClosureInv, ClosureTypeOK, Bounded
    <3> QED BY <3>1, <3>2, Zenon DEF Bounded
  <2> QED BY <2>1, <2>2, <2>3 DEF ClosureNext
<1> QED BY InitLemma, NextLemma, <1>1, PTL DEF ClosureSpec, NeverLoosened
=============================================================================
