-------------------------- MODULE ProcessMemo_proofs --------------------------
(***************************************************************************)
(* Proofs that the recency index of the process memo is exact, that its    *)
(* entry limit holds, that its byte counter is the sum of the weights and  *)
(* that it implements LruCache, for every set of keys, every limit and     *)
(* every u64.                                                              *)
(***************************************************************************)
EXTENDS ProcessMemoLru, FiniteSetTheorems, WellFoundedInduction, TLAPS

\* The conjuncts that are not typing.  An unfinished insert has already removed
\* its own key, and the map is finite (cardinalities mean nothing otherwise).
IInv ==
  /\ TypeOK
  /\ RecencyIndexExact
  /\ EntryLimit
  /\ IsFiniteSet(DOMAIN entries)
  /\ op # NoOp => op.key \notin DOMAIN entries

\* The state of the map ent and the recency index rec when key k is about to get
\* a fresh timestamp: rec lists the entries other than k, each once.
Consistent(ent, rec, k) ==
  /\ IsEntryMap(ent)
  /\ IsFiniteSet(DOMAIN ent)
  /\ Cardinality(DOMAIN ent) <= MaxEntries
  /\ rec = {<<ent[j].last_used, j>> : j \in DOMAIN ent \ {k}}
  /\ \A j \in DOMAIN ent : ent[j].last_used < sequence
  /\ \A i, j \in DOMAIN ent : ent[i].last_used = ent[j].last_used => i = j

\* The steps are mostly first-order reasoning.
USE Zenon

\* The recency index is no larger than the map.
LEMMA IndexFinite ==
  ASSUME NEW ent, NEW rec, NEW k, Consistent(ent, rec, k)
  PROVE  IsFiniteSet(rec) /\ Cardinality(rec) <= Cardinality(DOMAIN ent)
  <1>. DEFINE f == [p \in rec |-> p[2]]
  <1>1. f \in [rec -> DOMAIN ent]
    BY SMT DEF Consistent
  <1>2. \A p, q \in rec : f[p] = f[q] => p = q
    BY SMT DEF Consistent
  <1>3. f \in Injection(rec, DOMAIN ent)
    BY <1>1, <1>2 DEF Injection, IsInjective
  <1>. HIDE DEF f
  <1>. QED
    BY <1>3, FS_Injection DEF Consistent

\* Renumbering keeps the order of the timestamps and stays below the number of
\* entries.
LEMMA PositionOrdered ==
  ASSUME NEW rec, IsFiniteSet(rec), \A p \in rec : p[1] \in Nat,
         NEW t, NEW x, <<t, x>> \in rec
  PROVE  /\ Position(rec, t) \in Nat
         /\ Position(rec, t) < Cardinality(rec)
         /\ \A u, y : <<u, y>> \in rec /\ t < u =>
                Position(rec, t) < Position(rec, u)
  <1>. DEFINE below(u) == {r \in rec : r[1] < u}
  <1>0. t \in Nat
    OBVIOUS
  <1>1. \A u : IsFiniteSet(below(u)) /\ Cardinality(below(u)) \in Nat
    BY FS_Subset, FS_CardinalityType
  <1>2. Cardinality(rec) \in Nat
    BY FS_CardinalityType
  <1>3. below(t) \in SUBSET rec /\ <<t, x>> \notin below(t)
    BY SMT, <1>0
  <1>4. ASSUME NEW u, NEW y, <<u, y>> \in rec, t < u
        PROVE  below(t) \in SUBSET below(u) /\ <<t, x>> \in below(u)
    <2>1. u \in Nat
      BY <1>4
    <2>. QED
      BY SMT, <1>0, <1>4, <2>1
  <1>5. \A u : Position(rec, u) = Cardinality(below(u))
    BY DEF Position
  <1>. HIDE DEF below
  <1>6. Cardinality(below(t)) < Cardinality(rec)
    BY SMT, <1>1, <1>2, <1>3, FS_Subset
  <1>7. \A u, y : <<u, y>> \in rec /\ t < u =>
               Cardinality(below(t)) < Cardinality(below(u))
    BY SMT, <1>1, <1>3, <1>4, FS_Subset
  <1>. QED
    BY <1>1, <1>5, <1>6, <1>7

\* The inductive invariant holds of the empty memo.
LEMMA InitIInv == Init => IInv
  <1>. SUFFICES ASSUME Init PROVE IInv
    OBVIOUS
  <1>. USE DEF Init
  <1>1. DOMAIN entries = {}
    OBVIOUS
  <1>2. TypeOK
    BY SMT, LimitsAssumption DEF TypeOK, IsEntryMap, Timestamps
  <1>3. RecencyIndexExact
    BY <1>1 DEF RecencyIndexExact
  <1>4. Cardinality(DOMAIN entries) = 0 /\ IsFiniteSet(DOMAIN entries)
    BY <1>1, FS_EmptySet
  <1>5. EntryLimit
    BY SMT, <1>4, LimitsAssumption DEF EntryLimit
  <1>. QED
    BY <1>2, <1>3, <1>4, <1>5 DEF IInv, NoOp
\* What a fresh timestamp does to a consistent memo, in the two cases of
\* next_recency.
LEMMA StampExact ==
  ASSUME NEW ent, NEW rec, NEW k \in Keys, NEW v \in Values,
         NEW w \in 0 .. MaxWeight,
         sequence \in Timestamps, Consistent(ent, rec, k),
         Stamp(ent, rec, k, v, w)
  PROVE  /\ IsEntryMap(entries')
         /\ DOMAIN entries' = DOMAIN ent \cup {k}
         /\ recency' \subseteq Timestamps \X Keys
         /\ sequence' \in Timestamps
         /\ RecencyIndexExact'
  <1>. DEFINE new(now) == [value |-> v, weight |-> w, last_used |-> now]
  <1>0. Cardinality(DOMAIN ent) \in Nat
    BY FS_CardinalityType DEF Consistent
  <1>1. \A j \in DOMAIN ent : ent[j] \in Entry /\ j \in Keys
    BY DEF Consistent, IsEntryMap
  <1>2. CASE sequence # MaxU64
    <2>1. /\ entries' = Store(ent, k, new(sequence))
          /\ recency' = rec \cup {<<sequence, k>>}
          /\ sequence' = sequence + 1
          /\ sequence < MaxU64 /\ sequence \in Nat
      BY SMT, <1>2, LimitsAssumption DEF Stamp, SaturatingAdd, Timestamps
    <2>2. new(sequence) \in Entry
      BY DEF Entry
    <2>3. DOMAIN entries' = DOMAIN ent \cup {k}
      BY <2>1 DEF Store
    <2>4. entries'[k] = new(sequence)
      BY <2>1 DEF Store
    <2>5. \A j \in DOMAIN ent \ {k} : entries'[j] = ent[j]
      BY <2>1 DEF Store
    <2>6. IsEntryMap(entries')
      BY <1>1, <2>1, <2>2 DEF IsEntryMap, Store
    <2>7. sequence' \in Timestamps
      BY SMT, <2>1, LimitsAssumption DEF Timestamps
    <2>8. recency' \subseteq Timestamps \X Keys
      BY SMT, <1>1, <2>1 DEF Consistent, Entry
    <2>. QED
      <3>1. recency' = {<<entries'[j].last_used, j>> : j \in DOMAIN entries'}
        BY SMT, <2>1, <2>3, <2>4, <2>5 DEF Consistent
      <3>2. \A j \in DOMAIN ent : ent[j].last_used \in Nat
        BY SMT, <1>1, LimitsAssumption DEF Entry, Timestamps
      <3>3. \A j \in DOMAIN entries' : entries'[j].last_used < sequence'
        BY SMT, <2>1, <2>3, <2>4, <2>5, <3>2 DEF Consistent
      <3>4. \A i, j \in DOMAIN entries' :
              entries'[i].last_used = entries'[j].last_used => i = j
        BY SMT, <2>1, <2>3, <2>4, <2>5, <3>2 DEF Consistent
      <3>. QED
        BY <2>3, <2>6, <2>7, <2>8, <3>1, <3>3, <3>4 DEF RecencyIndexExact
  <1>3. CASE sequence = MaxU64
    <2>. DEFINE n == Cardinality(DOMAIN ent)
                pos(j) == Position(rec, ent[j].last_used)
    <2>1. /\ entries' = Store(Renumbered(ent, rec), k, new(n))
          /\ recency' = {<<Position(rec, p[1]), p[2]>> : p \in rec}
                          \cup {<<n, k>>}
          /\ sequence' = SaturatingAdd(n, 1)
      BY <1>3 DEF Stamp
    <2>2. n \in Nat /\ n < MaxU64 /\ sequence' = n + 1
      BY SMT, <1>0, <2>1, LimitsAssumption DEF Consistent, SaturatingAdd
    <2>3. \A p \in rec : p[1] \in Nat
      BY SMT, <1>1, LimitsAssumption DEF Consistent, Entry, Timestamps
    <2>4. \A j \in DOMAIN ent \ {k} : <<ent[j].last_used, j>> \in rec
      BY DEF Consistent
    <2>5. ASSUME NEW j \in DOMAIN ent \ {k}
          PROVE  pos(j) \in Nat /\ pos(j) < n
      <3>1. IsFiniteSet(rec) /\ Cardinality(rec) <= n
        BY IndexFinite
      <3>2. Cardinality(rec) \in Nat
        BY <3>1, FS_CardinalityType
      <3>3. pos(j) \in Nat /\ pos(j) < Cardinality(rec)
        BY <2>3, <2>4, <3>1, PositionOrdered
      <3>. QED
        BY SMT, <2>2, <3>1, <3>2, <3>3
    <2>6. ASSUME NEW i \in DOMAIN ent \ {k}, NEW j \in DOMAIN ent \ {k},
                 pos(i) = pos(j)
          PROVE  i = j
      <3>1. ASSUME NEW a \in DOMAIN ent \ {k}, NEW b \in DOMAIN ent \ {k},
                   ent[a].last_used < ent[b].last_used
            PROVE  pos(a) < pos(b)
        <4>1. <<ent[a].last_used, a>> \in rec /\ <<ent[b].last_used, b>> \in rec
          BY <2>4
        <4>2. \A u, y : <<u, y>> \in rec /\ ent[a].last_used < u =>
                 Position(rec, ent[a].last_used) < Position(rec, u)
          BY <2>3, <4>1, IndexFinite, PositionOrdered
        <4>. QED
          BY <3>1, <4>1, <4>2
      <3>2. pos(i) \in Nat /\ pos(j) \in Nat
        BY <2>5
      <3>3. ent[i].last_used \in Nat /\ ent[j].last_used \in Nat
        BY SMT, <1>1, LimitsAssumption DEF Entry, Timestamps
      <3>. HIDE DEF pos
      <3>4. ent[i].last_used = ent[j].last_used
        BY SMT, <2>6, <3>1, <3>2, <3>3
      <3>. QED
        BY <3>4 DEF Consistent
    <2>7. \A j \in DOMAIN ent \ {k} :
            entries'[j] = [ent[j] EXCEPT !.last_used = pos(j)]
      BY <2>1, <2>4 DEF Store, Renumbered, NewTimestamp
    <2>8. DOMAIN entries' = DOMAIN ent \cup {k} /\ entries'[k] = new(n)
      BY <2>1 DEF Store, Renumbered
    <2>9. \A j \in DOMAIN entries' : entries'[j] \in Entry
      <3>1. new(n) \in Entry
        BY SMT, <2>2, LimitsAssumption DEF Entry, Timestamps
      <3>2. \A j \in DOMAIN ent \ {k} : pos(j) \in Timestamps
        BY SMT, <2>2, <2>5, LimitsAssumption DEF Timestamps
      <3>. QED
        BY SMT, <1>1, <2>7, <2>8, <3>1, <3>2 DEF Entry
    <2>10. \A j \in DOMAIN ent \ {k} : entries'[j].last_used = pos(j)
      BY <1>1, <2>7 DEF Entry
    <2>11. recency' = {<<entries'[j].last_used, j>> : j \in DOMAIN entries'}
      <3>1. {<<Position(rec, p[1]), p[2]>> : p \in rec}
              = {<<pos(j), j>> : j \in DOMAIN ent \ {k}}
        <4>1. rec = {<<ent[j].last_used, j>> : j \in DOMAIN ent \ {k}}
          BY DEF Consistent
        <4>2. \A p \in rec : p[2] \in DOMAIN ent \ {k} /\ p[1] = ent[p[2]].last_used
          BY SMT, <4>1
        <4>. DEFINE A == {<<Position(rec, p[1]), p[2]>> : p \in rec}
                    B == {<<pos(j), j>> : j \in DOMAIN ent \ {k}}
        <4>3. A \subseteq B
          BY <4>2
        <4>4. ASSUME NEW j \in DOMAIN ent \ {k} PROVE <<pos(j), j>> \in A
          <5>1. PICK p \in rec : p = <<ent[j].last_used, j>>
            BY <2>4
          <5>2. p[1] = ent[j].last_used /\ p[2] = j
            BY <5>1
          <5>. QED
            BY <5>2
        <4>5. B \subseteq A
          BY <4>4
        <4>. QED
          BY <4>3, <4>5
      <3>. QED
        BY SMT, <2>1, <2>8, <2>10, <3>1
    <2>12. \A j \in DOMAIN entries' : entries'[j].last_used < sequence'
      BY SMT, <2>2, <2>5, <2>8, <2>10
    <2>13. \A i, j \in DOMAIN entries' :
             entries'[i].last_used = entries'[j].last_used => i = j
      BY SMT, <2>2, <2>5, <2>6, <2>8, <2>10
    <2>14. IsEntryMap(entries')
      <3>1. DOMAIN entries' \subseteq Keys
        BY <1>1, <2>8
      <3>2. entries' = [j \in DOMAIN entries' |-> entries'[j]]
        BY <2>1 DEF Store
      <3>. QED
        BY <2>9, <3>1, <3>2 DEF IsEntryMap
    <2>15. recency' \subseteq Timestamps \X Keys
      BY SMT, <2>9, <2>11, <2>14 DEF Entry, IsEntryMap
    <2>16. sequence' \in Timestamps
      BY SMT, <2>2, LimitsAssumption DEF Timestamps
    <2>. QED
      BY <2>8, <2>11, <2>12, <2>13, <2>14, <2>15, <2>16 DEF RecencyIndexExact
  <1>. QED
    BY <1>2, <1>3
\* Removing a key and its pair keeps the map and the index in step.
LEMMA DeleteExact ==
  ASSUME NEW k, TypeOK, RecencyIndexExact, EntryLimit,
         IsFiniteSet(DOMAIN entries),
         entries' = Delete(entries, k),
         recency' = recency \ PairOf(k),
         UNCHANGED sequence
  PROVE  /\ IsEntryMap(entries')
         /\ DOMAIN entries' = DOMAIN entries \ {k}
         /\ recency' \subseteq Timestamps \X Keys
         /\ RecencyIndexExact'
         /\ EntryLimit'
         /\ IsFiniteSet(DOMAIN entries')
  <1>1. DOMAIN entries' = DOMAIN entries \ {k}
    BY DEF Delete
  <1>2. \A j \in DOMAIN entries' : entries'[j] = entries[j]
    BY DEF Delete
  <1>3. IsEntryMap(entries')
    BY <1>1, <1>2 DEF TypeOK, IsEntryMap, Delete
  <1>4. recency' = {<<entries'[j].last_used, j>> : j \in DOMAIN entries'}
    <2>1. recency = {<<entries[j].last_used, j>> : j \in DOMAIN entries}
      BY DEF RecencyIndexExact
    <2>2. recency' = {<<entries[j].last_used, j>> : j \in DOMAIN entries \ {k}}
      BY SMT, <2>1 DEF PairOf
    <2>. QED
      BY <1>1, <1>2, <2>2
  <1>5. RecencyIndexExact'
    BY SMT, <1>1, <1>2, <1>4 DEF RecencyIndexExact
  <1>6. IsFiniteSet(DOMAIN entries') /\ EntryLimit'
    <2>1. IsFiniteSet(DOMAIN entries')
      BY <1>1, FS_RemoveElement
    <2>2. Cardinality(DOMAIN entries') <= Cardinality(DOMAIN entries)
      BY <1>1, FS_Subset
    <2>3. Cardinality(DOMAIN entries') \in Nat /\ Cardinality(DOMAIN entries) \in Nat
      BY <2>1, FS_CardinalityType
    <2>. QED
      BY SMT, <2>1, <2>2, <2>3, LimitsAssumption DEF EntryLimit
  <1>. QED
    BY <1>1, <1>3, <1>5, <1>6 DEF TypeOK

\* A lookup, hit or miss, keeps the inductive invariant: a hit moves one pair of
\* the recency index.
LEMMA LookupIInv ==
  ASSUME IInv, NEW k \in Keys, Lookup(k)
  PROVE  IInv'
  <1>. USE DEF IInv, Lookup
  <1>1. k \in DOMAIN entries /\ entries[k] \in Entry
    BY DEF TypeOK, IsEntryMap
  <1>2. Consistent(entries, recency \ PairOf(k), k)
    <2>1. recency \ PairOf(k)
            = {<<entries[j].last_used, j>> : j \in DOMAIN entries \ {k}}
      BY SMT, <1>1 DEF RecencyIndexExact, PairOf
    <2>. QED
      BY <2>1 DEF Consistent, TypeOK, RecencyIndexExact, EntryLimit
  <1>3. entries[k].value \in Values /\ entries[k].weight \in 0 .. MaxWeight
    BY <1>1 DEF Entry
  <1>4. /\ IsEntryMap(entries')
        /\ DOMAIN entries' = DOMAIN entries \cup {k}
        /\ recency' \subseteq Timestamps \X Keys
        /\ sequence' \in Timestamps
        /\ RecencyIndexExact'
    BY <1>2, <1>3, StampExact DEF TypeOK
  <1>5. DOMAIN entries' = DOMAIN entries
    BY <1>1, <1>4
  <1>6. TypeOK'
    BY <1>4 DEF TypeOK, IsInsertion
  <1>. QED
    BY <1>4, <1>5, <1>6 DEF EntryLimit

\* saturating_sub of two byte counts is a byte count.
LEMMA SubtractTyped ==
  ASSUME NEW a \in 0 .. MaxU64, NEW b \in Nat
  PROVE  SaturatingSub(a, b) \in 0 .. MaxU64
  BY SMT, LimitsAssumption DEF SaturatingSub

\* The first part of insert, which removes the entry it replaces, keeps the
\* inductive invariant.
LEMMA BeginInsertIInv ==
  ASSUME IInv, NEW k \in Keys, NEW v \in Values, NEW w \in Weights,
         BeginInsert(k, v, w)
  PROVE  IInv'
  <1>. USE DEF IInv, BeginInsert
  <1>1. /\ IsEntryMap(entries')
        /\ DOMAIN entries' = DOMAIN entries \ {k}
        /\ recency' \subseteq Timestamps \X Keys
        /\ RecencyIndexExact'
        /\ EntryLimit'
        /\ IsFiniteSet(DOMAIN entries')
    BY DeleteExact
  <1>2. retained' \in 0 .. MaxU64
    <2>1. ReplacedWeight(k) \in Nat
      BY SMT, LimitsAssumption DEF ReplacedWeight, TypeOK, IsEntryMap, Entry
    <2>. QED
      BY <2>1, SubtractTyped DEF TypeOK
  <1>3. IsInsertion(op')
    <2>1. w \in 0 .. MaxWeight
      BY SMT, LimitsAssumption DEF Accepts
    <2>2. IsEntryMap([j \in DOMAIN entries \cap {k} |-> entries[j]])
      BY DEF TypeOK, IsEntryMap
    <2>. QED
      BY <2>1, <2>2 DEF IsInsertion
  <1>4. TypeOK'
    BY <1>1, <1>2, <1>3 DEF TypeOK
  <1>5. op'.key = k
    OBVIOUS
  <1>. QED
    BY <1>1, <1>4, <1>5

\* One round of the eviction loop keeps the inductive invariant.
LEMMA EvictOldestIInv ==
  ASSUME IInv, EvictOldest
  PROVE  IInv'
  <1>. USE DEF IInv, EvictOldest
  <1>1. PICK p \in recency :
          /\ recency' = recency \ {p}
          /\ entries' = Delete(entries, p[2])
          /\ retained' = SaturatingSub(retained, entries[p[2]].weight)
          /\ op' = [op EXCEPT !.removed = Store(op.removed, p[2], entries[p[2]])]
    OBVIOUS
  <1>2. p[2] \in DOMAIN entries /\ p = <<entries[p[2]].last_used, p[2]>>
    BY SMT DEF RecencyIndexExact
  <1>3. recency' = recency \ PairOf(p[2])
    BY <1>1, <1>2 DEF PairOf
  <1>4. /\ IsEntryMap(entries')
        /\ DOMAIN entries' = DOMAIN entries \ {p[2]}
        /\ recency' \subseteq Timestamps \X Keys
        /\ RecencyIndexExact'
        /\ EntryLimit'
        /\ IsFiniteSet(DOMAIN entries')
    BY <1>1, <1>3, DeleteExact
  <1>5. entries[p[2]] \in Entry /\ p[2] \in Keys
    BY <1>2 DEF TypeOK, IsEntryMap
  <1>6. retained' \in 0 .. MaxU64
    <2>1. entries[p[2]].weight \in Nat
      BY SMT, <1>5, LimitsAssumption DEF Entry
    <2>. QED
      BY <1>1, <2>1, SubtractTyped DEF TypeOK
  <1>7. IsInsertion(op)
    BY SMT DEF TypeOK, NoOp
  <1>8. IsInsertion(op') /\ op'.key = op.key
    <2>1. IsEntryMap(Store(op.removed, p[2], entries[p[2]]))
      BY <1>5, <1>7 DEF IsInsertion, IsEntryMap, Store
    <2>. QED
      BY <1>1, <1>7, <2>1 DEF IsInsertion
  <1>9. TypeOK'
    BY <1>4, <1>6, <1>8 DEF TypeOK
  <1>10. op.key \notin DOMAIN entries
    BY SMT DEF NoOp
  <1>. QED
    BY <1>4, <1>8, <1>9, <1>10

\* Storing the new entry once there is room keeps the inductive invariant.
LEMMA FinishInsertIInv ==
  ASSUME IInv, FinishInsert
  PROVE  IInv'
  <1>. USE DEF IInv, FinishInsert
  <1>1. IsInsertion(op) /\ op.key \notin DOMAIN entries
    BY SMT DEF TypeOK, NoOp
  <1>2. Consistent(entries, recency, op.key)
    <2>1. recency = {<<entries[j].last_used, j>> : j \in DOMAIN entries \ {op.key}}
      BY <1>1 DEF RecencyIndexExact
    <2>. QED
      BY <2>1 DEF Consistent, TypeOK, RecencyIndexExact, EntryLimit
  <1>3. /\ IsEntryMap(entries')
        /\ DOMAIN entries' = DOMAIN entries \cup {op.key}
        /\ recency' \subseteq Timestamps \X Keys
        /\ sequence' \in Timestamps
        /\ RecencyIndexExact'
    BY <1>1, <1>2, StampExact DEF TypeOK, IsInsertion
  <1>4. Cardinality(DOMAIN entries) \in Nat
    BY FS_CardinalityType
  <1>5. /\ IsFiniteSet(DOMAIN entries')
        /\ Cardinality(DOMAIN entries') = Cardinality(DOMAIN entries) + 1
    BY <1>1, <1>3, FS_AddElement
  <1>6. Cardinality(DOMAIN entries) < MaxEntries
    <2>1. CASE ~ MustEvict(op.weight)
      BY SMT, <1>4, <2>1, LimitsAssumption DEF MustEvict
    <2>2. CASE recency = {}
      <3>1. DOMAIN entries = {}
        BY <2>2 DEF RecencyIndexExact
      <3>. QED
        BY SMT, <3>1, FS_EmptySet, LimitsAssumption
    <2>. QED
      BY <2>1, <2>2
  <1>7. EntryLimit'
    BY SMT, <1>4, <1>5, <1>6, LimitsAssumption DEF EntryLimit
  <1>8. retained' \in 0 .. MaxU64
    BY SMT, <1>1, LimitsAssumption DEF TypeOK, IsInsertion, SaturatingAdd
  <1>9. TypeOK' /\ op' = NoOp
    BY <1>3, <1>8 DEF TypeOK, Unlock
  <1>. QED
    BY <1>3, <1>5, <1>7, <1>9

\* clear re-establishes the inductive invariant.
LEMMA ClearIInv ==
  ASSUME IInv, Clear
  PROVE  IInv'
  <1>. USE DEF Clear
  <1>1. DOMAIN entries' = {}
    OBVIOUS
  <1>2. TypeOK'
    BY SMT, LimitsAssumption DEF IInv, TypeOK, IsEntryMap, Timestamps
  <1>3. RecencyIndexExact'
    BY <1>1 DEF RecencyIndexExact
  <1>4. EntryLimit' /\ IsFiniteSet(DOMAIN entries')
    BY SMT, <1>1, FS_EmptySet, LimitsAssumption DEF EntryLimit
  <1>. QED
    BY <1>1, <1>2, <1>3, <1>4 DEF IInv

\* The inductive invariant is preserved by every step.
LEMMA NextIInv == IInv /\ [Next]_vars => IInv'
  <1>. SUFFICES ASSUME IInv, [Next]_vars PROVE IInv'
    OBVIOUS
  <1>1. CASE \E k \in Keys : Lookup(k)
    BY <1>1, LookupIInv
  <1>2. CASE \E k \in Keys, v \in Values, w \in Weights : BeginInsert(k, v, w)
    BY <1>2, BeginInsertIInv
  <1>3. CASE EvictOldest
    BY <1>3, EvictOldestIInv
  <1>4. CASE FinishInsert
    BY <1>4, FinishInsertIInv
  <1>5. CASE Clear
    BY <1>5, ClearIInv
  <1>6. CASE UNCHANGED vars
    BY <1>6 DEF vars, IInv, TypeOK, RecencyIndexExact, EntryLimit, IsInsertion
  <1>. QED
    BY <1>1, <1>2, <1>3, <1>4, <1>5, <1>6 DEF Next

\* The process memo keeps its types, whatever the limits and whatever u64::MAX.
THEOREM TypeCorrect == Spec => []TypeOK
  <1>1. IInv => TypeOK
    BY DEF IInv
  <1>. QED
    BY InitIInv, NextIInv, <1>1, PTL DEF Spec

\* The recency index of BoundedPackageVerificationProcessMemo lists exactly the
\* resident entries under distinct timestamps, also across renumbering: the
\* expect calls in next_recency and insert cannot fail.
THEOREM RecencyIndexIsExact == Spec => []RecencyIndexExact
  <1>1. IInv => RecencyIndexExact
    BY DEF IInv
  <1>. QED
    BY InitIInv, NextIInv, <1>1, PTL DEF Spec

\* max_entries is never exceeded, in the middle of an insert either.
THEOREM EntryLimitHolds == Spec => []EntryLimit
  <1>1. IInv => EntryLimit
    BY DEF IInv
  <1>. QED
    BY InitIInv, NextIInv, <1>1, PTL DEF Spec

-----------------------------------------------------------------------------
(***************************************************************************)
(* The byte counter.  The sum is a fold that takes the keys in an order    *)
(* nobody knows, so the argument goes through a count that has no order:   *)
(* the pairs of a key and a byte of its entry.                             *)
(***************************************************************************)
Bytes(f, s) == {b \in s \X (1..MaxWeight) : b[2] <= f[b[1]].weight}
Weight(f, s) == Cardinality(Bytes(f, s))
Weighed(f, s) == IsFiniteSet(s) /\ \A k \in s : f[k].weight \in 0..MaxWeight

LEMMA BytesFinite ==
  ASSUME NEW f, NEW s, IsFiniteSet(s)
  PROVE  IsFiniteSet(Bytes(f, s)) /\ Weight(f, s) \in Nat
  <1>1. IsFiniteSet(1..MaxWeight)
    BY SMT, FS_Interval, LimitsAssumption
  <1>2. IsFiniteSet(s \X (1..MaxWeight))
    BY <1>1, FS_Product
  <1>3. Bytes(f, s) \in SUBSET (s \X (1..MaxWeight))
    BY DEF Bytes
  <1>. QED
    BY <1>2, <1>3, FS_Subset, FS_CardinalityType DEF Weight

\* One entry accounts for as many bytes as it weighs.
LEMMA OneEntry ==
  ASSUME NEW f, NEW k, f[k].weight \in 0..MaxWeight
  PROVE  Weight(f, {k}) = f[k].weight
  <1>. DEFINE w == f[k].weight
              g == [i \in 1..w |-> <<k, i>>]
  <1>1. w \in Nat /\ MaxWeight \in Nat /\ w <= MaxWeight
    BY SMT, LimitsAssumption
  <1>2. Bytes(f, {k}) = {<<k, i>> : i \in 1..w}
    BY SMT, <1>1 DEF Bytes
  <1>. HIDE DEF w
  <1>3. g \in Bijection(1..w, Bytes(f, {k}))
    BY <1>2 DEF Bijection, Injection, Surjection, IsInjective
  <1>. HIDE DEF g
  <1>4. ExistsBijection(1..w, Bytes(f, {k}))
    BY <1>3 DEF ExistsBijection
  <1>5. Cardinality(Bytes(f, {k})) = w
    BY <1>1, <1>4, FS_CountingElements
  <1>. QED
    BY <1>5 DEF Weight, w

\* Taking any key out takes out its weight.
LEMMA WeightStep ==
  ASSUME NEW f, NEW s, Weighed(f, s), NEW k \in s
  PROVE  Weight(f, s) = f[k].weight + Weight(f, s \ {k})
  <1>1. /\ IsFiniteSet(s \ {k}) /\ IsFiniteSet({k}) /\ f[k].weight \in 0..MaxWeight
    BY FS_RemoveElement, FS_Singleton DEF Weighed
  <1>2. /\ Bytes(f, s) = Bytes(f, {k}) \cup Bytes(f, s \ {k})
        /\ Bytes(f, {k}) \cap Bytes(f, s \ {k}) = {}
    BY DEF Bytes
  <1>3. /\ IsFiniteSet(Bytes(f, {k})) /\ IsFiniteSet(Bytes(f, s \ {k}))
        /\ Weight(f, {k}) \in Nat /\ Weight(f, s \ {k}) \in Nat
    BY <1>1, BytesFinite
  <1>4. Cardinality(Bytes(f, {k}) \cap Bytes(f, s \ {k})) = 0
    BY <1>2, FS_EmptySet
  <1>5. Weight(f, s) = Weight(f, {k}) + Weight(f, s \ {k}) - 0
    BY <1>2, <1>3, <1>4, FS_Union DEF Weight
  <1>6. Weight(f, {k}) = f[k].weight
    BY <1>1, OneEntry
  <1>. QED
    BY SMT, <1>3, <1>5, <1>6

LEMMA WeightAgrees ==
  ASSUME NEW f, NEW g, NEW s, \A k \in s : f[k].weight = g[k].weight
  PROVE  Weight(f, s) = Weight(g, s)
  <1>1. Bytes(f, s) = Bytes(g, s)
    BY DEF Bytes
  <1>. QED
    BY <1>1 DEF Weight

LEMMA WeightEmpty ==
  ASSUME NEW f
  PROVE  Weight(f, {}) = 0
  <1>1. Bytes(f, {}) = {}
    BY DEF Bytes
  <1>. QED
    BY <1>1, FS_EmptySet DEF Weight

\* The recursive function behind FoldFunction.
IsFold(f, it) ==
  it = [s \in SUBSET DOMAIN f |->
          IF s = {} THEN 0
          ELSE f[CHOOSE x \in s : TRUE].weight + it[s \ {CHOOSE x \in s : TRUE}]]

LEMMA FoldIsFold ==
  ASSUME NEW f
  PROVE  FoldFunction(LAMBDA e, sum : e.weight + sum, 0, f)
           = (CHOOSE it : IsFold(f, it))[DOMAIN f]
  BY DEF FoldFunction, FoldFunctionOnSet, MapThenFoldSet, IsFold

\* The fold of BytesAccounted is the number of bytes, whatever the order.
LEMMA FoldIsWeight ==
  ASSUME NEW f, Weighed(f, DOMAIN f)
  PROVE  FoldFunction(LAMBDA e, sum : e.weight + sum, 0, f) = Weight(f, DOMAIN f)
  <1>. DEFINE D == DOMAIN f
              first(s) == CHOOSE x \in s : TRUE
              g == [s \in SUBSET D |-> Weight(f, s)]
              it == CHOOSE h : IsFold(f, h)
  <1>1. \A s \in SUBSET D : Weighed(f, s)
    BY FS_Subset DEF Weighed
  <1>2. \A s \in SUBSET D : s # {} => first(s) \in s
    OBVIOUS
  <1>3. \A s \in SUBSET D : s # {} => Weight(f, s) = f[first(s)].weight + Weight(f, s \ {first(s)})
    <2>. HIDE DEF first, D
    <2>. QED
      BY SMT, <1>1, <1>2, WeightStep
  <1>4. IsFold(f, g)
    <2>1. \A s \in SUBSET D : s \ {first(s)} \in SUBSET D
      OBVIOUS
    <2>2. \A s \in SUBSET D :
            g[s] = IF s = {} THEN 0 ELSE f[first(s)].weight + g[s \ {first(s)}]
      <3>. HIDE DEF first
      <3>. QED
        BY <1>3, <2>1, WeightEmpty
    <2>. QED
      BY <2>2 DEF IsFold
  <1>. HIDE DEF g
  <1>5. IsFold(f, it)
    BY <1>4
  <1>. HIDE DEF it
  <1>6. \A s \in SUBSET D :
          it[s] = IF s = {} THEN 0 ELSE f[first(s)].weight + it[s \ {first(s)}]
    BY <1>5 DEF IsFold
  <1>. DEFINE Wrong == {s \in SUBSET D : it[s] # Weight(f, s)}
  <1>7. ASSUME Wrong # {} PROVE FALSE
    <2>1. FiniteSubsetsOf(D) = SUBSET D
      BY FS_FiniteSubsetsOfFinite DEF Weighed
    <2>2. IsWellFoundedOn(StrictSubsetOrdering(D), SUBSET D)
      BY <2>1, FS_StrictSubsetOrderingWellFounded
    <2>3. PICK s \in Wrong : \A t \in Wrong : ~(<<t, s>> \in StrictSubsetOrdering(D))
      <3>1. Wrong \subseteq SUBSET D
        OBVIOUS
      <3>. HIDE DEF Wrong, D
      <3>. QED
        BY <1>7, <2>2, <3>1, WFMin
    <2>4. s # {}
      BY <1>6, WeightEmpty
    <2>5. s \ {first(s)} \in SUBSET D /\ <<s \ {first(s)}, s>> \in StrictSubsetOrdering(D)
      BY SMT, <1>2, <2>4 DEF StrictSubsetOrdering
    <2>6. it[s \ {first(s)}] = Weight(f, s \ {first(s)})
      BY <2>3, <2>5
    <2>. HIDE DEF first
    <2>. QED
      BY <1>3, <1>6, <2>4, <2>6
  <1>8. it[D] = Weight(f, D)
    BY <1>7
  <1>. QED
    BY <1>8, FoldIsFold DEF it

\* The counter is the weight of the resident entries and within the limit.
Accounted ==
  /\ retained = Weight(entries, DOMAIN entries)
  /\ retained <= MaxWeight

LEMMA EntriesWeighed ==
  ASSUME IInv
  PROVE  /\ Weighed(entries, DOMAIN entries)
         /\ Weight(entries, DOMAIN entries) \in Nat
  BY BytesFinite DEF IInv, TypeOK, IsEntryMap, Entry, Weighed

\* A fresh timestamp, renumbering included, changes no other entry's weight.
LEMMA StampWeights ==
  ASSUME NEW ent, NEW rec, NEW k, NEW v, NEW w, IsEntryMap(ent), Stamp(ent, rec, k, v, w)
  PROVE  /\ DOMAIN entries' = DOMAIN ent \cup {k}
         /\ entries'[k].weight = w
         /\ \A j \in DOMAIN ent \ {k} : entries'[j].weight = ent[j].weight
  <1>. DEFINE ent1 == IF sequence = MaxU64 THEN Renumbered(ent, rec) ELSE ent
  <1>1. PICK now : entries' = Store(ent1, k, [value |-> v, weight |-> w, last_used |-> now])
    BY DEF Stamp
  <1>2. DOMAIN ent1 = DOMAIN ent /\ \A j \in DOMAIN ent : ent1[j].weight = ent[j].weight
    BY DEF Renumbered, IsEntryMap, Entry
  <1>. HIDE DEF ent1
  <1>. QED
    BY <1>1, <1>2 DEF Store

\* Removing a resident key subtracts its weight exactly.
LEMMA DeleteWeight ==
  ASSUME IInv, Accounted, NEW k \in DOMAIN entries, entries' = Delete(entries, k),
         retained' = SaturatingSub(retained, entries[k].weight)
  PROVE  Accounted'
  <1>. DEFINE rest == DOMAIN entries \ {k}
  <1>1. /\ retained = entries[k].weight + Weight(entries, rest)
        /\ entries[k].weight \in Nat
    BY SMT, EntriesWeighed, WeightStep, LimitsAssumption DEF Accounted, Weighed
  <1>2. Weight(entries, rest) \in Nat
    BY BytesFinite, FS_RemoveElement DEF IInv
  <1>3. DOMAIN entries' = rest /\ \A j \in rest : entries'[j].weight = entries[j].weight
    BY DEF Delete
  <1>4. Weight(entries', rest) = Weight(entries, rest)
    BY SMT, <1>3, WeightAgrees
  <1>. HIDE DEF rest
  <1>5. retained' = Weight(entries, rest)
    BY SMT, <1>1, <1>2 DEF SaturatingSub
  <1>. QED
    BY SMT, <1>1, <1>2, <1>3, <1>4, <1>5, LimitsAssumption DEF Accounted

LEMMA LookupAccounted ==
  ASSUME IInv, Accounted, NEW k \in Keys, Lookup(k)
  PROVE  Accounted'
  <1>1. /\ DOMAIN entries' = DOMAIN entries
        /\ \A j \in DOMAIN entries : entries'[j].weight = entries[j].weight
    <2>1. k \in DOMAIN entries /\ IsEntryMap(entries)
      BY DEF Lookup, IInv, TypeOK
    <2>2. Stamp(entries, recency \ PairOf(k), k, entries[k].value, entries[k].weight)
      BY DEF Lookup
    <2>3. /\ DOMAIN entries' = DOMAIN entries \cup {k}
          /\ entries'[k].weight = entries[k].weight
          /\ \A j \in DOMAIN entries \ {k} : entries'[j].weight = entries[j].weight
      BY <2>1, <2>2, StampWeights
    <2>. QED
      BY <2>1, <2>3
  <1>. QED
    BY SMT, <1>1, WeightAgrees DEF Accounted, Lookup

LEMMA BeginInsertAccounted ==
  ASSUME IInv, Accounted, NEW k, NEW v, NEW w, BeginInsert(k, v, w)
  PROVE  Accounted'
  <1>1. CASE k \in DOMAIN entries
    BY <1>1, DeleteWeight DEF BeginInsert, ReplacedWeight
  <1>2. CASE k \notin DOMAIN entries
    <2>1. entries' = Delete(entries, k) /\ retained' = SaturatingSub(retained, 0)
      BY <1>2 DEF BeginInsert, ReplacedWeight
    <2>2. DOMAIN entries' = DOMAIN entries /\ \A j \in DOMAIN entries : entries'[j] = entries[j]
      BY <1>2, <2>1 DEF Delete
    <2>3. retained' = retained
      BY SMT, <2>1 DEF SaturatingSub, IInv, TypeOK
    <2>. QED
      BY SMT, <2>2, <2>3, WeightAgrees DEF Accounted
  <1>. QED
    BY <1>1, <1>2

LEMMA EvictOldestAccounted ==
  ASSUME IInv, Accounted, EvictOldest
  PROVE  Accounted'
  <1>1. PICK p \in recency :
          /\ entries' = Delete(entries, p[2])
          /\ retained' = SaturatingSub(retained, entries[p[2]].weight)
    BY DEF EvictOldest
  <1>2. p[2] \in DOMAIN entries
    BY SMT DEF IInv, RecencyIndexExact
  <1>. QED
    BY <1>1, <1>2, DeleteWeight

\* The loop ends with room for the new entry: the addition does not saturate.
LEMMA FinishInsertAccounted ==
  ASSUME IInv, Accounted, FinishInsert
  PROVE  Accounted'
  <1>. DEFINE D == DOMAIN entries
              k == op.key
              w == op.weight
  <1>1. op # NoOp /\ w \in 0..MaxWeight /\ k \notin D
    BY SMT DEF FinishInsert, NoOp, IInv, TypeOK, IsInsertion
  <1>2. /\ DOMAIN entries' = D \cup {k} /\ entries'[k].weight = w
        /\ \A j \in D : entries'[j].weight = entries[j].weight
    <2>. DEFINE v == op.value
    <2>1. IsEntryMap(entries) /\ Stamp(entries, recency, k, v, w)
      BY DEF FinishInsert, IInv, TypeOK
    <2>. HIDE DEF k, v, w
    <2>2. \A x, y, z : Stamp(entries, recency, x, y, z) =>
            /\ DOMAIN entries' = DOMAIN entries \cup {x}
            /\ entries'[x].weight = z
            /\ \A j \in DOMAIN entries \ {x} : entries'[j].weight = entries[j].weight
      BY <2>1, StampWeights
    <2>3. /\ DOMAIN entries' = DOMAIN entries \cup {k}
          /\ entries'[k].weight = w
          /\ \A j \in DOMAIN entries \ {k} : entries'[j].weight = entries[j].weight
      BY <2>1, <2>2
    <2>. QED
      BY <1>1, <2>3
  <1>3. retained \in Nat /\ retained + w <= MaxWeight
    <2>1. CASE ~MustEvict(w)
      BY SMT, <1>1, <2>1, LimitsAssumption DEF MustEvict, SaturatingAdd, IInv, TypeOK
    <2>2. CASE recency = {}
      <3>1. D = {}
        BY <2>2 DEF IInv, RecencyIndexExact
      <3>2. retained = 0
        BY <3>1, WeightEmpty DEF Accounted
      <3>. QED
        BY SMT, <1>1, <3>2, LimitsAssumption
    <2>. QED
      BY <2>1, <2>2 DEF FinishInsert
  <1>4. retained' = retained + w
    BY SMT, <1>1, <1>3, LimitsAssumption DEF FinishInsert, SaturatingAdd
  <1>5. Weighed(entries', D \cup {k}) /\ (D \cup {k}) \ {k} = D
    BY <1>1, <1>2, EntriesWeighed, FS_AddElement DEF Weighed
  <1>. HIDE DEF D, k, w
  <1>6. Weight(entries', D \cup {k}) = w + Weight(entries', D)
    BY SMT, <1>2, <1>5, WeightStep
  <1>7. Weight(entries', D) = Weight(entries, D)
    BY <1>2, WeightAgrees
  <1>8. retained = Weight(entries, D)
    BY DEF Accounted, D
  <1>. QED
    BY SMT, <1>1, <1>2, <1>3, <1>4, <1>6, <1>7, <1>8, LimitsAssumption DEF Accounted

LEMMA InitAccounted == Init => Accounted
  <1>. SUFFICES ASSUME Init PROVE Accounted
    OBVIOUS
  <1>1. DOMAIN entries = {} /\ retained = 0
    BY DEF Init
  <1>. QED
    BY SMT, <1>1, WeightEmpty, LimitsAssumption DEF Accounted

LEMMA NextAccounted == IInv /\ Accounted /\ [Next]_vars => Accounted'
  <1>. SUFFICES ASSUME IInv, Accounted, [Next]_vars PROVE Accounted'
    OBVIOUS
  <1>1. CASE Clear
    <2>1. DOMAIN entries' = {} /\ retained' = 0
      BY <1>1 DEF Clear
    <2>. QED
      BY SMT, <2>1, WeightEmpty, LimitsAssumption DEF Accounted
  <1>2. CASE UNCHANGED vars
    BY <1>2 DEF vars, Accounted
  <1>. QED
    BY <1>1, <1>2, LookupAccounted, BeginInsertAccounted, EvictOldestAccounted,
       FinishInsertAccounted DEF Next

\* retained_weighted_certificate_bytes never drifts: replacements, evictions
\* and the saturating operations leave it the exact sum of the resident
\* weights, within max_weighted_certificate_bytes.
THEOREM BytesAreAccounted == Spec => []BytesAccounted
  <1>1. IInv /\ Accounted => BytesAccounted
    BY EntriesWeighed, FoldIsWeight DEF Accounted, BytesAccounted
  <1>. QED
    BY InitIInv, NextIInv, InitAccounted, NextAccounted, <1>1, PTL DEF Spec

-----------------------------------------------------------------------------
(***************************************************************************)
(* The memo implements LruCache.  The mapping counts the entries that an   *)
(* unfinished insert has removed as still resident, so the whole insert    *)
(* takes effect in its last step.                                          *)
(***************************************************************************)
Roomless(f, s, w) == Cardinality(s) >= MaxEntries \/ Weight(f, s) + w > MaxWeight

\* The keys that the eviction loop has removed so far.
Evicted == DOMAIN op.removed \ {op.key}

\* What the loop of insert has done: it removed the oldest entries, and the
\* last one it removed would not fit beside the ones that are left.
Evictions ==
  op # NoOp =>
    /\ op.weight \in Weights
    /\ DOMAIN op.removed \cap DOMAIN entries = {}
    /\ IsFiniteSet(DOMAIN op.removed)
    /\ \A j \in Evicted, k \in DOMAIN entries : op.removed[j].last_used < entries[k].last_used
    /\ Evicted # {} =>
         \E y \in Evicted :
           /\ \A j \in Evicted \ {y} : op.removed[j].last_used < op.removed[y].last_used
           /\ Roomless(Items, DOMAIN entries \cup {y}, op.weight)

\* A larger set of items has no more room.
LEMMA RoomShrinks ==
  ASSUME NEW f, NEW s, NEW t, s \subseteq t, IsFiniteSet(t), NEW w \in Nat,
         Roomless(f, s, w)
  PROVE  Roomless(f, t, w)
  <1>1. /\ Cardinality(s) <= Cardinality(t)
        /\ Cardinality(s) \in Nat /\ Cardinality(t) \in Nat
    BY SMT, FS_Subset, FS_CardinalityType
  <1>2. Bytes(f, s) \subseteq Bytes(f, t) /\ IsFiniteSet(Bytes(f, t))
    BY BytesFinite DEF Bytes
  <1>3. /\ Weight(f, s) <= Weight(f, t)
        /\ Weight(f, s) \in Nat /\ Weight(f, t) \in Nat
    BY SMT, <1>2, FS_Subset, FS_CardinalityType DEF Weight
  <1>. QED
    BY SMT, <1>1, <1>3, LimitsAssumption DEF Roomless

\* The fold that LruCache writes is the one of BytesAccounted.
LEMMA LruFold ==
  ASSUME NEW f
  PROVE  Lru!FoldFunction(LAMBDA item, sum : item.weight + sum, 0, f)
           = FoldFunction(LAMBDA e, sum : e.weight + sum, 0, f)
  BY DEF Lru!FoldFunction, FoldFunction, Lru!FoldFunctionOnSet, FoldFunctionOnSet,
         Lru!MapThenFoldSet, MapThenFoldSet

\* The items that the mapping counts as resident, and their weights.
LEMMA ItemsWeighed ==
  ASSUME IInv, Evictions
  PROVE  /\ DOMAIN Items = Resident
         /\ Weighed(Items, Resident)
         /\ \A k \in DOMAIN entries :
              k \in Resident /\ Held(k) = entries[k] /\ Items[k].weight = entries[k].weight
  <1>1. IsFiniteSet(Resident)
    BY FS_EmptySet, FS_Union DEF IInv, Evictions, Resident
  <1>2. \A k \in Resident : Held(k) \in Entry
    <2>1. CASE op = NoOp
      BY <2>1 DEF IInv, TypeOK, IsEntryMap, Resident, Held
    <2>2. CASE op # NoOp
      BY <2>2 DEF IInv, TypeOK, IsEntryMap, IsInsertion, Resident, Held
    <2>. QED
      BY <2>1, <2>2
  <1>3. \A k \in Resident : Held(k).weight \in 0..MaxWeight
    BY SMT, <1>2 DEF Entry
  <1>4. \A k \in Resident : Items[k].weight = Held(k).weight
    BY DEF Items
  <1>5. DOMAIN Items = Resident
    BY DEF Items
  <1>6. \A k \in DOMAIN entries : k \in Resident /\ Held(k) = entries[k]
    BY DEF Resident, Held
  <1>. QED
    BY <1>1, <1>3, <1>4, <1>5, <1>6 DEF Weighed

\* LruCache's test for room, in terms of bytes.
LEMMA RoomIsRoom ==
  ASSUME IInv, Evictions, NEW s, s \subseteq Resident, NEW w \in Nat
  PROVE  Lru!HasRoom(s, w) <=> ~ Roomless(Items, s, w)
  <1>. DEFINE g == [x \in s |-> Items[x]]
  <1>1. IsFiniteSet(s) /\ DOMAIN g = s /\ Weighed(g, s)
    BY ItemsWeighed, FS_Subset DEF Weighed
  <1>2. Weight(g, s) = Weight(Items, s)
    BY WeightAgrees
  <1>3. Lru!Restrict(Items, s) = g
    BY DEF Lru!Restrict
  <1>. HIDE DEF g
  <1>4. FoldFunction(LAMBDA e, sum : e.weight + sum, 0, g) = Weight(g, s)
    BY <1>1, FoldIsWeight
  <1>5. Lru!FoldFunction(LAMBDA item, sum : item.weight + sum, 0, g) = Weight(Items, s)
    BY <1>2, <1>4, LruFold
  <1>6. Lru!HasRoom(s, w) <=> Cardinality(s) < MaxEntries /\ Weight(Items, s) + w <= MaxWeight
    BY <1>3, <1>5 DEF Lru!HasRoom, Lru!Cardinality, Cardinality
  <1>7. Cardinality(s) \in Nat /\ Weight(Items, s) \in Nat
    BY <1>1, FS_CardinalityType, BytesFinite
  <1>. QED
    BY SMT, <1>6, <1>7, LimitsAssumption DEF Roomless

\* A fresh timestamp makes k the most recent key and leaves the order of the
\* others, their values and their weights alone, also when it renumbers.
LEMMA StampOrder ==
  ASSUME NEW ent, NEW rec, NEW k \in Keys, NEW v \in Values,
         NEW w \in 0 .. MaxWeight,
         sequence \in Timestamps, Consistent(ent, rec, k),
         Stamp(ent, rec, k, v, w)
  PROVE  /\ entries'[k].value = v /\ entries'[k].weight = w
         /\ \A j \in DOMAIN ent \ {k} :
              /\ entries'[j].value = ent[j].value /\ entries'[j].weight = ent[j].weight
              /\ entries'[j].last_used < entries'[k].last_used
         /\ \A i, j \in DOMAIN ent \ {k} :
              entries'[i].last_used < entries'[j].last_used
                <=> ent[i].last_used < ent[j].last_used
  <1>. DEFINE new(now) == [value |-> v, weight |-> w, last_used |-> now]
  <1>1. \A j \in DOMAIN ent : ent[j] \in Entry /\ ent[j].last_used \in Nat
    <2>1. \A j \in DOMAIN ent : ent[j] \in Entry
      BY DEF Consistent, IsEntryMap
    <2>. QED
      BY SMT, <2>1, LimitsAssumption DEF Entry, Timestamps
  <1>2. CASE sequence # MaxU64
    <2>1. entries' = Store(ent, k, new(sequence))
      BY <1>2 DEF Stamp
    <2>2. entries'[k] = new(sequence) /\ \A j \in DOMAIN ent \ {k} : entries'[j] = ent[j]
      BY <2>1 DEF Store
    <2>3. \A j \in DOMAIN ent : ent[j].last_used < sequence
      BY DEF Consistent
    <2>. QED
      BY SMT, <2>2, <2>3
  <1>3. CASE sequence = MaxU64
    <2>. DEFINE n == Cardinality(DOMAIN ent)
                pos(j) == Position(rec, ent[j].last_used)
    <2>1. entries' = Store(Renumbered(ent, rec), k, new(n))
      BY <1>3 DEF Stamp
    <2>2. \A p \in rec : p[1] \in Nat
      BY SMT, <1>1 DEF Consistent
    <2>3. \A j \in DOMAIN ent \ {k} : <<ent[j].last_used, j>> \in rec
      BY DEF Consistent
    <2>4. IsFiniteSet(rec) /\ Cardinality(rec) <= n /\ Cardinality(rec) \in Nat /\ n \in Nat
      BY IndexFinite, FS_CardinalityType DEF Consistent
    <2>5. ASSUME NEW j \in DOMAIN ent \ {k}
          PROVE  pos(j) \in Nat /\ pos(j) < n
      <3>1. pos(j) \in Nat /\ pos(j) < Cardinality(rec)
        BY <2>2, <2>3, <2>4, PositionOrdered
      <3>. QED
        BY SMT, <2>4, <3>1
    <2>6. ASSUME NEW i \in DOMAIN ent \ {k}, NEW j \in DOMAIN ent \ {k},
                 ent[i].last_used < ent[j].last_used
          PROVE  pos(i) < pos(j)
      <3>1. \A u, y : <<u, y>> \in rec /\ ent[i].last_used < u =>
               Position(rec, ent[i].last_used) < Position(rec, u)
        BY <2>2, <2>3, <2>4, PositionOrdered
      <3>. QED
        BY <2>3, <2>6, <3>1
    <2>7. \A j \in DOMAIN ent \ {k} : entries'[j] = [ent[j] EXCEPT !.last_used = pos(j)]
      BY <2>1, <2>3 DEF Store, Renumbered, NewTimestamp
    <2>8. entries'[k] = new(n)
      BY <2>1 DEF Store
    <2>9. \A j \in DOMAIN ent \ {k} :
            /\ entries'[j].last_used = pos(j)
            /\ entries'[j].value = ent[j].value /\ entries'[j].weight = ent[j].weight
      BY <1>1, <2>7 DEF Entry
    <2>10. entries'[k].last_used = n /\ entries'[k].value = v /\ entries'[k].weight = w
      BY SMT, <2>8
    <2>. HIDE DEF pos, n
    <2>11. \A i, j \in DOMAIN ent \ {k} : pos(i) < pos(j) <=> ent[i].last_used < ent[j].last_used
      <3>. SUFFICES ASSUME NEW i \in DOMAIN ent \ {k}, NEW j \in DOMAIN ent \ {k}
                    PROVE  pos(i) < pos(j) <=> ent[i].last_used < ent[j].last_used
        OBVIOUS
      <3>1. ent[i].last_used = ent[j].last_used => pos(i) = pos(j)
        BY DEF pos
      <3>. QED
        BY SMT, <1>1, <2>5, <2>6, <3>1
    <2>. QED
      BY <2>5, <2>9, <2>10, <2>11
  <1>. QED
    BY <1>2, <1>3

\* With the mutex free, a fresh timestamp is LruCache's Refresh.
LEMMA StampRefreshes ==
  ASSUME NEW rec, NEW k \in Keys, NEW v \in Values, NEW w \in 0 .. MaxWeight,
         sequence \in Timestamps, Consistent(entries, rec, k),
         Stamp(entries, rec, k, v, w), op' = NoOp
  PROVE  Lru!Refresh(DOMAIN entries \ {k}, k, [value |-> v, weight |-> w])
  <1>. DEFINE D == DOMAIN entries \ {k}
  <1>1. /\ entries'[k].value = v /\ entries'[k].weight = w
        /\ \A j \in D :
             /\ entries'[j].value = entries[j].value /\ entries'[j].weight = entries[j].weight
             /\ entries'[j].last_used < entries'[k].last_used
        /\ \A i, j \in D : entries'[i].last_used < entries'[j].last_used
                             <=> entries[i].last_used < entries[j].last_used
    BY StampOrder
  <1>2. DOMAIN entries' = D \cup {k}
    <2>1. DOMAIN entries' = DOMAIN entries \cup {k}
      BY StampExact
    <2>. QED
      BY <2>1
  <1>3. Resident' = D \cup {k} /\ \A j \in D \cup {k} : Held(j)' = entries'[j]
    BY <1>2 DEF Resident, Held
  <1>4. D \subseteq Resident /\ \A j \in D : Held(j) = entries[j]
    BY DEF Resident, Held
  <1>. HIDE DEF D
  <1>5. Items' = [j \in D \cup {k} |-> IF j = k THEN [value |-> v, weight |-> w] ELSE Items[j]]
    <2>1. \A j \in D : Items[j] = [value |-> entries[j].value, weight |-> entries[j].weight]
      BY <1>4 DEF Items
    <2>2. Items' = [j \in D \cup {k} |-> [value |-> entries'[j].value, weight |-> entries'[j].weight]]
      BY <1>3 DEF Items
    <2>. QED
      BY <1>1, <2>1, <2>2
  <1>6. Older' = (Older \cap (D \X D)) \cup (D \X {k})
    <2>1. k \notin D
      BY DEF D
    <2>2. \A j \in D \cup {k} : ~ (entries'[k].last_used < entries'[j].last_used)
      <3>1. \A j \in D \cup {k} : entries'[j].last_used \in Nat
        <4>1. IsEntryMap(entries')
          BY StampExact
        <4>. QED
          BY SMT, <1>2, <4>1, LimitsAssumption DEF IsEntryMap, Entry, Timestamps
      <3>. QED
        BY SMT, <1>1, <3>1
    <2>3. Older' = {p \in (D \cup {k}) \X (D \cup {k}) : entries'[p[1]].last_used < entries'[p[2]].last_used}
      BY <1>3 DEF Older
    <2>4. \A i, j \in D : <<i, j>> \in Older <=> entries[i].last_used < entries[j].last_used
      BY SMT, <1>4 DEF Older
    <2>5. \A i, j : <<i, j>> \in Older' <=>
            /\ i \in D \cup {k} /\ j \in D \cup {k} /\ entries'[i].last_used < entries'[j].last_used
      BY SMT, <2>3
    <2>6. \A i, j : <<i, j>> \in Older' <=>
            \/ i \in D /\ j \in D /\ <<i, j>> \in Older
            \/ i \in D /\ j = k
      BY <1>1, <2>1, <2>2, <2>4, <2>5
    <2>7. \A p \in Older' : p = <<p[1], p[2]>>
      BY SMT, <2>3
    <2>. QED
      BY SMT, <2>6, <2>7
  <1>. QED
    BY <1>5, <1>6 DEF Lru!Refresh, D

\* A lookup is a hit.
LEMMA LookupIsHit ==
  ASSUME IInv, NEW k \in Keys, Lookup(k)
  PROVE  Lru!Hit(k)
  <1>. DEFINE rec == recency \ PairOf(k)
              v == entries[k].value
              w == entries[k].weight
  <1>1. op = NoOp /\ op' = NoOp /\ k \in DOMAIN entries /\ Stamp(entries, rec, k, v, w)
    BY DEF Lookup
  <1>2. sequence \in Timestamps /\ v \in Values /\ w \in 0..MaxWeight
    BY <1>1 DEF IInv, TypeOK, IsEntryMap, Entry
  <1>3. Consistent(entries, rec, k)
    BY SMT, <1>1 DEF IInv, TypeOK, RecencyIndexExact, EntryLimit, Consistent, PairOf
  <1>. HIDE DEF rec, v, w
  <1>4. Lru!Refresh(DOMAIN entries \ {k}, k, [value |-> v, weight |-> w])
    BY <1>1, <1>2, <1>3, StampRefreshes
  <1>5. DOMAIN Items = DOMAIN entries
    BY <1>1 DEF Items, Resident
  <1>6. Items[k] = [value |-> v, weight |-> w]
    BY <1>1 DEF Items, Resident, Held, v, w
  <1>. QED
    BY <1>1, <1>4, <1>5, <1>6 DEF Lru!Hit

\* A step that moves entries to the removed ones changes nothing in LruCache.
LEMMA SameItems ==
  ASSUME Resident' = Resident, \A k \in Resident : Held(k)' = Held(k)
  PROVE  Items' = Items /\ Older' = Older
  <1>1. Items' = Items
    BY DEF Items
  <1>2. Older' = {p \in Resident \X Resident : Held(p[1])' .last_used < Held(p[2])' .last_used}
    BY DEF Older
  <1>3. \A p \in Resident \X Resident : Held(p[1])' = Held(p[1]) /\ Held(p[2])' = Held(p[2])
    BY SMT
  <1>. QED
    BY <1>1, <1>2, <1>3 DEF Older

\* Taking the replaced entry out is invisible, and starts an empty loop.
LEMMA BeginInsertStutters ==
  ASSUME IInv, NEW k \in Keys, NEW v \in Values, NEW w \in Weights, BeginInsert(k, v, w)
  PROVE  Items' = Items /\ Older' = Older /\ Evictions'
  <1>1. /\ op = NoOp /\ DOMAIN entries' = DOMAIN entries \ {k}
        /\ \A j \in DOMAIN entries' : entries'[j] = entries[j]
    BY DEF BeginInsert, Delete
  <1>2. /\ op'.key = k /\ op'.weight = w /\ op'.kind = "insert"
        /\ op'.removed = [j \in DOMAIN entries \cap {k} |-> entries[j]]
    BY SMT DEF BeginInsert
  <1>3. op' # NoOp
    BY SMT, <1>2 DEF NoOp
  <1>4. Resident' = Resident
    BY <1>1, <1>2, <1>3 DEF Resident
  <1>5. \A j \in Resident : Held(j)' = Held(j)
    BY <1>1, <1>2 DEF Resident, Held
  <1>6. DOMAIN op'.removed = DOMAIN entries \cap {k}
    BY <1>2
  <1>7. Evicted' = {} /\ DOMAIN op'.removed \cap DOMAIN entries' = {}
    BY <1>1, <1>2, <1>6 DEF Evicted
  <1>8. IsFiniteSet(DOMAIN op'.removed)
    BY <1>6, FS_Subset DEF IInv
  <1>. QED
    BY <1>2, <1>4, <1>5, <1>7, <1>8, SameItems DEF Evictions

\* The loop condition is the lack of room for the new entry.
LEMMA MustEvictMeans ==
  ASSUME IInv, Accounted, Evictions, NEW w \in 0 .. MaxWeight
  PROVE  MustEvict(w) <=> Roomless(Items, DOMAIN entries, w)
  <1>1. retained = Weight(Items, DOMAIN entries)
    <2>1. \A k \in DOMAIN entries : Items[k].weight = entries[k].weight
      BY ItemsWeighed
    <2>2. Weight(Items, DOMAIN entries) = Weight(entries, DOMAIN entries)
      BY <2>1, WeightAgrees
    <2>. QED
      BY <2>2 DEF Accounted
  <1>2. retained \in Nat /\ Cardinality(DOMAIN entries) \in Nat
    BY SMT, FS_CardinalityType, LimitsAssumption DEF IInv, TypeOK
  <1>. QED
    BY SMT, <1>1, <1>2, LimitsAssumption DEF MustEvict, Roomless, SaturatingAdd

\* An eviction is invisible until the insert ends, and removes the oldest of
\* the remaining entries, beside which there is no room.
LEMMA EvictOldestStutters ==
  ASSUME IInv, Accounted, Evictions, EvictOldest
  PROVE  Items' = Items /\ Older' = Older /\ Evictions'
  <1>1. op # NoOp /\ MustEvict(op.weight)
    BY SMT DEF EvictOldest, NoOp
  <1>2. IsInsertion(op) /\ op.key \notin DOMAIN entries
    BY <1>1 DEF IInv, TypeOK
  <1>3. PICK p \in recency :
          /\ \A q \in recency : p[1] <= q[1]
          /\ entries' = Delete(entries, p[2])
          /\ op' = [op EXCEPT !.removed = Store(op.removed, p[2], entries[p[2]])]
    BY DEF EvictOldest
  <1>. DEFINE x == p[2]
  <1>4. x \in DOMAIN entries /\ p[1] = entries[x].last_used
    BY SMT DEF IInv, RecencyIndexExact
  <1>5. ASSUME NEW j \in DOMAIN entries \ {x}
        PROVE  entries[x].last_used < entries[j].last_used
    <2>1. <<entries[j].last_used, j>> \in recency
      BY DEF IInv, RecencyIndexExact
    <2>2. entries[x].last_used <= entries[j].last_used
      BY SMT, <1>3, <1>4, <2>1
    <2>3. entries[x].last_used # entries[j].last_used
      BY <1>4 DEF IInv, RecencyIndexExact
    <2>4. \A i \in DOMAIN entries : entries[i].last_used \in Nat
      BY SMT, LimitsAssumption DEF IInv, TypeOK, IsEntryMap, Entry, Timestamps
    <2>. HIDE DEF x
    <2>. QED
      BY SMT, <1>4, <2>2, <2>3, <2>4
  <1>. HIDE DEF x
  <1>6. /\ DOMAIN entries' = DOMAIN entries \ {x}
        /\ \A j \in DOMAIN entries' : entries'[j] = entries[j]
    BY <1>3 DEF Delete, x
  <1>7. /\ op'.key = op.key /\ op'.weight = op.weight /\ op'.kind = op.kind
        /\ op'.removed = Store(op.removed, x, entries[x])
    BY SMT, <1>2, <1>3 DEF IsInsertion, x
  <1>8. op' # NoOp
    BY SMT, <1>7 DEF NoOp, EvictOldest
  <1>9. /\ op.weight \in Weights /\ op.weight \in 0 .. MaxWeight
        /\ DOMAIN op.removed \cap DOMAIN entries = {} /\ IsFiniteSet(DOMAIN op.removed)
        /\ \A j \in Evicted, k \in DOMAIN entries : op.removed[j].last_used < entries[k].last_used
    BY <1>1, <1>2 DEF Evictions, IsInsertion
  <1>10. /\ DOMAIN op'.removed = DOMAIN op.removed \cup {x}
         /\ op'.removed[x] = entries[x]
         /\ \A j \in DOMAIN op.removed : op'.removed[j] = op.removed[j]
    BY <1>4, <1>7, <1>9 DEF Store
  <1>11. Resident' = Resident
    BY <1>1, <1>4, <1>6, <1>8, <1>10 DEF Resident
  <1>12. \A j \in Resident : Held(j)' = Held(j)
    BY <1>1, <1>4, <1>6, <1>9, <1>10 DEF Resident, Held
  <1>13. Items' = Items /\ Older' = Older
    BY <1>11, <1>12, SameItems
  <1>14. Evicted' = Evicted \cup {x} /\ x \notin Evicted
    BY <1>2, <1>4, <1>7, <1>9, <1>10 DEF Evicted
  <1>15. \A j \in Evicted' : \A k \in DOMAIN entries' : op'.removed[j].last_used < entries'[k].last_used
    BY <1>5, <1>6, <1>9, <1>10, <1>14 DEF Evicted
  <1>16. \A j \in Evicted' \ {x} : op'.removed[j].last_used < op'.removed[x].last_used
    BY <1>4, <1>9, <1>10, <1>14 DEF Evicted
  <1>17. Roomless(Items', DOMAIN entries' \cup {x}, op'.weight)
    <2>1. DOMAIN entries' \cup {x} = DOMAIN entries
      BY <1>4, <1>6
    <2>. QED
      BY <1>1, <1>7, <1>9, <1>13, <2>1, MustEvictMeans
  <1>18. DOMAIN op'.removed \cap DOMAIN entries' = {} /\ IsFiniteSet(DOMAIN op'.removed)
    <2>1. DOMAIN op'.removed \cap DOMAIN entries' = {}
      BY <1>6, <1>9, <1>10
    <2>2. IsFiniteSet(DOMAIN op.removed \cup {x})
      BY <1>9, FS_AddElement
    <2>. QED
      BY <1>10, <2>1, <2>2
  <1>19. x \in Evicted' /\ op'.weight \in Weights
    BY <1>7, <1>9, <1>14
  <1>. QED
    BY <1>13, <1>15, <1>16, <1>17, <1>18, <1>19 DEF Evictions

\* The end of insert is LruCache's Put: the entries that are left are the most
\* recent ones, there is room, and any more of them would leave no room.
LEMMA FinishInsertIsPut ==
  ASSUME IInv, Accounted, Evictions, FinishInsert
  PROVE  Lru!Put(op.key, op.value, op.weight)
  <1>. DEFINE D == DOMAIN entries
              k == op.key
              v == op.value
              w == op.weight
  <1>1. op # NoOp /\ Stamp(entries, recency, k, v, w) /\ op' = NoOp
    BY SMT DEF FinishInsert, NoOp, Unlock
  <1>2. k \notin D /\ k \in Keys /\ v \in Values /\ w \in 0 .. MaxWeight
    BY <1>1 DEF IInv, TypeOK, IsInsertion
  <1>3. w \in Nat /\ w <= MaxWeight
    BY SMT, <1>2, LimitsAssumption
  <1>4. DOMAIN Items = Resident /\ D \subseteq Resident /\ IsFiniteSet(Resident)
        /\ \A j \in D : Held(j) = entries[j]
    BY ItemsWeighed DEF Weighed
  <1>5. /\ D \cap DOMAIN op.removed = {}
        /\ \A j \in Evicted, i \in D : op.removed[j].last_used < entries[i].last_used
        /\ Evicted # {} =>
             \E y \in Evicted :
               /\ \A j \in Evicted \ {y} : op.removed[j].last_used < op.removed[y].last_used
               /\ Roomless(Items, D \cup {y}, w)
    BY <1>1 DEF Evictions
  <1>6. /\ Resident \ {k} = D \cup Evicted /\ D \cap Evicted = {}
        /\ \A j \in Evicted : Held(j) = op.removed[j]
    BY <1>1, <1>2, <1>5 DEF Resident, Evicted, Held
  <1>7. \A i, j \in Resident : <<i, j>> \in Older <=> Held(i).last_used < Held(j).last_used
    BY SMT DEF Older
  <1>8. \A j \in Evicted, i \in D : ~ (<<i, j>> \in Older)
    <2>1. \A j \in Resident : Held(j).last_used \in Nat
      <3>1. IsEntryMap(entries) /\ IsEntryMap(op.removed)
        BY <1>1 DEF IInv, TypeOK, IsInsertion
      <3>2. \A j \in Resident : Held(j) \in Entry
        BY <1>1, <3>1 DEF IsEntryMap, Resident, Held
      <3>. QED
        BY SMT, <3>2, LimitsAssumption DEF Entry, Timestamps
    <2>. QED
      BY SMT, <1>4, <1>5, <1>6, <1>7, <2>1
  <1>9. Lru!MostRecent(D, k)
    BY <1>2, <1>4, <1>6, <1>8 DEF Lru!MostRecent
  <1>10. ~ Roomless(Items, D, w)
    <2>1. CASE ~ MustEvict(w)
      BY <1>2, <2>1, MustEvictMeans
    <2>2. CASE recency = {}
      <3>1. D = {}
        BY <2>2 DEF IInv, RecencyIndexExact
      <3>2. Cardinality(D) = 0 /\ Weight(Items, D) = 0
        BY <3>1, FS_EmptySet, WeightEmpty
      <3>. HIDE DEF D, w
      <3>. QED
        BY SMT, <1>3, <3>2, LimitsAssumption DEF Roomless
    <2>. QED
      BY <2>1, <2>2 DEF FinishInsert
  <1>11. Lru!HasRoom(D, w)
    BY <1>3, <1>4, <1>10, RoomIsRoom
  <1>12. ASSUME NEW more \in SUBSET Resident, Lru!MostRecent(more, k), Lru!HasRoom(more, w)
         PROVE  more \subseteq D
    <2>. SUFFICES ASSUME NEW z \in more, z \notin D PROVE FALSE
      OBVIOUS
    <2>1. /\ more \subseteq Resident \ {k}
          /\ \A i \in more, j \in Resident \ {k} : <<i, j>> \in Older => j \in more
      BY <1>4, <1>12 DEF Lru!MostRecent
    <2>2. z \in Evicted
      BY <1>6, <2>1
    <2>3. PICK y \in Evicted :
            /\ \A j \in Evicted \ {y} : op.removed[j].last_used < op.removed[y].last_used
            /\ Roomless(Items, D \cup {y}, w)
      BY <1>5, <2>2
    <2>4. ASSUME NEW j \in D PROVE j \in more
      <3>1. Held(z).last_used < Held(j).last_used
        BY <1>4, <1>5, <1>6, <2>2
      <3>2. z \in Resident /\ j \in Resident \ {k}
        BY <1>6, <2>2
      <3>3. <<z, j>> \in Older
        BY <1>7, <3>1, <3>2
      <3>. QED
        BY <2>1, <3>2, <3>3
    <2>5. y \in more
      BY <1>6, <1>7, <2>1, <2>2, <2>3
    <2>6. D \cup {y} \subseteq more /\ IsFiniteSet(more)
      BY <1>4, <2>4, <2>5, FS_Subset
    <2>7. Roomless(Items, more, w)
      BY <1>3, <2>3, <2>6, RoomShrinks
    <2>. QED
      BY <1>3, <1>12, <2>7, RoomIsRoom
  <1>13. Lru!Refresh(D, k, [value |-> v, weight |-> w])
    <2>1. Consistent(entries, recency, k)
      BY <1>2 DEF Consistent, IInv, TypeOK, RecencyIndexExact, EntryLimit
    <2>2. sequence \in Timestamps
      BY DEF IInv, TypeOK
    <2>. HIDE DEF k, v, w
    <2>3. Lru!Refresh(DOMAIN entries \ {k}, k, [value |-> v, weight |-> w])
      BY <1>1, <1>2, <2>1, <2>2, StampRefreshes
    <2>4. DOMAIN entries \ {k} = D
      BY <1>2
    <2>. QED
      BY <2>3, <2>4
  <1>. HIDE DEF D, k, v, w
  <1>. QED
    <2>1. D \in SUBSET DOMAIN Items
      BY <1>4
    <2>2. Lru!Put(k, v, w)
      BY <1>3, <1>4, <1>9, <1>11, <1>12, <1>13, <2>1 DEF Lru!Put
    <2>. QED
      BY <2>2 DEF k, v, w

\* Every step of the memo is a step of LruCache or leaves it as it is.
LEMMA StepImplementsLru ==
  ASSUME IInv, Accounted, Evictions, [Next]_vars
  PROVE  Evictions' /\ [Lru!Next]_<<Items, Older>>
  <1>0. op' = NoOp => Evictions'
    BY DEF Evictions
  <1>1. CASE \E k \in Keys : Lookup(k)
    <2>1. PICK k \in Keys : Lookup(k)
      BY <1>1
    <2>2. op' = NoOp /\ Lru!Hit(k)
      BY <2>1, LookupIsHit DEF Lookup
    <2>. QED
      BY <1>0, <2>2 DEF Lru!Next
  <1>2. CASE \E k \in Keys, v \in Values, w \in Weights : BeginInsert(k, v, w)
    BY <1>2, BeginInsertStutters
  <1>3. CASE EvictOldest
    BY <1>3, EvictOldestStutters
  <1>4. CASE FinishInsert
    <2>1. op # NoOp /\ op' = NoOp
      BY SMT, <1>4 DEF FinishInsert, NoOp, Unlock
    <2>2. op.key \in Keys /\ op.value \in Values /\ op.weight \in Weights
      BY <2>1 DEF IInv, TypeOK, IsInsertion, Evictions
    <2>3. Lru!Put(op.key, op.value, op.weight)
      BY <1>4, FinishInsertIsPut
    <2>. QED
      BY <1>0, <2>1, <2>2, <2>3 DEF Lru!Next
  <1>5. CASE Clear
    <2>1. DOMAIN entries' = {} /\ op' = NoOp
      BY <1>5 DEF Clear
    <2>2. Resident' = {}
      BY <2>1 DEF Resident
    <2>3. Items' = [k \in {} |-> {}] /\ Older' = {}
      BY SMT, <2>2 DEF Items, Older
    <2>. QED
      BY <1>0, <2>1, <2>3 DEF Lru!Next, Lru!Clear
  <1>6. CASE UNCHANGED vars
    <2>1. Resident' = Resident /\ \A k \in Resident : Held(k)' = Held(k)
      BY <1>6 DEF vars, Resident, Held
    <2>2. Items' = Items /\ Older' = Older
      BY <2>1, SameItems
    <2>. QED
      BY <1>6, <2>2 DEF vars, Evictions, Evicted
  <1>. QED
    BY <1>1, <1>2, <1>3, <1>4, <1>5, <1>6 DEF Next

\* BoundedPackageVerificationProcessMemo is a least-recently-used cache, for
\* every set of keys, every limit and every u64::MAX: an insert drops only the
\* least recent entries and no more of them than needed, and renumbering the
\* timestamps is invisible.
THEOREM MemoImplementsLru == Spec => ImplementsLru
  <1>1. Init => Lru!Init /\ Evictions
    <2>. SUFFICES ASSUME Init PROVE Lru!Init /\ Evictions
      OBVIOUS
    <2>1. DOMAIN entries = {} /\ op = NoOp
      BY DEF Init
    <2>2. Resident = {}
      BY <2>1 DEF Resident
    <2>3. Items = [k \in {} |-> {}] /\ Older = {}
      BY SMT, <2>2 DEF Items, Older
    <2>. QED
      BY <2>1, <2>3 DEF Lru!Init, Evictions
  <1>2. IInv /\ Accounted /\ Evictions /\ [Next]_vars
          => Evictions' /\ [Lru!Next]_<<Items, Older>>
    BY StepImplementsLru
  <1>. QED
    BY InitIInv, NextIInv, InitAccounted, NextAccounted, <1>1, <1>2, PTL
       DEF Spec, ImplementsLru, Lru!Spec
=============================================================================
