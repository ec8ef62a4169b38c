----------------------------- MODULE ProcessMemo -----------------------------
(***************************************************************************)
(* The bounded process memo of the package verifier                        *)
(* (BoundedPackageVerificationProcessMemo): resident entries, the ordered  *)
(* recency index, the retained byte counter and the u64 recency sequence,  *)
(* which is renumbered when it reaches its maximum.                        *)
(*                                                                         *)
(* All operations run under one mutex.  A lookup is one step; an insert is *)
(* one step per iteration of its eviction loop, and no other operation     *)
(* starts before it ends (op).  The cumulative counters are telemetry that *)
(* no operation reads and are left out.                                    *)
(***************************************************************************)
EXTENDS Integers, FiniteSets

CONSTANTS
  Keys, Values,
  Weights,      \* the weighted certificate bytes a caller may ask to store
  MaxEntries, MaxWeight,   \* PackageVerificationProcessMemoLimits
  MaxU64        \* u64::MAX

ASSUME LimitsAssumption ==
  /\ MaxEntries \in Nat \ {0}
  /\ MaxWeight \in Nat \ {0}
  /\ MaxU64 \in Nat
  /\ MaxEntries < MaxU64
  /\ MaxWeight < MaxU64
  /\ Weights \subseteq 0 .. MaxU64

VARIABLES
  entries,      \* BTreeMap<String, BoundedMemoEntry>
  recency,      \* BTreeSet<(u64, String)>
  retained,     \* retained_weighted_certificate_bytes
  sequence,     \* recency_sequence
  op            \* the insert that holds the mutex, or NoOp

vars == <<entries, recency, retained, sequence, op>>

Timestamps == 0 .. MaxU64
Entry == [value : Values, weight : 0 .. MaxWeight, last_used : Timestamps]
NoOp == [kind |-> "none"]
IsEntryMap(f) == DOMAIN f \subseteq Keys /\ f \in [DOMAIN f -> Entry]
IsInsertion(o) ==
  /\ o = [kind |-> "insert", key |-> o.key, value |-> o.value,
          weight |-> o.weight, removed |-> o.removed]
  /\ o.key \in Keys
  /\ o.value \in Values
  /\ o.weight \in 0 .. MaxWeight
  /\ IsEntryMap(o.removed)

SaturatingAdd(a, b) == IF a + b > MaxU64 THEN MaxU64 ELSE a + b
SaturatingSub(a, b) == IF b > a THEN 0 ELSE a - b

\* f without key k.
Delete(f, k) == [j \in DOMAIN f \ {k} |-> f[j]]
\* f with key k set to x.
Store(f, k, x) == [j \in DOMAIN f \cup {k} |-> IF j = k THEN x ELSE f[j]]

-----------------------------------------------------------------------------
\* How many members of the recency index rec are older than timestamp t.
Position(rec, t) == Cardinality({p \in rec : p[1] < t})

\* The timestamp an entry gets when the index is renumbered.
NewTimestamp_Stale(rec, e) == e.last_used
NewTimestamp(rec, e) == Position(rec, e.last_used)

\* next_recency's renumbering: the entries listed in the recency index get the
\* timestamps 0, 1, ... in their present order.
Renumbered(ent, rec) ==
  [k \in DOMAIN ent |->
     IF \E p \in rec : p[2] = k
     THEN [ent[k] EXCEPT !.last_used = NewTimestamp(rec, ent[k])]
     ELSE ent[k]]

\* next_recency, then the new entry (value v, weight w) of key k under the
\* fresh timestamp; rec is the recency index without k's old pair.
Stamp(ent, rec, k, v, w) ==
  LET wraps == sequence = MaxU64
      ent1 == IF wraps THEN Renumbered(ent, rec) ELSE ent
      rec1 == IF wraps
              THEN {<<Position(rec, p[1]), p[2]>> : p \in rec}
              ELSE rec
      now == IF wraps THEN Cardinality(DOMAIN ent) ELSE sequence
  IN  /\ entries' = Store(ent1, k, [value |-> v, weight |-> w, last_used |-> now])
      /\ recency' = rec1 \cup {<<now, k>>}
      /\ sequence' = SaturatingAdd(now, 1)

\* The pairs of the recency index that a resident key k accounts for.
PairOf(k) ==
  IF k \in DOMAIN entries THEN {<<entries[k].last_used, k>>} ELSE {}

\* The bytes a resident key k accounts for.
ReplacedWeight_Ignored(k) == 0
ReplacedWeight(k) == IF k \in DOMAIN entries THEN entries[k].weight ELSE 0

\* insert's first test: an entry heavier than the whole memo is rejected.
Accepts_All(w) == w <= MaxU64
Accepts(w) == w <= MaxWeight

\* The loop condition of insert.
MustEvict_TooLate(w) ==
  \/ Cardinality(DOMAIN entries) > MaxEntries
  \/ SaturatingAdd(retained, w) > MaxWeight
MustEvict_TooEager(w) ==
  \/ Cardinality(DOMAIN entries) >= MaxEntries
  \/ SaturatingAdd(retained, w) >= MaxWeight
MustEvict(w) ==
  \/ Cardinality(DOMAIN entries) >= MaxEntries
  \/ SaturatingAdd(retained, w) > MaxWeight

\* The end of the mutex guard's scope.
Unlock == op' = NoOp

-----------------------------------------------------------------------------
Init ==
  /\ entries = [k \in {} |-> NoOp]
  /\ recency = {}
  /\ retained = 0
  /\ sequence = 0
  /\ op = NoOp

\* lookup of a resident key.  A miss only counts.
Lookup(k) ==
  /\ op = NoOp
  /\ k \in DOMAIN entries
  /\ Stamp(entries, recency \ PairOf(k), k, entries[k].value, entries[k].weight)
  /\ UNCHANGED <<retained, op>>

\* insert up to its loop: the entry it replaces goes first.  An oversize insert
\* leaves the memo as it is.
BeginInsert(k, v, w) ==
  /\ op = NoOp
  /\ Accepts(w)
  /\ op' = [kind |-> "insert", key |-> k, value |-> v, weight |-> w,
            removed |-> [j \in DOMAIN entries \cap {k} |-> entries[j]]]
  /\ entries' = Delete(entries, k)
  /\ recency' = recency \ PairOf(k)
  /\ retained' = SaturatingSub(retained, ReplacedWeight(k))
  /\ UNCHANGED sequence

\* Mutant: the oldest pair is looked up but not taken out of the recency index.
EvictOldest_PairKept ==
  /\ op.kind = "insert"
  /\ MustEvict(op.weight)
  /\ \E p \in recency :
       /\ \A q \in recency : p[1] <= q[1]
       /\ entries' = Delete(entries, p[2])
       /\ retained' = SaturatingSub(retained, ReplacedWeight(p[2]))
  /\ UNCHANGED <<recency, op, sequence>>

\* One iteration of the eviction loop: the first pair of the recency index and
\* its entry go.
EvictOldest ==
  /\ op.kind = "insert"
  /\ MustEvict(op.weight)
  /\ \E p \in recency :
       /\ \A q \in recency : p[1] <= q[1]
       /\ recency' = recency \ {p}
       /\ entries' = Delete(entries, p[2])
       /\ retained' = SaturatingSub(retained, entries[p[2]].weight)
       /\ op' = [op EXCEPT !.removed = Store(op.removed, p[2], entries[p[2]])]
  /\ UNCHANGED sequence

\* The loop has ended, with room or with nothing left: store the new entry and
\* unlock.
FinishInsert ==
  /\ op.kind = "insert"
  /\ ~ MustEvict(op.weight) \/ recency = {}
  /\ Stamp(entries, recency, op.key, op.value, op.weight)
  /\ retained' = SaturatingAdd(retained, op.weight)
  /\ Unlock

\* clear: every field back to its default.
Clear ==
  /\ op = NoOp
  /\ entries' = [k \in {} |-> NoOp]
  /\ recency' = {}
  /\ retained' = 0
  /\ sequence' = 0
  /\ UNCHANGED op

Next ==
  \/ \E k \in Keys : Lookup(k)
  \/ \E k \in Keys, v \in Values, w \in Weights : BeginInsert(k, v, w)
  \/ EvictOldest
  \/ FinishInsert
  \/ Clear

\* The loop body and the code after it run without waiting for anyone.
Fairness == WF_vars(EvictOldest) /\ WF_vars(FinishInsert)

Spec == Init /\ [][Next]_vars /\ Fairness
-----------------------------------------------------------------------------
\* Every component has the type of the Rust field it stands for.
TypeOK ==
  /\ IsEntryMap(entries)
  /\ recency \subseteq Timestamps \X Keys
  /\ retained \in 0 .. MaxU64
  /\ sequence \in Timestamps
  /\ op = NoOp \/ IsInsertion(op)

\* The recency index lists exactly the resident entries, each once and under
\* the timestamp the entry carries, and every timestamp in use is older than
\* the next one.  The two expect calls ("recency key must have a matching memo
\* entry") and the eviction order rest on this, the renumbering included.
RecencyIndexExact ==
  /\ recency = {<<entries[k].last_used, k>> : k \in DOMAIN entries}
  /\ \A k \in DOMAIN entries : entries[k].last_used < sequence
  /\ \A j, k \in DOMAIN entries :
       entries[j].last_used = entries[k].last_used => j = k

\* There are never more resident entries than the caller's max_entries, not
\* even while an insert is under way.
EntryLimit == Cardinality(DOMAIN entries) <= MaxEntries

\* The eviction loop ends: an insert that took the mutex releases it.
InsertCompletes == (op # NoOp) ~> (op = NoOp)
=============================================================================
