--------------------------- MODULE ProcessMemoLru ---------------------------
(***************************************************************************)
(* What the process memo is worth to its users: exact byte accounting, and *)
(* the refinement mapping from its timestamps to the order of LruCache.    *)
(***************************************************************************)
EXTENDS ProcessMemo, Functions

\* The running byte counter never drifts from the entries: after any sequence of
\* replacements, evictions and saturating operations it is their exact sum, and
\* it never exceeds max_weighted_certificate_bytes.
BytesAccounted ==
  /\ retained = FoldFunction(LAMBDA e, sum : e.weight + sum, 0, entries)
  /\ retained <= MaxWeight

\* The resident items and those an unfinished insert has already removed, in
\* the order of their timestamps: the cache LruCache speaks of.
Resident == DOMAIN entries \cup (IF op = NoOp THEN {} ELSE DOMAIN op.removed)
Held(k) == IF k \in DOMAIN entries THEN entries[k] ELSE op.removed[k]
Items == [k \in Resident |-> [value |-> Held(k).value, weight |-> Held(k).weight]]
Older == {p \in Resident \X Resident : Held(p[1]).last_used < Held(p[2]).last_used}

Lru == INSTANCE LruCache WITH items <- Items, older <- Older

\* Timestamps, renumbering, byte counter and eviction loop together implement
\* the least-recently-used cache: an insert takes effect in its last step, drops
\* only the least recent items and no more of them than needed, and renumbering
\* at u64::MAX is invisible.
ImplementsLru == Lru!Spec
=============================================================================
