------------------------------ MODULE LruCache ------------------------------
(***************************************************************************)
(* What the process memo of the package verifier promises: a least-        *)
(* recently-used cache.  The state is the resident items and which of two  *)
(* was used less recently.  There are no timestamps and no byte counter in *)
(* it, so neither can wrap or drift here.  ProcessMemo is shown to         *)
(* implement this module.                                                  *)
(***************************************************************************)
EXTENDS Integers, FiniteSets, Functions

CONSTANTS Keys, Values, Weights, MaxEntries, MaxWeight

VARIABLES
  items,   \* the value and the weight of each resident key
  older    \* the pairs of keys of which the first was used less recently

\* The keys of S leave room for one more item of weight w.
HasRoom(S, w) ==
  /\ Cardinality(S) < MaxEntries
  /\ FoldFunction(LAMBDA item, sum : item.weight + sum, 0, Restrict(items, S)) + w <= MaxWeight

\* With a resident key other than k, S holds all that were used more recently.
MostRecent(S, k) ==
  /\ S \subseteq DOMAIN items \ {k}
  /\ \A i \in S, j \in DOMAIN items \ {k} : <<i, j>> \in older => j \in S

\* Of the items, the keys of S remain, and k becomes the most recent one.
Refresh(S, k, item) ==
  /\ items' = [j \in S \cup {k} |-> IF j = k THEN item ELSE items[j]]
  /\ older' = (older \cap (S \X S)) \cup (S \X {k})

-----------------------------------------------------------------------------
Init == items = [k \in {} |-> {}] /\ older = {}

\* A hit makes the item the most recent one.
Hit(k) ==
  /\ k \in DOMAIN items
  /\ Refresh(DOMAIN items \ {k}, k, items[k])

\* An item that fits on its own replaces its predecessor, and drops only
\* the least recent items, and no more of them than it has to.
Put(k, v, w) ==
  /\ w <= MaxWeight
  /\ \E kept \in SUBSET DOMAIN items :
       /\ MostRecent(kept, k) /\ HasRoom(kept, w)
       /\ \A more \in SUBSET DOMAIN items :
            MostRecent(more, k) /\ HasRoom(more, w) => more \subseteq kept
       /\ Refresh(kept, k, [value |-> v, weight |-> w])

Clear == items' = [k \in {} |-> {}] /\ older' = {}

Next ==
  \/ \E k \in Keys : Hit(k)
  \/ \E k \in Keys, v \in Values, w \in Weights : Put(k, v, w)
  \/ Clear

Spec == Init /\ [][Next]_<<items, older>>
=============================================================================
