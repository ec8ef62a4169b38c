---------------------------- MODULE UniverseLevels ----------------------------
(***************************************************************************)
(* Universe contexts (npa-kernel/src/level.rs): a declaration states        *)
(* constraints over its universe parameters, UniverseContext::new turns     *)
(* them into the edges of a closure, the declaration's own obligations are  *)
(* decided from that closure, and a later declaration that mentions it must *)
(* discharge the constraints for the levels it passes (env.rs).             *)
(*                                                                          *)
(* A level is <<"Zero">>, <<"Succ", a>>, <<"Max", a, b>>, <<"IMax", a, b>>  *)
(* or <<"Param", p>>; parameters are numbered in their canonical order.     *)
(***************************************************************************)
EXTENDS UniverseClosure, FiniteSets, Sequences

CONSTANTS
    Constraints,    \* constraints a declaration may state
    Arguments,      \* levels a later declaration may pass
    Callers,        \* "bare": it has no constraints of its own; "same": these ones
    Obligations,    \* pairs of levels compared while a declaration is checked
    MaxStored,      \* bound on the constraints of one declaration
    MaxNodes,       \* MAX_UNIVERSE_CONTEXT_NODES
    MaxEdges        \* MAX_UNIVERSE_ATOM_INEQUALITIES

ASSUME BoundAssumption == {MaxStored, MaxNodes, MaxEdges} \subseteq Nat

VARIABLES
    stored,         \* the declaration's constraints, in the order given
    added,          \* how many of them have been decomposed
    pending,        \* edges of the last one not yet in the closure
    edgeCount,      \* the edges counted against the limit
    use             \* how a later declaration mentions this one

vars == <<dist, edges, phase, k, i, stored, added, pending, edgeCount, use>>

ZeroL == <<"Zero">>
Succ(a) == <<"Succ", a>>
Par(p) == <<"Param", p>>
Kind(l) == l[1]

-----------------------------------------------------------------------------
(* Level algebra                                                           *)

Rank(l) == CASE Kind(l) = "Zero" -> 0 [] Kind(l) = "Succ" -> 1 [] Kind(l) = "Max" -> 2
             [] Kind(l) = "IMax" -> 3 [] Kind(l) = "Param" -> 4

RECURSIVE Before(_, _)
Before(a, b) ==
    \/ Rank(a) < Rank(b)
    \/ /\ Rank(a) = Rank(b)
       /\ CASE Kind(a) = "Zero"  -> FALSE
            [] Kind(a) = "Param" -> a[2] < b[2]
            [] Kind(a) = "Succ"  -> Before(a[2], b[2])
            [] OTHER -> Before(a[2], b[2]) \/ (a[2] = b[2] /\ Before(a[3], b[3]))

RECURSIVE StripSucc(_)
StripSucc(l) == IF Kind(l) = "Succ" THEN StripSucc(l[2]) ELSE l

RECURSIVE Height(_)
Height(l) == IF Kind(l) = "Succ" THEN 1 + Height(l[2]) ELSE 0

IsNumeral(l) == StripSucc(l) = ZeroL

(* The larger of two numerals, the other one dropped; otherwise the pair in *)
(* canonical order.                                                         *)
NormalizeMaxPair(a, b) ==
    CASE a = b -> a
      [] a # b /\ a = ZeroL -> b
      [] a # b /\ a # ZeroL /\ b = ZeroL -> a
      [] OTHER -> IF IsNumeral(a) /\ IsNumeral(b) THEN (IF Height(a) < Height(b) THEN b ELSE a)
                  ELSE IF Before(b, a) THEN <<"Max", b, a>> ELSE <<"Max", a, b>>

RECURSIVE Normalize(_)
Normalize(l) ==
    CASE Kind(l) = "Succ" -> Succ(Normalize(l[2]))
      [] Kind(l) = "Max"  -> NormalizeMaxPair(Normalize(l[2]), Normalize(l[3]))
      [] Kind(l) = "IMax" ->
           LET a == Normalize(l[2])
               b == Normalize(l[3])
           IN  CASE Kind(b) = "Zero" -> ZeroL
                 [] Kind(b) = "Succ" -> NormalizeMaxPair(a, b)
                 [] OTHER -> <<"IMax", a, b>>
      [] OTHER -> l

(* The arguments are substituted one parameter after the other, so that a   *)
(* later one rewrites the levels an earlier one put in.                     *)
RECURSIVE SubstituteOne(_, _, _)
SubstituteOne(l, p, a) ==
    CASE Kind(l) = "Param" -> IF l[2] = p THEN a ELSE l
      [] Kind(l) = "Succ"  -> Succ(SubstituteOne(l[2], p, a))
      [] Kind(l) \in {"Max", "IMax"} ->
           Normalize(<<Kind(l), SubstituteOne(l[2], p, a), SubstituteOne(l[3], p, a)>>)
      [] OTHER -> l

RECURSIVE SubstituteFirst(_, _, _)
SubstituteFirst(l, args, n) ==
    IF n = 0 THEN l ELSE SubstituteOne(SubstituteFirst(l, args, n - 1), n, args[n])

MutSubstituteInTurn(l, args) == SubstituteFirst(l, args, Params)

RECURSIVE SubstituteLevel(_, _)
SubstituteLevel(l, args) ==
    CASE Kind(l) = "Param" -> args[l[2]]
      [] Kind(l) = "Succ"  -> Succ(SubstituteLevel(l[2], args))
      [] Kind(l) \in {"Max", "IMax"} ->
           Normalize(<<Kind(l), SubstituteLevel(l[2], args), SubstituteLevel(l[3], args)>>)
      [] OTHER -> l

-----------------------------------------------------------------------------
(* Decomposition into atoms                                                *)

RECURSIVE Leaves(_, _)
Leaves(l, heads) == IF Kind(l) \in heads THEN Leaves(l[2], heads) \cup Leaves(l[3], heads) ELSE {l}

(* An imax is taken apart like a max on the right too. *)
MutRightLeaves(l) == Leaves(l, {"Max", "IMax"})

RightLeaves(l) == Leaves(l, {"Max"})

LeftLeaves(l) == Leaves(l, {"Max", "IMax"})

IsAtom(l) == Kind(StripSucc(l)) \in {"Zero", "Param"}

BaseNode(l) == IF IsNumeral(l) THEN 0 ELSE StripSucc(l)[2]

(* decompose_le_constraint: what is supported, and the edges it gives. *)
SupportedLe(l, r) ==
    l = r \/ ( /\ \A x \in LeftLeaves(l) \cup RightLeaves(r) : IsAtom(x)
               /\ Cardinality(RightLeaves(r)) = 1 )

EdgesOfLe(l, r) ==
    IF l = r THEN {}
    ELSE {[from |-> BaseNode(r), to |-> BaseNode(x), weight |-> Height(r) - Height(x)] :
             x \in LeftLeaves(l)}

Sides(c) ==
    LET l == Normalize(c.lhs)
        r == Normalize(c.rhs)
    IN  IF c.relation = "Le" THEN {<<l, r>>} ELSE {<<l, r>>, <<r, l>>}

-----------------------------------------------------------------------------
(* entails_level_le, with m the closure of the context that is asked.  An   *)
(* unsupported side refuses the obligation, as an unmet one does.           *)

AtomsLe(m, l, r) ==
    LET left == LeftLeaves(l)
        right == RightLeaves(r)
    IN  /\ \A x \in left \cup right : IsAtom(x)
        /\ Cardinality(left) * Cardinality(right) <= MaxEdges
        /\ \A x \in left : \E y \in right :
              Entailed(m, BaseNode(y), BaseNode(x), Height(y) - Height(x))

RECURSIVE EntailsLe(_, _, _)
EntailsLe(m, lhs, rhs) ==
    LET l == Normalize(lhs)
        r == Normalize(rhs)
    IN  \/ l = r
        \/ Kind(l) = "IMax" /\ l[3] = r /\ EntailsLe(m, l[2], Succ(ZeroL))
        \/ AtomsLe(m, l, r)

Entails(m, c) == \A s \in Sides(c) : EntailsLe(m, s[1], s[2])

-----------------------------------------------------------------------------
NoUse == [status |-> "none", caller |-> "none", args |-> <<>>]

Init ==
    /\ ClosureInit
    /\ stored \in UNION {[1 .. n -> Constraints] : n \in 0 .. MaxStored}
    /\ added = 0
    /\ pending = {}
    /\ edgeCount = Params
    /\ use = NoUse

(* ensure_universe_constraints_wf: canonical levels, strictly increasing. *)
RelationRank(rel) == IF rel = "Le" THEN 0 ELSE 1

ConstraintBefore(c, d) ==
    \/ Before(c.lhs, d.lhs)
    \/ /\ c.lhs = d.lhs
       /\ \/ RelationRank(c.relation) < RelationRank(d.relation)
          \/ c.relation = d.relation /\ Before(c.rhs, d.rhs)

WellFormed(cs) ==
    /\ \A n \in DOMAIN cs : Normalize(cs[n].lhs) = cs[n].lhs /\ Normalize(cs[n].rhs) = cs[n].rhs
    /\ \A n \in 1 .. Len(cs) - 1 : ConstraintBefore(cs[n], cs[n + 1])

Refuse(why) ==
    /\ phase' = why
    /\ UNCHANGED <<dist, edges, k, i, stored, added, pending, edgeCount, use>>

RefuseMalformed ==
    /\ phase = "build" /\ added = 0 /\ stored # <<>>
    /\ ~WellFormed(stored)
    /\ Refuse("malformed")

(* from_params: nothing to add and nothing to close. *)
AcceptUnconstrained ==
    /\ phase = "build" /\ stored = <<>>
    /\ phase' = IF Params + 1 > MaxNodes \/ Params > MaxEdges THEN "limit" ELSE "accepted"
    /\ UNCHANGED <<dist, edges, k, i, stored, added, pending, edgeCount, use>>

Supported(c) == \A s \in Sides(c) : SupportedLe(s[1], s[2])

(* A constraint is decomposed as a whole before any of its edges is added.   *)
Decompose ==
    /\ phase = "build" /\ added < Len(stored) /\ pending = {}
    /\ WellFormed(stored)
    /\ LET c == stored[added + 1]
           new == UNION {EdgesOfLe(s[1], s[2]) : s \in Sides(c)}
       IN  IF Params + 1 > MaxNodes THEN Refuse("limit")
           ELSE IF ~Supported(c) THEN Refuse("unsupported")
           ELSE IF edgeCount + Cardinality(new) > MaxEdges THEN Refuse("limit")
           ELSE /\ added' = added + 1
                /\ pending' = new
                /\ edgeCount' = edgeCount + Cardinality(new)
                /\ UNCHANGED <<closureVars, stored, use>>

AddPending ==
    \E e \in pending :
        /\ AddEdge(e)
        /\ pending' = pending \ {e}
        /\ UNCHANGED <<stored, added, edgeCount, use>>

Close ==
    /\ \/ BeginClose /\ stored # <<>> /\ added = Len(stored) /\ pending = {}
       \/ CloseRow
       \/ Decide
    /\ UNCHANGED <<stored, added, pending, edgeCount, use>>

CallerClosure(caller) == IF caller = "same" THEN dist ELSE WithLowerBounds

SubstituteConstraint(c, args) ==
    [lhs |-> SubstituteLevel(c.lhs, args), relation |-> c.relation,
     rhs |-> SubstituteLevel(c.rhs, args)]

Discharged(caller, args) ==
    \A n \in DOMAIN stored :
        Entails(CallerClosure(caller), SubstituteConstraint(stored[n], args))

Mention(caller, args) ==
    /\ phase = "accepted" /\ use.status = "none"
    /\ use' = [status |-> IF Discharged(caller, args) THEN "admitted" ELSE "refused",
               caller |-> caller, args |-> args]
    /\ UNCHANGED <<closureVars, stored, added, pending, edgeCount>>

Next ==
    \/ RefuseMalformed \/ AcceptUnconstrained \/ Decompose \/ AddPending \/ Close
    \/ \E caller \in Callers, args \in [1 .. Params -> Arguments] : Mention(caller, args)

Spec == Init /\ [][Next]_vars

-----------------------------------------------------------------------------
(* What levels mean: imax is zero when its right side is, and max otherwise. *)
RECURSIVE Value(_, _)
Value(l, v) ==
    CASE Kind(l) = "Zero"  -> 0
      [] Kind(l) = "Param" -> v[l[2]]
      [] Kind(l) = "Succ"  -> 1 + Value(l[2], v)
      [] OTHER -> LET a == Value(l[2], v)
                      b == Value(l[3], v)
                  IN  IF Kind(l) = "IMax" /\ b = 0 THEN 0 ELSE IF a < b THEN b ELSE a

Le(l, r, v) == Value(l, v) <= Value(r, v)

Satisfying ==
    {v \in Valuations : \A n \in DOMAIN stored :
        /\ Le(stored[n].lhs, stored[n].rhs, v)
        /\ stored[n].relation = "Eq" => Le(stored[n].rhs, stored[n].lhs, v)}

(* The context is decided and not mentioned yet: a mention changes none of it. *)
Decided == phase \in {"accepted", "unsatisfiable"} /\ use.status = "none"

Atoms == {o[1] : o \in {o \in Obligations : IsAtom(o[1])}}

(* What an accepted context entails, obligations with max on the right and   *)
(* imax on the left included, holds in every assignment of levels that       *)
(* satisfies the declaration's constraints (entails_level_le).               *)
EntailmentSound ==
    Decided /\ phase = "accepted" =>
        LET sat == Satisfying
        IN  \A o \in Obligations : EntailsLe(dist, o[1], o[2]) => \A v \in sat : Le(o[1], o[2], v)

(* The context decides exactly: constraints are refused as unsatisfiable iff *)
(* no assignment satisfies them, and one atom is accepted as bounded by      *)
(* another iff it is in every assignment that does (UniverseContext::new).   *)
AtomsDecided ==
    Decided =>
        /\ phase = "accepted" <=> Satisfying # {}
        /\ phase = "accepted" => \A a, b \in Atoms :
              EntailsLe(dist, a, b) <=> \A v \in Satisfying : Le(a, b, v)

(* Whenever a later declaration is allowed to mention this one, what was     *)
(* accepted while this one was checked is true of the levels it passes       *)
(* (substitute_constraints and entails, as env.rs composes them).            *)
InstanceSound ==
    use.status = "admitted" =>
        LET sat == IF use.caller = "same" THEN Satisfying ELSE Valuations
        IN  \A a, b \in Atoms : EntailsLe(dist, a, b) => \A w \in sat :
                Le(a, b, [n \in 1 .. Params |-> Value(use.args[n], w)])
=============================================================================
