----------------------- MODULE TargetedAuthoring_proofs -----------------------
(***************************************************************************)
(* Proofs about TargetedAuthoring, for every package of any size, all      *)
(* targets and profiles, any limit on retained contexts and whatever the   *)
(* support store answers.                                                  *)
(***************************************************************************)
EXTENDS TargetedAuthoring, FiniteSetTheorems, WellFoundedInduction, TLAPS

\* The steps are mostly first-order reasoning.
USE Zenon

-----------------------------------------------------------------------------
(* Counting modules. *)

LEMMA ModulesAreNumbers ==
  /\ IsFiniteSet(Modules) /\ Modules \subseteq Nat /\ NoModule \notin Modules
  /\ \A m \in Modules : \A d \in 1 .. (m - 1) : d \in Modules /\ d < m
<1>1. N \in Nat
  BY BoundAssumption
<1>2. IsFiniteSet(1 .. N)
  BY SMT, <1>1, FS_Interval
<1> QED BY SMT, <1>1, <1>2 DEF Modules, NoModule

\* A set of modules has a least element.
LEMMA LeastModule ==
  ASSUME NEW S \in SUBSET Modules, S # {}
  PROVE  \E x \in S : \A y \in S : x <= y
<1>1. PICK R : /\ IsWellFoundedOn(R, Nat)
               /\ \A x, y \in Nat : <<y, x>> \in R <=> y < x
  <2>1. IsWellFoundedOn(OpToRel(<, Nat), Nat)
    BY NatLessThanWellFounded
  <2>2. \A x, y \in Nat : <<y, x>> \in OpToRel(<, Nat) <=> y < x
    BY SMT DEF OpToRel
  <2> WITNESS OpToRel(<, Nat)
  <2> QED BY <2>1, <2>2
<1>2. S \subseteq Nat
  BY ModulesAreNumbers
<1>3. PICK x \in S : \A y \in S : ~ (<<y, x>> \in R)
  BY <1>1, <1>2, WFMin
<1>4. ASSUME NEW y \in S PROVE x <= y
  <2>1. x \in Nat /\ y \in Nat /\ ~ (y < x)
    BY <1>1, <1>2, <1>3
  <2> QED BY SMT, <2>1
<1> QED BY <1>4

LEMMA MinIsLeast ==
  ASSUME NEW S \in SUBSET Modules, S # {}
  PROVE  Min(S) \in S /\ \A y \in S : Min(S) <= y
BY LeastModule DEF Min

LEMMA CountOf ==
  ASSUME NEW S \in SUBSET Modules
  PROVE  /\ IsFiniteSet(S) /\ Cardinality(S) \in Nat
         /\ Cardinality(S) = 0 <=> S = {}
BY ModulesAreNumbers, FS_Subset, FS_CardinalityType, FS_EmptySet

LEMMA CountOfPart ==
  ASSUME NEW S \in SUBSET Modules, NEW T \in SUBSET S
  PROVE  Cardinality(T) <= Cardinality(S)
BY CountOf, FS_Subset

LEMMA CountWithout ==
  ASSUME NEW S \in SUBSET Modules, NEW T
  PROVE  Cardinality(S) = Cardinality(S \ T) + Cardinality(S \cap T)
<1>1. /\ IsFiniteSet(S \ T) /\ IsFiniteSet(S \cap T)
      /\ Cardinality(S \ T) \in Nat /\ Cardinality(S \cap T) \in Nat
  BY CountOf
<1>2. (S \ T) \cup (S \cap T) = S /\ (S \ T) \cap (S \cap T) = {}
  OBVIOUS
<1>3. Cardinality(S) = Cardinality(S \ T) + Cardinality(S \cap T)
                         - Cardinality((S \ T) \cap (S \cap T))
  BY <1>1, <1>2, FS_Union
<1>4. Cardinality((S \ T) \cap (S \cap T)) = 0
  BY <1>2, FS_EmptySet
<1> QED BY SMT, <1>1, <1>3, <1>4

LEMMA CountOfOneMore ==
  ASSUME NEW S \in SUBSET Modules, NEW x \in Modules, x \notin S
  PROVE  Cardinality(S \cup {x}) = Cardinality(S) + 1
BY CountOf, FS_AddElement

-----------------------------------------------------------------------------
(* The dependency closure. *)

IsClosure(deps, closure) ==
  closure = [m \in Modules |-> deps[m] \cup UNION {closure[d] : d \in deps[m]}]

\* S holds what m depends on, and what that depends on.
HoldsDeps(deps, m, S) == deps[m] \subseteq S /\ \A x \in S : deps[x] \subseteq S

\* The recursive definition of the closure has a solution: the least such sets.
LEMMA ClosureExists ==
  ASSUME NEW deps \in Graphs
  PROVE  IsClosure(deps, Closures(deps))
<1> DEFINE reach == [m \in Modules |->
                       {d \in Modules : \A S \in SUBSET Modules : HoldsDeps(deps, m, S) => d \in S}]
<1>1. deps \in [Modules -> SUBSET Modules]
  BY DEF Graphs
<1>a. \A m \in Modules : \A x : x \in reach[m] <=>
        x \in Modules /\ \A S \in SUBSET Modules : HoldsDeps(deps, m, S) => x \in S
  OBVIOUS
<1>b. reach = [m \in Modules |-> reach[m]]
  OBVIOUS
<1> HIDE DEF reach
<1>2. ASSUME NEW m \in Modules
      PROVE  reach[m] = deps[m] \cup UNION {reach[d] : d \in deps[m]}
  <2>0. \A x : x \in UNION {reach[d] : d \in deps[m]} <=> \E d \in deps[m] : x \in reach[d]
    BY SMT
  <2>1. deps[m] \subseteq Modules /\ deps[m] \subseteq reach[m]
    BY <1>1, <1>a DEF HoldsDeps
  <2>2. ASSUME NEW d \in deps[m], NEW x \in reach[d] PROVE x \in reach[m]
    <3> SUFFICES ASSUME NEW S \in SUBSET Modules, HoldsDeps(deps, m, S) PROVE x \in S
      BY <1>a, <2>1
    <3>1. HoldsDeps(deps, d, S)
      BY DEF HoldsDeps
    <3> QED BY <1>a, <2>1, <3>1
  <2>3. ASSUME NEW x \in reach[m] PROVE x \in deps[m] \cup UNION {reach[d] : d \in deps[m]}
    <3> DEFINE S == deps[m] \cup UNION {reach[d] : d \in deps[m]}
    <3>0. \A y : y \in S <=> y \in deps[m] \/ \E d \in deps[m] : y \in reach[d]
      BY <2>0
    <3> HIDE DEF S
    <3>1. S \in SUBSET Modules
      BY <1>a, <2>1, <3>0
    <3>2. ASSUME NEW y \in deps[m] PROVE deps[y] \subseteq S
      <4>1. y \in Modules /\ deps[y] \subseteq Modules
        BY <1>1, <2>1
      <4>2. deps[y] \subseteq reach[y]
        BY <1>a, <4>1 DEF HoldsDeps
      <4> QED BY <3>0, <4>2
    <3>3. ASSUME NEW d \in deps[m], NEW y \in reach[d] PROVE deps[y] \subseteq S
      <4>1. ASSUME NEW z \in deps[y] PROVE z \in reach[d]
        <5>1. y \in Modules /\ d \in Modules /\ z \in Modules
          BY <1>1, <1>a, <2>1
        <5> SUFFICES ASSUME NEW U \in SUBSET Modules, HoldsDeps(deps, d, U) PROVE z \in U
          BY <1>a, <5>1
        <5>2. y \in U
          BY <1>a, <5>1
        <5> QED BY <5>1, <5>2 DEF HoldsDeps
      <4> QED BY <3>0, <4>1
    <3>4. HoldsDeps(deps, m, S)
      BY <3>0, <3>2, <3>3 DEF HoldsDeps
    <3>5. x \in S
      BY <1>a, <3>1, <3>4
    <3> QED BY <3>5 DEF S
  <2>4. \A x : x \in reach[m] <=> x \in deps[m] \cup UNION {reach[d] : d \in deps[m]}
    BY <2>0, <2>1, <2>2, <2>3
  <2> QED BY <2>4
<1>3. IsClosure(deps, reach)
  BY <1>2, <1>b DEF IsClosure
<1>4. Closures(deps) = CHOOSE closure : IsClosure(deps, closure)
  BY DEF Closures, IsClosure
<1> QED BY <1>3, <1>4

\* A closure holds earlier modules only, is transitive, and every member is
\* imported by some module.
LEMMA ClosureShape ==
  ASSUME NEW deps \in Graphs, NEW closure, IsClosure(deps, closure)
  PROVE  /\ \A m \in Modules : \A x : x \in closure[m] <=>
              x \in deps[m] \/ \E d \in deps[m] : x \in closure[d]
         /\ \A m \in Modules : \A d \in closure[m] :
              /\ d \in Modules /\ d < m
              /\ closure[d] \subseteq closure[m]
              /\ \E c \in Modules : d \in deps[c]
<1> DEFINE Good(k) == \A d \in closure[k] : /\ d \in Modules /\ d < k
                                            /\ closure[d] \subseteq closure[k]
                                            /\ \E c \in Modules : d \in deps[c]
<1>1. \A k \in Modules : closure[k] = deps[k] \cup UNION {closure[d] : d \in deps[k]}
  BY DEF IsClosure
<1>a. \A k \in Modules : \A x : x \in closure[k] <=>
        x \in deps[k] \/ \E d \in deps[k] : x \in closure[d]
  BY SMT, <1>1
<1>2. \A k \in Modules : \A d \in deps[k] : d \in Modules /\ d < k
  BY ModulesAreNumbers DEF Graphs
<1>3. ASSUME NEW k \in Modules, \A j \in Modules : j < k => Good(j) PROVE Good(k)
  <2> SUFFICES ASSUME NEW x \in closure[k]
               PROVE  /\ x \in Modules /\ x < k /\ closure[x] \subseteq closure[k]
                      /\ \E c \in Modules : x \in deps[c]
    OBVIOUS
  <2>1. CASE x \in deps[k]
    BY <1>a, <1>2, <2>1
  <2>2. ASSUME NEW d \in deps[k], x \in closure[d]
        PROVE  /\ x \in Modules /\ x < k /\ closure[x] \subseteq closure[k]
               /\ \E c \in Modules : x \in deps[c]
    <3>1. d \in Modules /\ d < k /\ closure[d] \subseteq closure[k]
      BY <1>a, <1>2
    <3>2. Good(d)
      BY <1>3, <3>1
    <3>3. x \in Modules /\ x < d /\ closure[x] \subseteq closure[d]
          /\ \E c \in Modules : x \in deps[c]
      BY <2>2, <3>2
    <3>4. x < k
      BY SMT, <3>1, <3>3, ModulesAreNumbers
    <3> QED BY <3>1, <3>3, <3>4
  <2> QED BY <1>a, <2>1, <2>2
<1>4. \A k \in Modules : Good(k)
  <2> DEFINE Bad == {k \in Modules : ~ Good(k)}
  <2> SUFFICES ASSUME Bad # {} PROVE FALSE
    OBVIOUS
  <2> HIDE DEF Good
  <2>1. PICK k \in Bad : \A j \in Bad : k <= j
    BY LeastModule
  <2>2. ASSUME NEW j \in Modules, j < k PROVE Good(j)
    <3>1. j \in Nat /\ k \in Nat
      BY ModulesAreNumbers
    <3>2. ~ (k <= j)
      BY SMT, <2>2, <3>1
    <3> QED BY <2>1, <3>2
  <2> QED BY <1>3, <2>2
<1> QED BY <1>a, <1>4

-----------------------------------------------------------------------------
(* The inductive invariant. *)

Selected == plan.targets \cup plan.support

GraphOK ==
  /\ plan.deps \in [Modules -> SUBSET Modules]
  /\ plan.closure \in [Modules -> SUBSET Modules]
  /\ \A m \in Modules : plan.deps[m] \subseteq plan.closure[m]
  /\ \A m \in Modules : \A x \in plan.closure[m] :
       x \in plan.deps[m] \/ \E d \in plan.deps[m] : x \in plan.closure[d]
  /\ \A m \in Modules : \A d \in plan.closure[m] :
       d < m /\ plan.closure[d] \subseteq plan.closure[m]

\* What is forced live takes what it depends on with it, so that no hit is
\* needed by forced targets only; support after a target is forced.
SelectionOK ==
  /\ plan.targets \subseteq Modules /\ plan.support \subseteq Modules
  /\ plan.targets \cap plan.support = {}
  /\ \A m \in Selected : plan.closure[m] \subseteq Selected
  /\ \A m \in plan.support : \E t \in plan.targets : m \in plan.closure[t]
  /\ \A m \in plan.support : \E c \in Modules : m \in plan.deps[c]
  /\ plan.pre = {m \in plan.support : \A t \in plan.targets : m < t}
  /\ \A m \in plan.forced : m \in Selected /\ plan.closure[m] \subseteq plan.forced
  /\ plan.support \ plan.pre \subseteq plan.forced
  /\ plan.eligible = plan.support \ plan.forced
  /\ plan.uses = [d \in Modules |-> Cardinality({c \in Selected : d \in plan.closure[c]})]

\* The modules that are built from ordinary imports, and can be imported so.
Ordinary == live \cup (consumed \cap plan.targets \cap plan.forced)

\* Each module the driver has reached is processed, a pending hit, promoted and
\* not yet built, or the target at hand.  Processed modules depend on processed
\* ones.  A pending hit is given up together with all that needs it live.
Books ==
  /\ todo \subseteq Selected
  /\ \A m \in Selected \ todo, t \in todo : m < t
  /\ current \in plan.targets \cup {NoModule}
  /\ Selected \ todo = consumed \cup pending \cup promoted \cup ({current} \ {NoModule})
  /\ consumed \cap pending = {} /\ consumed \cap promoted = {} /\ pending \cap promoted = {}
  /\ current \notin consumed
  /\ pending \subseteq plan.pre \cap plan.eligible
  /\ promoted \subseteq plan.pre /\ snapshots = promoted
  /\ live \subseteq consumed \cap plan.support
  /\ promoted # {} => current = NoModule
  /\ \A c \in consumed : plan.closure[c] \subseteq consumed
  /\ \A p \in pending : plan.closure[p] \subseteq live \cup pending \cup promoted
  /\ \A p \in promoted : plan.closure[p] \subseteq live \cup promoted
  /\ ~ adopted => consumed \cap plan.support \subseteq live
  /\ adopted => pending = {} /\ promoted = {} /\ todo \cap plan.pre = {}
  /\ plan.forced \ todo \subseteq Ordinary \cup promoted \cup {current}
  /\ \A t \in plan.targets \ todo : t \in plan.forced \/ adopted
  /\ plan.forced \subseteq forceLive

\* Of the selected modules, those that depend on d and are not in done.
Consumers(done, d) == {c \in Selected \ done : d \in plan.closure[c]}

\* The ledger counts the consumers still to come.
UsesOK(u, done) ==
  u = [d \in Modules |-> IF d \in done THEN Cardinality(Consumers(done, d)) ELSE 0]

\* What is retained is what has consumers still to come.
ContextsOK(ctx, done) ==
  /\ ctx = [m \in Modules |-> ctx[m]]
  /\ \A m \in Modules : ctx[m] # "none" <=> m \in done /\ Consumers(done, m) # {}
VerifiedOK(ver, done, ord) == ver = {m \in ord : Consumers(done, m) # {}}
AvailOK(av, ver, ord) ==
  av = [m \in Modules |->
          IF m \in ver THEN Cardinality({c \in Modules \ ord : m \in plan.deps[c]}) ELSE 0]

Ledger ==
  /\ UsesOK(uses, consumed) /\ ContextsOK(contexts, consumed)
  /\ VerifiedOK(verified, consumed, Ordinary) /\ AvailOK(avail, verified, Ordinary)

Fields == {"visitedSupport", "visitedTargets", "forcedTargets", "completedSupport",
           "completedTargets", "liveChecks", "hits", "bypassed", "misses", "classified",
           "ineligible", "written"}

\* The counters count what the books hold.  A hit is counted once it is adopted.
Counts ==
  /\ count.visitedSupport = Cardinality(plan.support \ todo)
  /\ count.visitedTargets = Cardinality(plan.targets \ todo)
  /\ count.forcedTargets = Cardinality((plan.targets \cap plan.forced) \ todo)
  /\ count.completedTargets = Cardinality(plan.targets \cap consumed)
  /\ count.completedSupport = Cardinality(plan.support \cap consumed)
  /\ count.completedSupport = count.liveChecks + count.hits
  /\ count.hits + count.bypassed + count.misses + count.ineligible + Cardinality(pending)
       = count.visitedSupport
  /\ count.classified <= count.misses
  /\ count.written <= count.liveChecks

IInv ==
  /\ GraphOK /\ SelectionOK
  /\ count \in [Fields -> Nat]
  /\ result \in {"running", "stopped", "completed"}
  /\ result # "stopped" => Books /\ Ledger /\ Counts
  /\ result = "completed" => todo = {} /\ promoted = {} /\ current = NoModule
  /\ result = "stopped" => SummaryConsistent

-----------------------------------------------------------------------------
(* The plan. *)

LEMMA PlanIsSound ==
  ASSUME NEW deps \in Graphs, NEW closure, IsClosure(deps, closure),
         NEW targets \in SUBSET Modules, NEW profile,
         plan = Plan(deps, closure, targets, profile)
  PROVE  /\ GraphOK /\ SelectionOK
         /\ Selected = WithClosure(targets, closure)
<1> DEFINE selected == WithClosure(targets, closure)
           support == selected \ targets
           post == {m \in support : \E t \in targets : t < m}
           forced == ForcedLive(post, targets, profile, deps, closure)
<1>1. /\ plan.deps = deps /\ plan.closure = closure /\ plan.targets = targets
      /\ plan.support = support /\ plan.pre = support \ post /\ plan.forced = forced
      /\ plan.eligible = support \ (post \cup forced)
      /\ plan.uses = PlannedUses(selected, deps, closure)
  BY DEF Plan
<1>2. \A ms : \A x : x \in WithClosure(ms, closure) <=> x \in ms \/ \E m \in ms : x \in closure[m]
  BY SMT DEF WithClosure
<1>3. /\ \A m \in Modules : \A x : x \in closure[m] <=>
           x \in deps[m] \/ \E d \in deps[m] : x \in closure[d]
      /\ \A m \in Modules : \A d \in closure[m] :
           /\ d \in Modules /\ d < m
           /\ closure[d] \subseteq closure[m]
           /\ \E c \in Modules : d \in deps[c]
  BY ClosureShape
<1>4. deps \in [Modules -> SUBSET Modules]
  BY DEF Graphs
<1>5. closure = [m \in Modules |-> closure[m]]
  BY DEF IsClosure
<1>6. closure \in [Modules -> SUBSET Modules]
  BY <1>3, <1>5
<1>7. GraphOK
  BY <1>1, <1>3, <1>4, <1>6 DEF GraphOK
<1>8. Selected = selected /\ selected \subseteq Modules /\ targets \subseteq selected
  BY <1>1, <1>2, <1>3 DEF Selected
<1>9. ASSUME NEW ms, ms \subseteq Modules, NEW m, m \in WithClosure(ms, closure)
      PROVE  closure[m] \subseteq WithClosure(ms, closure)
  <2>1. CASE m \in ms
    BY <1>2, <2>1
  <2>2. ASSUME NEW c \in ms, m \in closure[c]
        PROVE  closure[m] \subseteq WithClosure(ms, closure)
    BY <1>2, <1>3, <1>9, <2>2
  <2> QED BY <1>2, <1>9, <2>1, <2>2
<1>10. \A m \in support : \E t \in targets : m \in closure[t]
  BY <1>2
<1>11. plan.pre = {m \in support : \A t \in targets : m < t}
  <2> SUFFICES ASSUME NEW m \in support
               PROVE  ~ (\E t \in targets : t < m) <=> \A t \in targets : m < t
    BY <1>1
  <2> SUFFICES ASSUME NEW t \in targets PROVE ~ (t < m) <=> m < t
    OBVIOUS
  <2>1. m \in Nat /\ t \in Nat /\ m # t
    BY <1>8, ModulesAreNumbers
  <2> QED BY SMT, <2>1
<1>12. post \subseteq forced
  BY <1>2 DEF ForcedLive
<1>13. ASSUME NEW m \in forced PROVE m \in selected /\ closure[m] \subseteq forced
  <2> DEFINE core == {t \in targets : profile[t] = "core"}
             imported == UNION {deps[t] : t \in core}
             unsupported == {x \in selected : profile[x] = "unsupported"}
  <2>1. forced = WithClosure(post, closure) \cup core \cup WithClosure(imported, closure)
                   \cup WithClosure(unsupported, closure)
    BY DEF ForcedLive
  <2>2. imported \subseteq selected /\ \A t \in core : deps[t] \subseteq imported
    <3>1. \A x : x \in imported <=> \E t \in core : x \in deps[t]
      BY SMT
    <3> QED BY <1>2, <1>3, <3>1
  <2>3. ASSUME NEW ms, ms \subseteq selected, m \in WithClosure(ms, closure)
        PROVE  m \in selected /\ closure[m] \subseteq WithClosure(ms, closure)
    <3>1. m \in selected
      <4>1. CASE m \in ms
        BY <2>3, <4>1
      <4>2. ASSUME NEW c \in ms, m \in closure[c] PROVE m \in selected
        BY <1>8, <1>9, <2>3, <4>2
      <4> QED BY <1>2, <2>3, <4>1, <4>2
    <3> QED BY <1>8, <1>9, <2>3, <3>1
  <2>4. CASE m \in core
    <3>1. m \in Modules
      BY <2>4
    <3>2. closure[m] \subseteq WithClosure(imported, closure)
      BY <1>2, <1>3, <2>2, <2>4, <3>1
    <3> QED BY <1>8, <2>1, <2>4, <3>2
  <2>5. post \subseteq selected /\ unsupported \subseteq selected
    OBVIOUS
  <2> QED BY <2>1, <2>2, <2>3, <2>4, <2>5
<1>14. support \ plan.pre \subseteq forced /\ plan.eligible = support \ forced
  BY <1>1, <1>12
<1>15. ASSUME NEW m \in support PROVE \E c \in Modules : m \in deps[c]
  <2>1. PICK t \in targets : m \in closure[t]
    BY <1>10
  <2> QED BY <1>3, <2>1
<1>16. plan.uses = [d \in Modules |-> Cardinality({c \in Selected : d \in plan.closure[c]})]
  <2>1. plan.uses = [d \in Modules |-> Cardinality({c \in selected : d \in closure[c]})]
    BY <1>1 DEF PlannedUses
  <2>2. \A d \in Modules :
          {c \in selected : d \in closure[c]} = {c \in Selected : d \in plan.closure[c]}
    BY <1>1, <1>8
  <2> QED BY <2>1, <2>2
<1>19. \A m \in selected : closure[m] \subseteq selected
  BY <1>9
<1> HIDE DEF selected, support, forced, post
<1>17. support \subseteq Modules /\ targets \cap support = {}
  BY <1>8 DEF support
<1>18. SelectionOK
  BY <1>1, <1>8, <1>10, <1>11, <1>13, <1>14, <1>15, <1>16, <1>17, <1>19 DEF SelectionOK
<1> QED BY <1>7, <1>8, <1>18 DEF selected

-----------------------------------------------------------------------------
(* The ledger and the maps when the modules of S are processed. *)

\* The ledger is right, and S can be processed at once.
Consumable(S) ==
  /\ consumed \subseteq Selected
  /\ \A c \in consumed : plan.closure[c] \subseteq consumed
  /\ UsesOK(uses, consumed)
  /\ S \subseteq Selected \ consumed
  /\ \A c \in S : plan.closure[c] \subseteq consumed \cup S

LEMMA LedgerAgrees ==
  ASSUME GraphOK, SelectionOK, NEW S, Consumable(S)
  PROVE  /\ LedgerAccepts(S, S)
         /\ UsesOK(LedgerAfter(S, S), consumed \cup S)
         /\ \A d \in Modules : d \in Released(S, S) <=>
              Consumers(consumed \cup S, d) = {} /\ \E c \in S : d \in plan.closure[c]
<1> DEFINE held(d) == IF d \in S THEN plan.uses[d] ELSE uses[d]
           part(d) == {c \in S : d \in plan.closure[c]}
           before(d) == Consumers(consumed, d)
           after(d) == Consumers(consumed \cup S, d)
<1>1. S \subseteq Selected /\ S \cap consumed = {} /\ S \subseteq Modules /\ Selected \subseteq Modules
  BY DEF Consumable, SelectionOK, Selected
<1>2. ASSUME NEW d \in Modules
      PROVE  /\ before(d) \subseteq Modules /\ after(d) \subseteq Modules /\ part(d) \subseteq Modules
             /\ before(d) \ S = after(d) /\ before(d) \cap S = part(d)
             /\ part(d) # {} => d \in consumed \cup S
             /\ d \in S => {c \in Selected : d \in plan.closure[c]} = before(d)
  BY <1>1 DEF Consumable, Consumers
<1>3. ASSUME NEW d \in Modules
      PROVE  /\ held(d) = IF d \in consumed \cup S THEN Cardinality(before(d)) ELSE 0
             /\ d \in S => uses[d] = 0
  <2>1. d \in S => plan.uses[d] = Cardinality({c \in Selected : d \in plan.closure[c]})
    BY DEF SelectionOK
  <2>2. uses[d] = IF d \in consumed THEN Cardinality(before(d)) ELSE 0
    BY DEF Consumable, UsesOK
  <2>3. d \in S => held(d) = Cardinality(before(d)) /\ uses[d] = 0
    BY <1>1, <1>2, <2>1, <2>2
  <2> HIDE DEF before
  <2> QED BY <2>2, <2>3
<1>4. ASSUME NEW d \in Modules
      PROVE  /\ Cardinality(before(d)) = Cardinality(after(d)) + Cardinality(part(d))
             /\ Cardinality(after(d)) \in Nat /\ Cardinality(part(d)) \in Nat
             /\ Cardinality(after(d)) = 0 <=> after(d) = {}
             /\ Cardinality(part(d)) = 0 <=> part(d) = {}
             /\ Closing(S, d) = Cardinality(part(d))
  <2>1. Cardinality(before(d)) = Cardinality(before(d) \ S) + Cardinality(before(d) \cap S)
    BY <1>2, CountWithout
  <2>2. Closing(S, d) = Cardinality(part(d))
    BY DEF Closing
  <2> HIDE DEF before, after, part
  <2> QED BY <1>2, <2>1, <2>2, CountOf
<1> HIDE DEF held, part, before, after
<1>5. ASSUME NEW d \in Modules
      PROVE  /\ Closing(S, d) <= held(d)
             /\ held(d) - Closing(S, d) = IF d \in consumed \cup S THEN Cardinality(after(d)) ELSE 0
             /\ Closing(S, d) > 0 <=> part(d) # {}
             /\ Closing(S, d) > 0 => (held(d) - Closing(S, d) = 0 <=> after(d) = {})
  BY SMT, <1>2, <1>3, <1>4
<1>6. LedgerAccepts(S, S)
  BY <1>1, <1>3, <1>5 DEF LedgerAccepts, held
<1>7. LedgerAfter(S, S) = [d \in Modules |-> held(d) - Closing(S, d)]
  BY DEF LedgerAfter, held
<1>8. UsesOK(LedgerAfter(S, S), consumed \cup S)
  BY <1>5, <1>7 DEF UsesOK, after
<1>9. ASSUME NEW d \in Modules PROVE d \in Released(S, S) <=> after(d) = {} /\ part(d) # {}
  BY <1>5, <1>7 DEF Released
<1> QED BY <1>6, <1>8, <1>9 DEF after, part

\* What is kept of S has consumers, and they are still to come.
Kept(S, kept) == kept \subseteq S /\ \A s \in S : s \in kept <=> Consumers(consumed, s) # {}

\* A module loses its last consumer only in a step that releases it.
LEMMA LastConsumer ==
  ASSUME GraphOK, SelectionOK, NEW S, Consumable(S), NEW kept, Kept(S, kept)
  PROVE  /\ Released(S, S) \subseteq Modules
         /\ \A m \in Modules :
              /\ m \in Released(S, S) => Consumers(consumed \cup S, m) = {}
              /\ m \in kept /\ m \notin Released(S, S) => Consumers(consumed \cup S, m) # {}
              /\ m \in S \ kept => Consumers(consumed \cup S, m) = {}
              /\ m \notin S /\ m \notin Released(S, S) =>
                   (Consumers(consumed \cup S, m) = {} <=> Consumers(consumed, m) = {})
<1>1. \A d \in Modules : d \in Released(S, S) <=>
        Consumers(consumed \cup S, d) = {} /\ \E c \in S : d \in plan.closure[c]
  BY LedgerAgrees
<1>2. \A d : Consumers(consumed \cup S, d) = {c \in Consumers(consumed, d) : c \notin S}
  BY DEF Consumers
<1>3. \A d : \A c \in Consumers(consumed, d) : d \in plan.closure[c]
  BY DEF Consumers
<1>4. Released(S, S) \subseteq Modules
  BY DEF Released
<1>5. ASSUME NEW m \in Modules
      PROVE  /\ m \in Released(S, S) => Consumers(consumed \cup S, m) = {}
             /\ m \in kept /\ m \notin Released(S, S) => Consumers(consumed \cup S, m) # {}
             /\ m \in S \ kept => Consumers(consumed \cup S, m) = {}
             /\ m \notin S /\ m \notin Released(S, S) =>
                  (Consumers(consumed \cup S, m) = {} <=> Consumers(consumed, m) = {})
  <2>1. m \notin Released(S, S) =>
          (Consumers(consumed \cup S, m) = {} <=> Consumers(consumed, m) = {})
    BY <1>1, <1>2, <1>3
  <2>2. Consumers(consumed, m) = {} => Consumers(consumed \cup S, m) = {}
    BY <1>2
  <2> QED BY <1>1, <2>1, <2>2 DEF Kept
<1> QED BY <1>4, <1>5

LEMMA ContextsAfter ==
  ASSUME GraphOK, SelectionOK, NEW S, Consumable(S), NEW kept, Kept(S, kept),
         ContextsOK(contexts, consumed), NEW kind, kind # "none", NEW ordinary, NEW taken,
         Retain(kept, kind, ordinary, taken, Released(S, S))
  PROVE  ContextsOK(contexts', consumed \cup S)
<1>1. contexts' = [m \in Modules |->
                     IF m \in Released(S, S) THEN "none"
                     ELSE IF m \in kept THEN kind ELSE contexts[m]]
  BY DEF Retain
<1>2. S \cap consumed = {} /\ kept \subseteq S
  BY DEF Consumable, Kept
<1>3. ASSUME NEW m \in Modules
      PROVE  contexts'[m] # "none" <=> m \in consumed \cup S /\ Consumers(consumed \cup S, m) # {}
  <2>1. contexts'[m] = IF m \in Released(S, S) THEN "none"
                       ELSE IF m \in kept THEN kind ELSE contexts[m]
    BY <1>1
  <2>2. contexts[m] # "none" <=> m \in consumed /\ Consumers(consumed, m) # {}
    BY DEF ContextsOK
  <2> QED BY <1>2, <2>1, <2>2, LastConsumer
<1>4. contexts' = [m \in Modules |-> contexts'[m]]
  BY <1>1
<1> QED BY <1>3, <1>4 DEF ContextsOK

LEMMA VerifiedAfter ==
  ASSUME GraphOK, SelectionOK, NEW S, Consumable(S), NEW kept, Kept(S, kept),
         NEW ord, ord \subseteq consumed, VerifiedOK(verified, consumed, ord),
         NEW kind, NEW ordinary \in BOOLEAN, NEW taken,
         Retain(kept, kind, ordinary, taken, Released(S, S))
  PROVE  VerifiedOK(verified', consumed \cup S, IF ordinary THEN ord \cup S ELSE ord)
<1>1. verified' = (IF ordinary THEN verified \cup kept ELSE verified) \ Released(S, S)
  BY DEF Retain
<1>2. /\ S \cap consumed = {} /\ kept \subseteq S /\ S \subseteq Modules /\ ord \subseteq Modules
  BY DEF Consumable, Kept, SelectionOK, Selected
<1>3. \A m : m \in verified <=> m \in ord /\ Consumers(consumed, m) # {}
  BY DEF VerifiedOK
<1>4. ASSUME NEW m \in ord
      PROVE  m \in verified' <=> Consumers(consumed \cup S, m) # {}
  BY <1>1, <1>2, <1>3, LastConsumer
<1>5. ASSUME NEW m \in S
      PROVE  m \in verified' <=> ordinary /\ Consumers(consumed \cup S, m) # {}
  BY <1>1, <1>2, <1>3, LastConsumer
<1>6. ASSUME NEW m \in verified' PROVE m \in ord \/ (ordinary /\ m \in S)
  BY <1>1, <1>2, <1>3
<1>7. CASE ordinary
  BY <1>4, <1>5, <1>6, <1>7 DEF VerifiedOK
<1>8. CASE ~ ordinary
  BY <1>4, <1>6, <1>8 DEF VerifiedOK
<1> QED BY <1>7, <1>8

\* Importing m takes one use of each import, and m has all its uses ahead.
LEMMA AvailAfterImport ==
  ASSUME GraphOK, SelectionOK, NEW m, Consumable({m}), NEW kept, Kept({m}, kept),
         NEW ord, ord \subseteq consumed, VerifiedOK(verified, consumed, ord),
         AvailOK(avail, verified, ord), plan.closure[m] \subseteq verified,
         NEW kind, Retain(kept, kind, TRUE, plan.deps[m], Released({m}, {m}))
  PROVE  AvailOK(avail', verified', ord \cup {m})
<1> DEFINE importers(o, x) == {c \in Modules \ o : x \in plan.deps[c]}
           gone == Released({m}, {m})
<1>1. /\ m \in Modules /\ m \notin consumed /\ m \notin ord /\ kept \subseteq {m}
      /\ ord \subseteq Modules
  BY DEF Consumable, Kept, SelectionOK, Selected
<1>2. verified' = (verified \cup kept) \ gone
  BY DEF Retain
<1>3. verified \subseteq ord
  BY DEF VerifiedOK
<1>4. plan.deps[m] \subseteq verified /\ m \notin plan.deps[m] /\ m \notin verified
  BY <1>1, <1>3 DEF GraphOK
<1>5. \A c \in ord : m \notin plan.deps[c]
  BY <1>1 DEF Consumable, GraphOK
<1>6. ASSUME NEW x \in Modules
      PROVE  avail'[x] = IF x \in verified' THEN Cardinality(importers(ord \cup {m}, x)) ELSE 0
  <2>1. avail'[x] = IF x \in gone THEN 0 ELSE IF x \in kept THEN ImportUses(x)
                    ELSE IF x \in plan.deps[m] THEN avail[x] - 1 ELSE avail[x]
    BY DEF Retain
  <2>2. avail[x] = IF x \in verified THEN Cardinality(importers(ord, x)) ELSE 0
    BY DEF AvailOK
  <2>3. CASE x \in gone
    BY <1>2, <2>1, <2>3
  <2>4. CASE x \notin gone /\ x \in kept
    <3>1. x = m /\ x \in verified'
      BY <1>1, <1>2, <2>4
    <3>2. importers(ord \cup {m}, m) = {c \in Modules : m \in plan.deps[c]}
      BY <1>4, <1>5
    <3> QED BY <2>1, <2>4, <3>1, <3>2 DEF ImportUses
  <2>5. CASE x \notin gone /\ x \notin kept /\ x \in plan.deps[m]
    <3>1. x \in verified /\ x \in verified'
      BY <1>2, <1>4, <2>5
    <3>2. /\ importers(ord \cup {m}, x) = importers(ord, x) \ {m} /\ m \in importers(ord, x)
          /\ importers(ord, x) \subseteq Modules
      BY <1>1, <2>5
    <3> HIDE DEF importers
    <3>3. Cardinality(importers(ord \cup {m}, x)) = Cardinality(importers(ord, x)) - 1
      <4>1. IsFiniteSet(importers(ord, x))
        BY <3>2, CountOf
      <4> QED BY <3>2, <4>1, FS_RemoveElement
    <3> QED BY <2>1, <2>2, <2>5, <3>1, <3>3
  <2>6. CASE x \notin gone /\ x \notin kept /\ x \notin plan.deps[m]
    <3>1. x \in verified' <=> x \in verified
      BY <1>2, <2>6
    <3>2. importers(ord \cup {m}, x) = importers(ord, x)
      BY <2>6
    <3> QED BY <2>1, <2>2, <2>6, <3>1, <3>2
  <2> QED BY <2>3, <2>4, <2>5, <2>6
<1>7. avail' = [x \in Modules |-> avail'[x]]
  BY DEF Retain
<1> QED BY <1>6, <1>7 DEF AvailOK

LEMMA AvailAfter ==
  ASSUME NEW S, NEW kept, NEW ord, AvailOK(avail, verified, ord),
         NEW kind, Retain(kept, kind, FALSE, {}, Released(S, S))
  PROVE  AvailOK(avail', verified', ord)
<1> DEFINE importers(x) == {c \in Modules \ ord : x \in plan.deps[c]}
<1>1. /\ verified' = verified \ Released(S, S)
      /\ avail' = [x \in Modules |-> IF x \in Released(S, S) THEN 0 ELSE avail[x]]
  BY DEF Retain
<1>2. avail = [x \in Modules |-> IF x \in verified THEN Cardinality(importers(x)) ELSE 0]
  BY DEF AvailOK
<1> HIDE DEF importers
<1>3. ASSUME NEW x \in Modules
      PROVE  avail'[x] = IF x \in verified' THEN Cardinality(importers(x)) ELSE 0
  BY <1>1, <1>2
<1>4. avail' = [x \in Modules |-> avail'[x]]
  BY <1>1
<1>5. avail' = [x \in Modules |-> IF x \in verified' THEN Cardinality(importers(x)) ELSE 0]
  BY <1>3, <1>4
<1> QED BY <1>5 DEF AvailOK, importers

LEMMA LedgerNext ==
  ASSUME UNCHANGED plan, UsesOK(uses', consumed'), ContextsOK(contexts', consumed'),
         VerifiedOK(verified', consumed', Ordinary'), AvailOK(avail', verified', Ordinary')
  PROVE  Ledger'
<1>1. ASSUME NEW d PROVE Consumers(consumed, d)' = Consumers(consumed', d)
  <2>1. \A c : c \in Consumers(consumed, d)' <=> c \in Consumers(consumed', d)
    BY DEF Consumers, Selected
  <2> QED BY <2>1
<1>2. UsesOK(uses, consumed)'
  BY <1>1 DEF UsesOK
<1>3. ContextsOK(contexts, consumed)'
  BY <1>1 DEF ContextsOK
<1>4. VerifiedOK(verified, consumed, Ordinary)'
  BY <1>1 DEF VerifiedOK
<1>5. AvailOK(avail, verified, Ordinary)'
  <2>1. \A m : {c \in Modules \ Ordinary' : m \in plan.deps[c]}
                = {c \in Modules \ Ordinary' : m \in plan'.deps[c]}
    OBVIOUS
  <2> QED BY <2>1 DEF AvailOK
<1> QED BY <1>2, <1>3, <1>4, <1>5 DEF Ledger

\* Support, or a target that is forced live, is built from ordinary imports.
LEMMA LedgerAfterBuild ==
  ASSUME GraphOK, SelectionOK, Ledger, Ordinary \subseteq consumed,
         NEW m, Consumable({m}), NEW kept, Kept({m}, kept), plan.closure[m] \subseteq verified,
         NEW kind, kind # "none",
         Retain(kept, kind, TRUE, plan.deps[m], Released({m}, {m})),
         uses' = LedgerAfter({m}, {m}), consumed' = consumed \cup {m},
         UNCHANGED plan, Ordinary' = Ordinary \cup {m}
  PROVE  Ledger'
<1>1. UsesOK(uses', consumed') /\ ContextsOK(contexts', consumed')
  BY LedgerAgrees, ContextsAfter DEF Ledger
<1>2. VerifiedOK(verified', consumed', Ordinary')
  <2>1. VerifiedOK(verified', consumed \cup {m}, IF TRUE THEN Ordinary \cup {m} ELSE Ordinary)
    BY VerifiedAfter DEF Ledger
  <2> QED BY <2>1
<1>3. AvailOK(avail', verified', Ordinary')
  BY AvailAfterImport DEF Ledger
<1> QED BY <1>1, <1>2, <1>3, LedgerNext

\* A hit, or a target built from contexts, cannot be imported ordinarily.
LEMMA LedgerAfterContexts ==
  ASSUME GraphOK, SelectionOK, Ledger, Ordinary \subseteq consumed,
         NEW S, Consumable(S), NEW kept, Kept(S, kept), NEW kind, kind # "none",
         Retain(kept, kind, FALSE, {}, Released(S, S)),
         uses' = LedgerAfter(S, S), consumed' = consumed \cup S,
         UNCHANGED plan, Ordinary' = Ordinary
  PROVE  Ledger'
<1>1. UsesOK(uses', consumed') /\ ContextsOK(contexts', consumed')
  BY LedgerAgrees, ContextsAfter DEF Ledger
<1>2. VerifiedOK(verified', consumed', Ordinary')
  <2>1. VerifiedOK(verified', consumed \cup S, IF FALSE THEN Ordinary \cup S ELSE Ordinary)
    BY VerifiedAfter DEF Ledger
  <2> QED BY <2>1
<1>3. AvailOK(avail', verified', Ordinary')
  BY AvailAfter DEF Ledger
<1> QED BY <1>1, <1>2, <1>3, LedgerNext

-----------------------------------------------------------------------------
(* What a step finds when it is reached. *)

Good == GraphOK /\ SelectionOK /\ Books /\ Ledger

LEMMA BooksFacts ==
  ASSUME Good
  PROVE  /\ Selected \subseteq Modules /\ consumed \subseteq Selected /\ Ordinary \subseteq consumed
         /\ \A c \in consumed : plan.closure[c] \subseteq consumed
         /\ \A m \in Selected : plan.closure[m] \subseteq Selected /\ m \notin plan.closure[m]
<1>1. Selected \subseteq Modules
  BY DEF Good, SelectionOK, Selected
<1>2. \A m \in Modules : m \notin plan.closure[m]
  <2> SUFFICES ASSUME NEW m \in Modules, m \in plan.closure[m] PROVE FALSE
    OBVIOUS
  <2>1. m < m /\ m \in Nat
    BY ModulesAreNumbers DEF Good, GraphOK
  <2> QED BY SMT, <2>1
<1> QED BY <1>1, <1>2 DEF Good, Books, SelectionOK, Ordinary

\* A module that is still a consumer finds its processed dependencies.
LEMMA DependenciesRetained ==
  ASSUME Good, NEW m \in Selected \ consumed, NEW d \in plan.closure[m], d \in consumed
  PROVE  contexts[d] # "none" /\ (d \in Ordinary => d \in verified)
<1>1. m \in Consumers(consumed, d)
  BY DEF Consumers
<1>2. d \in Modules
  BY BooksFacts
<1> QED BY <1>1, <1>2 DEF Good, Ledger, ContextsOK, VerifiedOK

LEMMA ImportsAvailable ==
  ASSUME Good, NEW m \in Selected \ consumed, NEW d \in plan.deps[m], d \in verified
  PROVE  avail[d] > 0
<1> DEFINE importers == {c \in Modules \ Ordinary : d \in plan.deps[c]}
<1>1. m \in Modules /\ m \notin Ordinary /\ d \in Modules
  BY BooksFacts DEF Good, GraphOK
<1>2. avail[d] = Cardinality(importers)
  BY <1>1 DEF Good, Ledger, AvailOK
<1>3. importers \in SUBSET Modules /\ importers # {}
  BY <1>1
<1> HIDE DEF importers
<1>4. Cardinality(importers) \in Nat /\ Cardinality(importers) # 0
  BY <1>3, CountOf
<1> QED BY SMT, <1>2, <1>4

\* A module that can be consumed, with the modules it depends on processed.
LEMMA OneConsumable ==
  ASSUME Good, NEW m \in Selected \ consumed, plan.closure[m] \subseteq consumed
  PROVE  Consumable({m}) /\ LedgerAccepts({m}, {m})
<1>1. Consumable({m})
  BY BooksFacts DEF Consumable, Good, Ledger
<1> QED BY <1>1, LedgerAgrees DEF Good

LEMMA SupportIsNeeded ==
  ASSUME Good, NEW m \in plan.support \ consumed
  PROVE  Consumers(consumed, m) # {}
<1>1. PICK t \in plan.targets : m \in plan.closure[t]
  BY DEF Good, SelectionOK
<1>2. t \in Selected /\ t \notin consumed
  BY <1>1, BooksFacts DEF Selected
<1> QED BY <1>1, <1>2 DEF Consumers

LEMMA LiveReady ==
  ASSUME Good, NEW m \in plan.support \ consumed, plan.closure[m] \subseteq Ordinary
  PROVE  /\ LiveChecks(m) /\ Consumable({m}) /\ Kept({m}, {m})
         /\ plan.closure[m] \subseteq verified
<1>1. m \in Selected /\ m \in Modules /\ plan.closure[m] \subseteq consumed
  BY BooksFacts DEF Selected
<1>2. plan.closure[m] \subseteq verified /\ \A d \in plan.closure[m] : contexts[d] # "none"
  BY <1>1, DependenciesRetained
<1>3. plan.deps[m] \subseteq plan.closure[m]
  BY <1>1 DEF Good, GraphOK
<1>4. \A d \in plan.deps[m] : avail[d] > 0 /\ contexts[d] # "none"
  BY <1>1, <1>2, <1>3, ImportsAvailable
<1>5. ImportUses(m) > 0
  <2> DEFINE importers == {c \in Modules : m \in plan.deps[c]}
  <2>1. importers \in SUBSET Modules /\ importers # {}
    BY DEF Good, SelectionOK
  <2>2. ImportUses(m) = Cardinality(importers)
    BY DEF ImportUses
  <2> HIDE DEF importers
  <2>3. Cardinality(importers) \in Nat /\ Cardinality(importers) # 0
    BY <2>1, CountOf
  <2> QED BY SMT, <2>2, <2>3
<1>6. contexts[m] = "none" /\ m \notin live
  <2>1. contexts[m] = "none"
    BY <1>1 DEF Good, Ledger, ContextsOK
  <2> QED BY <2>1 DEF Good, Books
<1>7. Consumable({m}) /\ LedgerAccepts({m}, {m})
  BY <1>1, OneConsumable
<1>8. Kept({m}, {m})
  BY SupportIsNeeded DEF Kept
<1> QED BY <1>2, <1>4, <1>5, <1>6, <1>7, <1>8 DEF LiveChecks

\* Dependencies come before, so they have been reached.
LEMMA ReachedBefore ==
  ASSUME Good, NEW m \in Selected, \A t \in todo : m <= t
  PROVE  plan.closure[m] \subseteq Selected \ todo
<1> SUFFICES ASSUME NEW d \in plan.closure[m], d \in todo PROVE FALSE
  BY BooksFacts
<1>1. m \in Nat /\ d \in Nat /\ d < m /\ m <= d
  BY BooksFacts, ModulesAreNumbers DEF Good, GraphOK
<1> QED BY SMT, <1>1

LEMMA ReachedIs ==
  ASSUME Good, NEW m, Reached(m)
  PROVE  /\ m \in todo /\ m \in Selected /\ m \in Modules /\ \A t \in todo : m <= t
         /\ m \notin consumed /\ m \notin pending
         /\ plan.closure[m] \subseteq Selected \ todo
         /\ Selected \ todo = consumed \cup pending
         /\ promoted = {} /\ current = NoModule /\ result = "running"
<1>1. /\ result = "running" /\ promoted = {} /\ current = NoModule
      /\ todo # {} /\ m = Min(todo)
  BY DEF Reached
<1>2. todo \in SUBSET Modules /\ todo \subseteq Selected
  BY BooksFacts DEF Good, Books
<1>3. m \in todo /\ \A t \in todo : m <= t
  BY <1>1, <1>2, MinIsLeast
<1>4. Selected \ todo = consumed \cup pending
  BY <1>1 DEF Good, Books
<1>5. plan.closure[m] \subseteq Selected \ todo
  BY <1>2, <1>3, ReachedBefore
<1> QED BY <1>1, <1>2, <1>3, <1>4, <1>5

LEMMA PromotedReady ==
  ASSUME Good, promoted # {}, NEW m, m = Min(promoted)
  PROVE  /\ m \in promoted /\ m \in plan.pre /\ m \in plan.support \ consumed
         /\ plan.closure[m] \subseteq live /\ plan.closure[m] \subseteq Ordinary
<1>1. promoted \in SUBSET Modules /\ promoted \subseteq plan.support
  BY DEF Good, Books, SelectionOK
<1>2. m \in promoted /\ \A p \in promoted : m <= p
  BY <1>1, MinIsLeast
<1>3. ASSUME NEW d \in plan.closure[m] PROVE d \in live
  <2>1. d \in live \/ d \in promoted
    BY <1>2 DEF Good, Books
  <2>2. d \notin promoted
    <3> SUFFICES ASSUME d \in promoted PROVE FALSE
      OBVIOUS
    <3>1. m \in Nat /\ d \in Nat /\ d < m /\ m <= d
      BY <1>1, <1>2, ModulesAreNumbers DEF Good, GraphOK
    <3> QED BY SMT, <3>1
  <2> QED BY <2>1, <2>2
<1> QED BY <1>1, <1>2, <1>3 DEF Good, Books, Ordinary

\* All that a forced module depends on is ordinary.
LEMMA ForcedReady ==
  ASSUME Good, NEW m \in plan.forced, promoted = {}, \A t \in todo : m <= t,
         current \in {NoModule, m}
  PROVE  plan.closure[m] \subseteq Ordinary
<1>1. m \in Selected /\ plan.closure[m] \subseteq plan.forced /\ m \notin plan.closure[m]
  BY BooksFacts DEF Good, SelectionOK
<1>2. plan.closure[m] \subseteq Selected \ todo
  BY <1>1, ReachedBefore
<1>3. plan.forced \ todo \subseteq Ordinary \cup {current}
  BY DEF Good, Books
<1>4. NoModule \notin plan.closure[m]
  BY <1>2, BooksFacts, ModulesAreNumbers
<1> SUFFICES ASSUME NEW d \in plan.closure[m] PROVE d \in Ordinary
  OBVIOUS
<1>5. d \in Ordinary \/ d = current
  BY <1>1, <1>2, <1>3
<1>6. d # NoModule /\ d # m
  BY <1>1, <1>4
<1> QED BY <1>5, <1>6

LEMMA TargetReady ==
  ASSUME Good, current # NoModule
  PROVE  /\ TargetChecks(current) /\ Consumable({current})
         /\ current \in plan.targets \ consumed
         /\ current \in plan.forced => plan.closure[current] \subseteq verified
<1>1. /\ current \in plan.targets /\ current \in Selected /\ current \notin consumed
      /\ current \notin todo /\ promoted = {}
  BY DEF Good, Books, Selected
<1>2. \A t \in todo : current <= t
  <2> SUFFICES ASSUME NEW t \in todo PROVE current <= t
    OBVIOUS
  <2>1. current < t /\ current \in Nat /\ t \in Nat
    BY <1>1, BooksFacts, ModulesAreNumbers DEF Good, Books
  <2> QED BY SMT, <2>1
<1>3. plan.closure[current] \subseteq Selected \ todo
  BY <1>1, <1>2, ReachedBefore
<1>4. current \in plan.forced => plan.closure[current] \subseteq Ordinary
  BY <1>1, <1>2, ForcedReady
<1>5. plan.closure[current] \subseteq consumed
  <2>1. CASE current \in plan.forced
    BY <1>4, <2>1, BooksFacts
  <2>2. CASE current \notin plan.forced
    <3>1. pending = {}
      BY <1>1, <2>2 DEF Good, Books
    <3>2. Selected \ todo \subseteq consumed \cup {current}
      BY <1>1, <3>1 DEF Good, Books
    <3> QED BY <1>1, <1>3, <3>2, BooksFacts
  <2> QED BY <2>1, <2>2
<1>6. Consumable({current}) /\ LedgerAccepts({current}, {current})
  BY <1>1, <1>5, OneConsumable
<1>7. /\ \A d \in plan.closure[current] : contexts[d] # "none"
      /\ current \in plan.forced => plan.closure[current] \subseteq verified
  BY <1>1, <1>4, <1>5, DependenciesRetained
<1>8. current \in plan.forced => \A d \in plan.deps[current] : avail[d] > 0
  <2>1. plan.deps[current] \subseteq plan.closure[current]
    BY <1>1, BooksFacts DEF Good, GraphOK
  <2> QED BY <1>1, <1>7, <2>1, ImportsAvailable
<1> QED BY <1>1, <1>6, <1>7, <1>8 DEF TargetChecks

LEMMA AdoptionReady ==
  ASSUME Good, promoted = {}, ~ adopted
  PROVE  AdoptionChecks /\ Consumable(pending) /\ Kept(pending, pending)
<1>1. pending \subseteq plan.support /\ pending \subseteq Selected \ consumed
  BY DEF Good, Books, SelectionOK, Selected
<1>2. \A p \in pending : plan.closure[p] \subseteq consumed \cup pending
  BY BooksFacts DEF Good, Books
<1>3. Consumable(pending)
  BY <1>1, <1>2, BooksFacts DEF Consumable, Good, Ledger
<1>4. LedgerAccepts(pending, pending)
  BY <1>3, LedgerAgrees DEF Good
<1>5. \A p \in pending : contexts[p] = "none"
  BY <1>1, BooksFacts DEF Good, Ledger, ContextsOK
<1>6. Kept(pending, pending)
  BY <1>1, SupportIsNeeded DEF Kept
<1> QED BY <1>3, <1>4, <1>5, <1>6 DEF AdoptionChecks

\* Whatever the store answered, no step finds the plan broken.
LEMMA PlanIsKept == IInv => PlanHolds
<1> SUFFICES ASSUME IInv, result = "running" PROVE PlanHolds
  BY DEF PlanHolds
<1>1. Good
  BY DEF IInv, Good
<1>2. CASE promoted # {}
  <2>1. Min(promoted) \in snapshots
    BY <1>1, <1>2, PromotedReady DEF Good, Books
  <2>2. LiveChecks(Min(promoted))
    BY <1>1, <1>2, PromotedReady, LiveReady
  <2> QED BY <1>2, <2>1, <2>2 DEF PlanHolds
<1>3. CASE promoted = {} /\ current # NoModule
  BY <1>1, <1>3, TargetReady DEF PlanHolds
<1>4. CASE promoted = {} /\ current = NoModule
  <2> SUFFICES ASSUME NEW m \in Modules, Reached(m)
               PROVE  /\ m \in plan.pre => m \in plan.eligible \cup forceLive
                      /\ m \in plan.support \ plan.pre => LiveChecks(m)
                      /\ m \in plan.targets /\ Adopts(m) => AdoptionChecks
    BY <1>4 DEF PlanHolds
  <2>1. m \in plan.pre => m \in plan.eligible \cup forceLive
    BY <1>1 DEF Good, SelectionOK, Books
  <2>2. ASSUME m \in plan.support \ plan.pre PROVE LiveChecks(m)
    <3>1. m \in plan.forced
      BY <1>1, <2>2 DEF Good, SelectionOK
    <3>2. plan.closure[m] \subseteq Ordinary
      BY <1>1, <1>4, <3>1, ReachedIs, ForcedReady
    <3> QED BY <1>1, <2>2, <3>2, ReachedIs, LiveReady
  <2>3. m \in plan.targets /\ Adopts(m) => AdoptionChecks
    BY <1>1, <1>4, AdoptionReady DEF Adopts
  <2> QED BY <2>1, <2>2, <2>3
<1> QED BY <1>2, <1>3, <1>4

-----------------------------------------------------------------------------
(* The counters. *)

\* The fields of F are one higher, the others as they were.
Raised(F) == \A f \in Fields : count'[f] = count[f] + IF f \in F THEN 1 ELSE 0

LEMMA Tallied ==
  ASSUME count \in [Fields -> Nat], NEW F
  PROVE  /\ Tally(F) \in [Fields -> Nat]
         /\ \A f \in Fields : Tally(F)[f] = count[f] + IF f \in F THEN 1 ELSE 0
BY SMT DEF Tally

LEMMA LookupCounts ==
  ASSUME count \in [Fields -> Nat], NEW m, NEW outcome, NEW bypassed \in SUBSET Modules,
         count' = LookupCount(m, outcome, bypassed)
  PROVE  /\ count' \in [Fields -> Nat]
         /\ \A f \in {"visitedTargets", "forcedTargets", "completedSupport", "completedTargets",
                      "liveChecks", "hits", "written"} : count'[f] = count[f]
         /\ count'.visitedSupport = count.visitedSupport + 1
         /\ count'.ineligible = count.ineligible + (IF m \in plan.forced THEN 1 ELSE 0)
         /\ count'.bypassed = count.bypassed + Cardinality(bypassed)
         /\ count'.misses = count.misses + (IF outcome \in {"Hit", "NotAsked"} THEN 0 ELSE 1)
         /\ count'.classified = count.classified +
              (IF outcome \in {"Stale", "Invalid", "Unreconstructible"} THEN 1 ELSE 0)
<1> DEFINE F == {"visitedSupport"} \cup (IF m \in plan.forced THEN {"ineligible"} ELSE {})
           V == Visited(m)
<1>1. V = Tally(F)
  BY DEF Visited
<1>2. /\ V \in [Fields -> Nat]
      /\ \A f \in Fields : V[f] = count[f] + IF f \in F THEN 1 ELSE 0
  <2>1. /\ Tally(F) \in [Fields -> Nat]
        /\ \A f \in Fields : Tally(F)[f] = count[f] + IF f \in F THEN 1 ELSE 0
    <3> HIDE DEF F
    <3> QED BY Tallied
  <2> HIDE DEF F, V
  <2> QED BY <1>1, <2>1
<1>3. Cardinality(bypassed) \in Nat
  BY CountOf
<1>4. count' = [V EXCEPT
        !.bypassed = @ + Cardinality(bypassed),
        !.misses = @ + IF outcome \in {"Hit", "NotAsked"} THEN 0 ELSE 1,
        !.classified = @ + IF outcome \in {"Stale", "Invalid", "Unreconstructible"} THEN 1 ELSE 0]
  BY DEF LookupCount
<1> DEFINE b == Cardinality(bypassed)
           s == IF outcome \in {"Hit", "NotAsked"} THEN 0 ELSE 1
           c == IF outcome \in {"Stale", "Invalid", "Unreconstructible"} THEN 1 ELSE 0
<1>5. b \in Nat /\ s \in Nat /\ c \in Nat
  BY SMT, <1>3
<1> HIDE DEF V, b, s, c
<1> DEFINE V1 == [V EXCEPT !.bypassed = V.bypassed + b]
           V2 == [V1 EXCEPT !.misses = V1.misses + s]
           V3 == [V2 EXCEPT !.classified = V2.classified + c]
<1>6. V1 \in [Fields -> Nat] /\ \A f \in Fields : V1[f] = IF f = "bypassed" THEN V[f] + b ELSE V[f]
  BY SMT, <1>2, <1>5 DEF Fields
<1>7. count' = V3
  BY <1>4 DEF b, s, c
<1> HIDE DEF V1
<1>8. V2 \in [Fields -> Nat] /\ \A f \in Fields : V2[f] = IF f = "misses" THEN V1[f] + s ELSE V1[f]
  BY SMT, <1>5, <1>6 DEF Fields
<1> HIDE DEF V2
<1>9. V3 \in [Fields -> Nat] /\ \A f \in Fields : V3[f] = IF f = "classified" THEN V2[f] + c ELSE V2[f]
  BY SMT, <1>5, <1>8 DEF Fields
<1> HIDE DEF V3
<1>10. \A f \in Fields : count'[f] = IF f = "classified" THEN V[f] + c ELSE
                                     IF f = "misses" THEN V[f] + s ELSE
                                     IF f = "bypassed" THEN V[f] + b ELSE V[f]
  BY <1>6, <1>7, <1>8, <1>9
<1>11. /\ V["visitedSupport"] = count["visitedSupport"] + 1
       /\ V["ineligible"] = count["ineligible"] + (IF m \in plan.forced THEN 1 ELSE 0)
       /\ \A f \in Fields \ {"visitedSupport", "ineligible"} : V[f] = count[f]
  BY SMT, <1>2 DEF Fields
<1> QED BY SMT, <1>7, <1>9, <1>10, <1>11 DEF b, s, c, Fields

LEMMA AdoptionCounts ==
  ASSUME count \in [Fields -> Nat], NEW k \in Nat,
         count' = [Tally({"visitedTargets"}) EXCEPT !.hits = @ + k, !.completedSupport = @ + k]
  PROVE  /\ count' \in [Fields -> Nat]
         /\ \A f \in Fields \ {"visitedTargets", "hits", "completedSupport"} : count'[f] = count[f]
         /\ count'.visitedTargets = count.visitedTargets + 1
         /\ count'.hits = count.hits + k
         /\ count'.completedSupport = count.completedSupport + k
<1> DEFINE V == Tally({"visitedTargets"})
<1>1. /\ V \in [Fields -> Nat]
      /\ \A f \in Fields : V[f] = count[f] + IF f \in {"visitedTargets"} THEN 1 ELSE 0
  BY Tallied
<1>2. count' = [V EXCEPT !.hits = @ + k, !.completedSupport = @ + k]
  OBVIOUS
<1> HIDE DEF V
<1> DEFINE V1 == [V EXCEPT !.hits = V.hits + k]
           V2 == [V1 EXCEPT !.completedSupport = V1.completedSupport + k]
<1>3. V1 \in [Fields -> Nat] /\ \A f \in Fields : V1[f] = IF f = "hits" THEN V[f] + k ELSE V[f]
  BY SMT, <1>1 DEF Fields
<1>4. count' = V2
  BY SMT, <1>1, <1>2 DEF Fields
<1> HIDE DEF V1
<1>5. /\ V2 \in [Fields -> Nat]
      /\ \A f \in Fields : V2[f] = IF f = "completedSupport" THEN V1[f] + k ELSE V1[f]
  BY SMT, <1>3 DEF Fields
<1> HIDE DEF V2
<1>6. \A f \in Fields : count'[f] = IF f = "completedSupport" THEN V[f] + k ELSE
                                    IF f = "hits" THEN V[f] + k ELSE V[f]
  BY <1>3, <1>4, <1>5
<1>7. /\ V["visitedTargets"] = count["visitedTargets"] + 1
      /\ \A f \in Fields \ {"visitedTargets"} : V[f] = count[f]
  BY SMT, <1>1 DEF Fields
<1>8. \A f \in Fields \ {"visitedTargets", "hits", "completedSupport"} : count'[f] = count[f]
  BY <1>6, <1>7
<1>9. {"visitedTargets", "hits", "completedSupport"} \subseteq Fields
  BY DEF Fields
<1>10. /\ count'["visitedTargets"] = count["visitedTargets"] + 1
       /\ count'["hits"] = count["hits"] + k
       /\ count'["completedSupport"] = count["completedSupport"] + k
  BY <1>6, <1>7, <1>9
<1>11. count' \in [Fields -> Nat]
  BY <1>4, <1>5
<1> QED BY SMT, <1>8, <1>10, <1>11

\* The summary of the command, from its books.
LEMMA SummaryOfBooks ==
  ASSUME Good, Counts, count \in [Fields -> Nat],
         result = "completed" => todo = {} /\ promoted = {} /\ current = NoModule /\ pending = {}
  PROVE  SummaryConsistent
<1> DEFINE vs == plan.support \ todo
           vt == plan.targets \ todo
           vf == (plan.targets \cap plan.forced) \ todo
           ct == plan.targets \cap consumed
           cs == plan.support \cap consumed
<1>1. /\ plan.support \in SUBSET Modules /\ plan.targets \in SUBSET Modules
      /\ pending \in SUBSET vs /\ consumed \subseteq Selected \ todo
  BY DEF Good, Books, SelectionOK
<1>2. /\ vs \in SUBSET plan.support /\ vt \in SUBSET plan.targets
      /\ vf \in SUBSET (plan.targets \cap plan.forced) /\ ct \in SUBSET vt /\ cs \in SUBSET vs
  BY <1>1 DEF Good, Books
<1>3. result = "completed" =>
        /\ cs = plan.support /\ ct = plan.targets /\ vs = plan.support
        /\ vf = plan.targets \cap plan.forced /\ pending = {}
  <2> SUFFICES ASSUME result = "completed"
               PROVE  /\ cs = plan.support /\ ct = plan.targets /\ vs = plan.support
                      /\ vf = plan.targets \cap plan.forced /\ pending = {}
    OBVIOUS
  <2>1. Selected = consumed
    BY DEF Good, Books
  <2> QED BY <2>1 DEF Selected
<1>4. /\ \A S \in SUBSET Modules : Cardinality(S) \in Nat
      /\ \A S \in SUBSET Modules : \A T \in SUBSET S : Cardinality(T) <= Cardinality(S)
      /\ Cardinality({}) = 0
  BY CountOf, CountOfPart, FS_EmptySet
<1>5. vs \in SUBSET Modules /\ vt \in SUBSET Modules /\ (plan.targets \cap plan.forced) \in SUBSET Modules
  BY <1>1, <1>2
<1>6. /\ count.visitedSupport = Cardinality(vs) /\ count.visitedTargets = Cardinality(vt)
      /\ count.forcedTargets = Cardinality(vf) /\ count.completedTargets = Cardinality(ct)
      /\ count.completedSupport = Cardinality(cs)
      /\ count.completedSupport = count.liveChecks + count.hits
      /\ count.hits + count.bypassed + count.misses + count.ineligible + Cardinality(pending)
           = count.visitedSupport
      /\ count.classified <= count.misses /\ count.written <= count.liveChecks
  BY DEF Counts
<1> HIDE DEF vs, vt, vf, ct, cs
<1>7. /\ Cardinality(vs) <= Cardinality(plan.support) /\ Cardinality(vt) <= Cardinality(plan.targets)
      /\ Cardinality(vf) <= Cardinality(plan.targets \cap plan.forced)
      /\ Cardinality(ct) <= Cardinality(vt) /\ Cardinality(cs) <= Cardinality(vs)
      /\ Cardinality(pending) \in Nat /\ Cardinality(vs) \in Nat /\ Cardinality(cs) \in Nat
  BY <1>1, <1>2, <1>4, <1>5
<1>8. /\ count.hits \in Nat /\ count.bypassed \in Nat /\ count.misses \in Nat
      /\ count.ineligible \in Nat /\ count.liveChecks \in Nat /\ count.completedSupport \in Nat
  BY SMT DEF Fields
<1>9. result = "completed" =>
        /\ Cardinality(cs) = Cardinality(plan.support) /\ Cardinality(ct) = Cardinality(plan.targets)
        /\ Cardinality(vs) = Cardinality(plan.support)
        /\ Cardinality(vf) = Cardinality(plan.targets \cap plan.forced) /\ Cardinality(pending) = 0
  BY <1>3, <1>4
<1> QED BY SMT, <1>6, <1>7, <1>8, <1>9 DEF SummaryConsistent

-----------------------------------------------------------------------------
(* Visiting support before the first target. *)

LEMMA Passed ==
  ASSUME Good, NEW m, Reached(m), NEW rest, rest = todo \ {m}
  PROVE  /\ rest \subseteq Selected
         /\ \A x \in Selected \ rest, t \in rest : x < t
         /\ Selected \ rest = (Selected \ todo) \cup {m}
<1>1. /\ m \in todo /\ m \in Selected /\ m \in Modules /\ \A t \in todo : m <= t
      /\ todo \subseteq Selected /\ todo \subseteq Modules
  BY ReachedIs, BooksFacts DEF Good, Books
<1>2. ASSUME NEW t \in rest PROVE m < t
  <2>1. m \in Nat /\ t \in Nat /\ m <= t /\ m # t
    BY <1>1, ModulesAreNumbers
  <2> QED BY SMT, <2>1
<1>3. \A x \in Selected \ todo, t \in todo : x < t
  BY DEF Good, Books
<1> QED BY <1>1, <1>2, <1>3

LEMMA CountPassed ==
  ASSUME NEW S \in SUBSET Modules, NEW m \in todo \cap Modules
  PROVE  Cardinality(S \ (todo \ {m})) = Cardinality(S \ todo) + (IF m \in S THEN 1 ELSE 0)
<1>1. CASE m \in S
  <2>1. S \ (todo \ {m}) = (S \ todo) \cup {m}
    BY <1>1
  <2>2. Cardinality((S \ todo) \cup {m}) = Cardinality(S \ todo) + 1
    BY CountOfOneMore
  <2> QED BY <1>1, <2>1, <2>2
<1>2. CASE m \notin S
  <2>1. S \ (todo \ {m}) = S \ todo
    BY <1>2
  <2>2. Cardinality(S \ todo) \in Nat
    BY CountOf
  <2> QED BY SMT, <1>2, <2>1, <2>2
<1> QED BY <1>1, <1>2

LEMMA CountDone ==
  ASSUME NEW S \in SUBSET Modules, NEW m \in Modules \ consumed
  PROVE  Cardinality(S \cap (consumed \cup {m}))
           = Cardinality(S \cap consumed) + (IF m \in S THEN 1 ELSE 0)
<1>1. CASE m \in S
  <2>1. S \cap (consumed \cup {m}) = (S \cap consumed) \cup {m}
    BY <1>1
  <2>2. Cardinality((S \cap consumed) \cup {m}) = Cardinality(S \cap consumed) + 1
    BY CountOfOneMore
  <2> QED BY <1>1, <2>1, <2>2
<1>2. CASE m \notin S
  <2> DEFINE k == Cardinality(S \cap consumed)
  <2>1. S \cap (consumed \cup {m}) = S \cap consumed
    BY <1>2
  <2>2. k \in Nat
    BY CountOf
  <2> HIDE DEF k
  <2>3. k + 0 = k
    BY SMT, <2>2
  <2> QED BY <1>2, <2>1, <2>3 DEF k
<1> QED BY <1>1, <1>2

\* Before the first target nothing is adopted, so all that is processed is live.
LEMMA BeforeTargets ==
  ASSUME Good, NEW m, Reached(m), m \in plan.pre
  PROVE  /\ ~ adopted /\ plan.targets \subseteq todo /\ consumed = live /\ m \notin live
         /\ Selected \ todo = live \cup pending /\ live \cap pending = {}
         /\ plan.closure[m] \subseteq live \cup pending
         /\ m \notin pending /\ m \in plan.support /\ m \in todo /\ m \in Modules
<1>1. /\ m \in todo /\ m \in Selected /\ m \in Modules /\ m \notin consumed /\ m \notin pending
      /\ plan.closure[m] \subseteq Selected \ todo /\ Selected \ todo = consumed \cup pending
  BY ReachedIs
<1>2. ~ adopted
  BY <1>1 DEF Good, Books
<1>3. ASSUME NEW t \in plan.targets PROVE t \in todo
  <2> SUFFICES ASSUME t \notin todo PROVE FALSE
    OBVIOUS
  <2>1. t < m /\ m < t /\ t \in Nat /\ m \in Nat
    BY <1>1, BooksFacts, ModulesAreNumbers DEF Good, Books, SelectionOK, Selected
  <2> QED BY SMT, <2>1
<1>4. consumed \cap plan.support \subseteq live /\ live \subseteq consumed /\ consumed \cap pending = {}
  BY <1>2 DEF Good, Books
<1>5. consumed = live
  BY <1>1, <1>3, <1>4, BooksFacts DEF Selected
<1>6. m \in plan.support
  BY DEF Good, SelectionOK
<1> QED BY <1>1, <1>2, <1>3, <1>4, <1>5, <1>6

LEMMA OutcomeIs ==
  ASSUME NEW m, NEW answer \in Answers(m)
  PROVE  /\ Outcome(m, answer) = "Hit" => m \in plan.eligible
         /\ Outcome(m, answer) = "NotAsked" <=> m \notin plan.eligible
BY SMT DEF Answers, Outcome

\* What a visit of m that resolves to toLive leaves.
Resolved(m, toLive) ==
  /\ pending' = (pending \cup (IF toLive = {} THEN {m} ELSE {})) \ toLive
  /\ promoted' = toLive \ live
  /\ snapshots' = promoted'
  /\ forceLive' = forceLive \cup toLive
  /\ todo' = todo \ {m}
  /\ UNCHANGED <<plan, current, consumed, live, adopted>>

LEMMA ResolvedBooks ==
  ASSUME Good, NEW m, Reached(m), m \in plan.pre, NEW toLive, Resolved(m, toLive),
         \/ toLive = {} /\ m \in plan.eligible
         \/ toLive = {m} \cup plan.closure[m]
  PROVE  Books'
<1>1. /\ ~ adopted /\ plan.targets \subseteq todo /\ consumed = live /\ m \notin live
      /\ Selected \ todo = live \cup pending /\ live \cap pending = {}
      /\ plan.closure[m] \subseteq live \cup pending
      /\ m \notin pending /\ m \in plan.support /\ m \in todo /\ m \in Modules
  BY BeforeTargets
<1>2. /\ promoted = {} /\ current = NoModule
  BY ReachedIs
<1>3. /\ pending' = (pending \cup (IF toLive = {} THEN {m} ELSE {})) \ toLive
      /\ promoted' = toLive \ live /\ snapshots' = promoted' /\ forceLive' = forceLive \cup toLive
      /\ todo' = todo \ {m} /\ plan' = plan /\ current' = NoModule
      /\ consumed' = live /\ live' = live /\ ~ adopted'
  BY <1>1, <1>2 DEF Resolved
<1>4. Selected' = Selected /\ Ordinary' = Ordinary
  BY <1>1, <1>3 DEF Selected, Ordinary
<1>5. /\ todo' \subseteq Selected /\ \A x \in Selected \ todo', t \in todo' : x < t
      /\ Selected \ todo' = live \cup pending \cup {m}
  BY <1>1, <1>3, Passed
<1>6. /\ live \cup pending' \cup promoted' = live \cup pending \cup {m}
      /\ live \cap pending' = {} /\ live \cap promoted' = {} /\ pending' \cap promoted' = {}
      /\ promoted' \subseteq pending \cup {m} /\ pending' \subseteq pending \cup {m}
      /\ m \in pending' => m \in plan.eligible
  BY <1>1, <1>3
<1>7. pending' \subseteq plan.pre \cap plan.eligible /\ promoted' \subseteq plan.pre
  BY <1>6 DEF Good, Books
<1>8. \A p \in pending' : plan.closure[p] \subseteq live \cup pending' \cup promoted'
  <2>1. \A p \in pending \cup {m} : plan.closure[p] \subseteq live \cup pending
    BY <1>1, <1>2 DEF Good, Books
  <2> QED BY <1>6, <2>1
<1>9. \A p \in promoted' : plan.closure[p] \subseteq live \cup promoted'
  <2> SUFFICES ASSUME NEW p \in promoted', NEW d \in plan.closure[p] PROVE d \in live \cup promoted'
    OBVIOUS
  <2>1. toLive = {m} \cup plan.closure[m]
    BY <1>3
  <2>2. d \in plan.closure[m]
    BY <1>1, <1>3, <2>1 DEF Good, GraphOK
  <2> QED BY <1>3, <2>1, <2>2
<1>10. plan.forced \ todo' \subseteq Ordinary \cup promoted' \cup {NoModule}
  <2>1. plan.forced \ todo \subseteq Ordinary \cup {NoModule}
    BY <1>2 DEF Good, Books
  <2>2. m \in plan.forced => m \in promoted'
    <3> SUFFICES ASSUME m \in plan.forced PROVE m \in promoted'
      OBVIOUS
    <3>1. m \notin plan.eligible
      BY DEF Good, SelectionOK
    <3> QED BY <1>1, <1>3, <3>1
  <2> QED BY <1>3, <2>1, <2>2
<1>11. \A t \in plan.targets \ todo' : t \in plan.forced \/ adopted'
  <2>1. m \notin plan.targets
    BY <1>1 DEF Good, SelectionOK
  <2> QED BY <1>1, <1>3, <2>1
<1>12. plan.forced \subseteq forceLive'
  BY <1>3 DEF Good, Books
<1>13. /\ \A c \in consumed' : plan.closure[c] \subseteq consumed'
       /\ NoModule \notin consumed' /\ live' \subseteq consumed' \cap plan.support
  BY <1>1, <1>2, <1>3 DEF Good, Books
<1>14. Selected \ todo' = consumed' \cup pending' \cup promoted' \cup ({NoModule} \ {NoModule})
  BY <1>3, <1>5, <1>6
<1> QED BY SMT, <1>3, <1>4, <1>5, <1>6, <1>7, <1>8, <1>9, <1>10, <1>11, <1>12, <1>13, <1>14 DEF Books

\* The invariant while the command has not stopped.
Running == Good /\ Counts /\ count \in [Fields -> Nat]

LEMMA PlanFixed ==
  ASSUME Good, UNCHANGED plan
  PROVE  GraphOK' /\ SelectionOK'
<1>1. GraphOK'
  BY DEF Good, GraphOK
<1>2. Selected' = Selected
  BY DEF Selected
<1>3. SelectionOK'
  <2>1. \A d : {c \in Selected : d \in plan.closure[c]} = {c \in Selected' : d \in plan'.closure[c]}
    BY <1>2
  <2>2. plan'.uses = [d \in Modules |-> Cardinality({c \in Selected' : d \in plan'.closure[c]})]
    <3>1. plan.uses = [d \in Modules |-> Cardinality({c \in Selected : d \in plan.closure[c]})]
      BY DEF Good, SelectionOK
    <3>2. [d \in Modules |-> Cardinality({c \in Selected : d \in plan.closure[c]})]
            = [d \in Modules |-> Cardinality({c \in Selected' : d \in plan'.closure[c]})]
      BY <2>1
    <3> QED BY <3>1, <3>2
  <2>3. plan'.pre = {m \in plan'.support : \A t \in plan'.targets : m < t}
    BY DEF Good, SelectionOK
  <2> QED BY <1>2, <2>2, <2>3 DEF Good, SelectionOK
<1> QED BY <1>1, <1>3

\* How the counters relate to each other, with p hits pending.
Sums(c, p) ==
  /\ c.completedSupport = c.liveChecks + c.hits
  /\ c.hits + c.bypassed + c.misses + c.ineligible + p = c.visitedSupport
  /\ c.classified <= c.misses
  /\ c.written <= c.liveChecks

Numbers(c) ==
  /\ c.visitedSupport \in Nat /\ c.completedSupport \in Nat /\ c.liveChecks \in Nat
  /\ c.hits \in Nat /\ c.bypassed \in Nat /\ c.misses \in Nat /\ c.classified \in Nat
  /\ c.ineligible \in Nat /\ c.written \in Nat

\* The sets the counters count grow by these numbers.
Grown(vs, vt, vf, ct, cs) ==
  /\ Cardinality(plan.support \ todo') = Cardinality(plan.support \ todo) + vs
  /\ Cardinality(plan.targets \ todo') = Cardinality(plan.targets \ todo) + vt
  /\ Cardinality((plan.targets \cap plan.forced) \ todo')
       = Cardinality((plan.targets \cap plan.forced) \ todo) + vf
  /\ Cardinality(plan.targets \cap consumed') = Cardinality(plan.targets \cap consumed) + ct
  /\ Cardinality(plan.support \cap consumed') = Cardinality(plan.support \cap consumed) + cs

LEMMA CountsNext ==
  ASSUME Counts, UNCHANGED plan, Sums(count', Cardinality(pending')),
         NEW vs, NEW vt, NEW vf, NEW ct, NEW cs, Grown(vs, vt, vf, ct, cs),
         count'.visitedSupport = count.visitedSupport + vs,
         count'.visitedTargets = count.visitedTargets + vt,
         count'.forcedTargets = count.forcedTargets + vf,
         count'.completedTargets = count.completedTargets + ct,
         count'.completedSupport = count.completedSupport + cs
  PROVE  Counts'
<1>1. /\ count'.visitedSupport = Cardinality(plan'.support \ todo')
      /\ count'.visitedTargets = Cardinality(plan'.targets \ todo')
      /\ count'.forcedTargets = Cardinality((plan'.targets \cap plan'.forced) \ todo')
      /\ count'.completedTargets = Cardinality(plan'.targets \cap consumed')
      /\ count'.completedSupport = Cardinality(plan'.support \cap consumed')
  BY DEF Counts, Grown
<1> QED BY <1>1 DEF Counts, Sums

LEMMA CountsAre ==
  ASSUME Running
  PROVE  /\ Sums(count, Cardinality(pending))
         /\ \A f \in Fields : count[f] \in Nat /\ count[f] + 0 = count[f]
         /\ Cardinality(pending) \in Nat /\ Numbers(count)
<1>1. Cardinality(pending) \in Nat
  BY CountOf DEF Running, Good, Books, SelectionOK
<1>2. \A f \in Fields : count[f] \in Nat
  BY DEF Running
<1>3. Numbers(count)
  BY <1>2 DEF Numbers, Fields
<1>4. \A f \in Fields : count[f] + 0 = count[f]
  BY SMT, <1>2
<1>5. Sums(count, Cardinality(pending))
  BY DEF Running, Counts, Sums
<1> QED BY <1>1, <1>2, <1>3, <1>4, <1>5

\* Nothing is added to a set of modules.
LEMMA CountSame ==
  ASSUME NEW S \in SUBSET Modules
  PROVE  Cardinality(S) = Cardinality(S) + 0
BY SMT, CountOf

LEMMA VisitPreTargetStep ==
  ASSUME Running, NEW m \in Modules, VisitPreTarget(m)
  PROVE  Running'
<1>1. Good /\ Reached(m) /\ m \in plan.pre
  BY DEF Running, VisitPreTarget
<1>2. PICK answer \in Answers(m) :
        LET outcome == Outcome(m, answer)
            toLive == Promote(m, outcome)
            bypassed == pending \cap toLive
        IN /\ pending' = (pending \cup IF outcome = "Hit" THEN {m} ELSE {}) \ toLive
           /\ snapshots' = snapshots \cup bypassed \cup IF outcome = "Hit" THEN {} ELSE {m}
           /\ forceLive' = forceLive \cup toLive
           /\ promoted' = toLive \ live
           /\ count' = LookupCount(m, outcome, bypassed)
  BY DEF VisitPreTarget
<1> DEFINE outcome == Outcome(m, answer)
           toLive == Promote(m, outcome)
           bypassed == pending \cap toLive
<1>3. /\ outcome = "Hit" => m \in plan.eligible
      /\ outcome = "NotAsked" <=> m \notin plan.eligible
  BY OutcomeIs
<1>4. toLive = IF outcome = "Hit" THEN {} ELSE {m} \cup plan.closure[m]
  BY DEF Promote
<1>5. /\ pending' = (pending \cup IF outcome = "Hit" THEN {m} ELSE {}) \ toLive
      /\ snapshots' = snapshots \cup bypassed \cup IF outcome = "Hit" THEN {} ELSE {m}
      /\ forceLive' = forceLive \cup toLive /\ promoted' = toLive \ live
      /\ count' = LookupCount(m, outcome, bypassed) /\ todo' = todo \ {m}
      /\ UNCHANGED <<plan, current, producerVars, adopted, result>>
  BY <1>2 DEF VisitPreTarget
<1> HIDE DEF outcome, toLive
<1>6. /\ consumed = live /\ m \notin live /\ live \cap pending = {}
      /\ plan.closure[m] \subseteq live \cup pending
      /\ m \notin pending /\ m \in plan.support /\ m \in todo
      /\ m \notin plan.targets /\ snapshots = {} /\ promoted = {}
  BY <1>1, BeforeTargets, ReachedIs DEF Good, Books, SelectionOK
<1>7. toLive = {} <=> outcome = "Hit"
  BY <1>4
<1>8. snapshots' = promoted'
  BY <1>4, <1>5, <1>6
<1>9. Resolved(m, toLive)
  BY <1>5, <1>7, <1>8 DEF Resolved, producerVars
<1>10. Books'
  BY <1>1, <1>3, <1>4, <1>9, ResolvedBooks
<1>11. UNCHANGED <<plan, live, avail, verified, contexts, uses, consumed>>
  BY <1>5 DEF producerVars
<1>12. GraphOK' /\ SelectionOK'
  BY <1>1, <1>11, PlanFixed
<1>13. Ledger'
  <2>1. Ordinary' = Ordinary
    BY <1>11 DEF Ordinary
  <2> QED BY <1>1, <1>11, <2>1, LedgerNext DEF Good, Ledger
<1>14. Counts'
  <2>0. pending \in SUBSET Modules /\ bypassed \in SUBSET Modules
        /\ plan.support \in SUBSET Modules /\ plan.targets \in SUBSET Modules
    BY <1>1 DEF Good, Books, SelectionOK
  <2>1. /\ \A f \in {"visitedTargets", "forcedTargets", "completedSupport", "completedTargets",
                     "liveChecks", "hits", "written"} : count'[f] = count[f]
        /\ count'.visitedSupport = count.visitedSupport + 1
        /\ count'.ineligible = count.ineligible + (IF m \in plan.forced THEN 1 ELSE 0)
        /\ count'.bypassed = count.bypassed + Cardinality(bypassed)
        /\ count'.misses = count.misses + (IF outcome \in {"Hit", "NotAsked"} THEN 0 ELSE 1)
        /\ count'.classified = count.classified +
             (IF outcome \in {"Stale", "Invalid", "Unreconstructible"} THEN 1 ELSE 0)
    BY <1>5, <2>0, LookupCounts DEF Running
  <2>2. Grown(1, 0, 0, 0, 0)
    <3>1. m \in todo \cap Modules
      BY <1>6
    <3>2. Cardinality(plan.support \ (todo \ {m})) = Cardinality(plan.support \ todo) + 1
      BY <1>6, <2>0, <3>1, CountPassed
    <3>3. plan.targets \ todo' = plan.targets \ todo
          /\ (plan.targets \cap plan.forced) \ todo' = (plan.targets \cap plan.forced) \ todo
      BY <1>5, <1>6
    <3> QED BY <1>5, <1>11, <2>0, <3>2, <3>3, CountSame DEF Grown
  <2>6. /\ Sums(count, Cardinality(pending))
        /\ \A f \in Fields : count[f] \in Nat /\ count[f] + 0 = count[f]
        /\ Cardinality(pending) \in Nat /\ Numbers(count)
    BY CountsAre
  <2>7. /\ count'.completedSupport = count.completedSupport /\ count'.liveChecks = count.liveChecks
        /\ count'.hits = count.hits /\ count'.written = count.written
    BY SMT, <2>1
  <2>3. ASSUME outcome = "Hit" PROVE Sums(count', Cardinality(pending'))
    <3>1. pending' = pending \cup {m} /\ bypassed = {} /\ m \notin plan.forced
      BY <1>1, <1>3, <1>5, <1>7, <2>3 DEF Good, SelectionOK
    <3>2. Cardinality(pending') = Cardinality(pending) + 1 /\ Cardinality(bypassed) = 0
      BY <1>6, <2>0, <3>1, CountOfOneMore, FS_EmptySet
    <3>3. Cardinality(pending) \in Nat
      BY <2>0, CountOf
    <3>4. /\ count'.ineligible = count.ineligible + 0
          /\ count'.misses = count.misses + 0 /\ count'.classified = count.classified + 0
      BY <2>1, <2>3, <3>1
    <3> HIDE DEF bypassed
    <3> QED BY SMT, <2>1, <2>6, <2>7, <3>2, <3>3, <3>4 DEF Sums, Numbers
  <2>4. ASSUME outcome # "Hit" PROVE Sums(count', Cardinality(pending'))
    <3>1. pending' = pending \ toLive
      BY <1>5, <2>4
    <3>2. /\ Cardinality(pending) = Cardinality(pending') + Cardinality(bypassed)
          /\ Cardinality(pending') \in Nat /\ Cardinality(bypassed) \in Nat
      BY <2>0, <3>1, CountWithout, CountOf
    <3>3. m \in plan.forced <=> outcome = "NotAsked"
      BY <1>1, <1>3, <1>6 DEF Good, SelectionOK
    <3> HIDE DEF bypassed
    <3> QED BY SMT, <2>1, <2>4, <2>6, <2>7, <3>2, <3>3 DEF Sums, Numbers
  <2>5. Sums(count', Cardinality(pending'))
    BY <2>3, <2>4
  <2> QED BY <1>11, <2>1, <2>2, <2>5, <2>6, CountsNext DEF Running, Fields
<1>15. count' \in [Fields -> Nat]
  <2>1. bypassed \in SUBSET Modules
    BY <1>1 DEF Good, Books, SelectionOK
  <2> QED BY <1>5, <2>1, LookupCounts DEF Running
<1> QED BY <1>10, <1>12, <1>13, <1>14, <1>15 DEF Running, Good

-----------------------------------------------------------------------------
(* Building live support. *)

LEMMA TallyCounts ==
  ASSUME Running, NEW F, count' = Tally(F)
  PROVE  /\ count' \in [Fields -> Nat]
         /\ \A f \in Fields : f \in F => count'[f] = count[f] + 1
         /\ \A f \in Fields : f \notin F => count'[f] = count[f]
<1>1. /\ Tally(F) \in [Fields -> Nat]
      /\ \A f \in Fields : Tally(F)[f] = count[f] + IF f \in F THEN 1 ELSE 0
  BY Tallied DEF Running
<1>2. \A f \in Fields : count[f] + 0 = count[f]
  BY CountsAre
<1> QED BY <1>1, <1>2

LEMMA LiveLedger ==
  ASSUME Good, NEW m \in plan.support \ consumed, plan.closure[m] \subseteq Ordinary,
         CheckLive(m), UNCHANGED plan
  PROVE  /\ Ledger' /\ Ordinary' = Ordinary \cup {m}
         /\ live' = live \cup {m} /\ consumed' = consumed \cup {m}
         /\ \A c \in consumed' : plan.closure[c] \subseteq consumed'
<1>1. /\ live' = live \cup {m} /\ uses' = LedgerAfter({m}, {m}) /\ consumed' = consumed \cup {m}
      /\ Retain({m}, "live", TRUE, plan.deps[m], Released({m}, {m}))
  BY DEF CheckLive
<1>2. Ordinary' = Ordinary \cup {m}
  BY <1>1 DEF Ordinary, Good, SelectionOK
<1>3. /\ Consumable({m}) /\ Kept({m}, {m}) /\ plan.closure[m] \subseteq verified
      /\ Ordinary \subseteq consumed
  BY LiveReady, BooksFacts
<1>4. "live" # "none"
  OBVIOUS
<1>5. Ledger'
  BY <1>1, <1>2, <1>3, <1>4, LedgerAfterBuild DEF Good
<1>6. \A c \in consumed' : plan.closure[c] \subseteq consumed'
  BY <1>1, <1>3, BooksFacts
<1> QED BY <1>1, <1>2, <1>5, <1>6

\* One module of the support is processed.
LEMMA SupportDone ==
  ASSUME Good, NEW m \in plan.support \ consumed, consumed' = consumed \cup {m}
  PROVE  /\ Cardinality(plan.targets \cap consumed') = Cardinality(plan.targets \cap consumed) + 0
         /\ Cardinality(plan.support \cap consumed') = Cardinality(plan.support \cap consumed) + 1
<1>1. /\ plan.targets \in SUBSET Modules /\ plan.support \in SUBSET Modules
      /\ m \in Modules \ consumed /\ m \notin plan.targets
  BY DEF Good, SelectionOK
<1> QED BY <1>1, CountDone

LEMMA BuildPromotedStep ==
  ASSUME Running, NEW m \in Modules, BuildPromoted(m)
  PROVE  Running'
<1>1. Good /\ promoted # {} /\ m = Min(promoted) /\ CheckLive(m)
  BY DEF Running, BuildPromoted
<1>2. /\ m \in promoted /\ m \in plan.pre /\ m \in plan.support \ consumed
      /\ plan.closure[m] \subseteq live /\ plan.closure[m] \subseteq Ordinary
  BY <1>1, PromotedReady
<1>3. /\ promoted' = promoted \ {m} /\ snapshots' = snapshots \ {m}
      /\ plan' = plan /\ todo' = todo /\ current' = current /\ forceLive' = forceLive
      /\ pending' = pending /\ adopted' = adopted
  BY DEF BuildPromoted
<1>4. PICK published \in BOOLEAN : count' = Written(m, published)
  BY DEF BuildPromoted
<1>5. /\ Ledger' /\ Ordinary' = Ordinary \cup {m} /\ live' = live \cup {m}
      /\ consumed' = consumed \cup {m}
      /\ \A c \in consumed' : plan.closure[c] \subseteq consumed'
  BY <1>1, <1>2, <1>3, LiveLedger
<1>6. Books'
  <2>1. Selected' = Selected
    BY <1>3 DEF Selected
  <2>2. current = NoModule /\ ~ adopted
    BY <1>1 DEF Good, Books
  <2>3. NoModule \notin consumed'
    <3>1. NoModule # m
      BY ModulesAreNumbers
    <3> QED BY <1>1, <1>5, <2>2, <3>1 DEF Good, Books
  <2>a. /\ Selected \ todo = consumed \cup pending \cup promoted
        /\ consumed \cap pending = {} /\ consumed \cap promoted = {} /\ pending \cap promoted = {}
        /\ pending \subseteq plan.pre \cap plan.eligible
        /\ promoted \subseteq plan.pre /\ snapshots = promoted
        /\ live \subseteq consumed \cap plan.support
        /\ consumed \cap plan.support \subseteq live
    BY <1>1, <2>2 DEF Good, Books
  <2>4. Selected \ todo' = consumed' \cup pending' \cup promoted' \cup ({NoModule} \ {NoModule})
    BY <1>2, <1>3, <1>5, <2>a
  <2>5. /\ consumed' \cap pending' = {} /\ consumed' \cap promoted' = {} /\ pending' \cap promoted' = {}
        /\ pending' \subseteq plan.pre \cap plan.eligible
        /\ promoted' \subseteq plan.pre /\ snapshots' = promoted'
        /\ live' \subseteq consumed' \cap plan.support
        /\ consumed' \cap plan.support \subseteq live'
    BY SMT, <1>2, <1>3, <1>5, <2>a
  <2>6. /\ \A p \in pending' : plan.closure[p] \subseteq live' \cup pending' \cup promoted'
        /\ \A p \in promoted' : plan.closure[p] \subseteq live' \cup promoted'
    <3>1. live' \cup promoted' = live \cup promoted
      BY <1>2, <1>3, <1>5
    <3>2. /\ \A p \in pending : plan.closure[p] \subseteq live \cup pending \cup promoted
          /\ \A p \in promoted : plan.closure[p] \subseteq live \cup promoted
      BY <1>1 DEF Good, Books
    <3> QED BY <1>3, <3>1, <3>2
  <2>7. plan.forced \ todo' \subseteq Ordinary' \cup promoted' \cup {NoModule}
    <3>1. plan.forced \ todo \subseteq Ordinary \cup promoted \cup {NoModule}
      BY <1>1, <2>2 DEF Good, Books
    <3> QED BY <1>3, <1>5, <3>1
  <2>8. /\ todo' \subseteq Selected /\ \A x \in Selected \ todo', t \in todo' : x < t
        /\ \A t \in plan.targets \ todo' : t \in plan.forced \/ adopted'
        /\ plan.forced \subseteq forceLive'
    BY <1>1, <1>3 DEF Good, Books
  <2> QED BY <1>3, <1>5, <2>1, <2>2, <2>3, <2>4, <2>5, <2>6, <2>7, <2>8 DEF Books
<1>7. GraphOK' /\ SelectionOK'
  BY <1>1, <1>3, PlanFixed
<1>8. count' \in [Fields -> Nat] /\ Counts'
  <2> DEFINE F == {"liveChecks", "completedSupport"} \cup IF published THEN {"written"} ELSE {}
  <2>1. count' = Tally(F)
    BY <1>4 DEF Written
  <2> HIDE DEF F
  <2>2. /\ count' \in [Fields -> Nat]
        /\ \A f \in Fields : f \in F => count'[f] = count[f] + 1
        /\ \A f \in Fields : f \notin F => count'[f] = count[f]
    BY <2>1, TallyCounts
  <2>3. /\ Sums(count, Cardinality(pending)) /\ Numbers(count) /\ Cardinality(pending) \in Nat
        /\ \A f \in Fields : count[f] + 0 = count[f]
    BY CountsAre
  <2>4. /\ count'.visitedSupport = count.visitedSupport /\ count'.visitedTargets = count.visitedTargets
        /\ count'.forcedTargets = count.forcedTargets /\ count'.completedTargets = count.completedTargets
        /\ count'.hits = count.hits /\ count'.bypassed = count.bypassed
        /\ count'.misses = count.misses /\ count'.classified = count.classified
        /\ count'.ineligible = count.ineligible
        /\ count'.completedSupport = count.completedSupport + 1
        /\ count'.liveChecks = count.liveChecks + 1
        /\ count'.written \in {count.written, count.written + 1}
    <3>1. \A f \in Fields \ {"liveChecks", "completedSupport", "written"} : f \notin F
      BY DEF F
    <3>2. "liveChecks" \in F /\ "completedSupport" \in F
      BY DEF F
    <3> QED BY <2>2, <3>1, <3>2 DEF Fields
  <2>5. Sums(count', Cardinality(pending'))
    BY SMT, <1>3, <2>3, <2>4 DEF Sums, Numbers
  <2>6. Grown(0, 0, 0, 0, 1)
    <3>1. /\ plan.support \ todo \in SUBSET Modules /\ plan.targets \ todo \in SUBSET Modules
          /\ (plan.targets \cap plan.forced) \ todo \in SUBSET Modules
      BY <1>1 DEF Good, SelectionOK
    <3> QED BY <1>1, <1>2, <1>3, <1>5, <3>1, CountSame, SupportDone DEF Grown
  <2>7. /\ count'.visitedSupport = count.visitedSupport + 0
        /\ count'.visitedTargets = count.visitedTargets + 0
        /\ count'.forcedTargets = count.forcedTargets + 0
        /\ count'.completedTargets = count.completedTargets + 0
    BY <2>3, <2>4 DEF Fields
  <2> QED BY <1>3, <2>2, <2>4, <2>5, <2>6, <2>7, CountsNext DEF Running
<1> QED BY <1>5, <1>6, <1>7, <1>8 DEF Running, Good

\* A module that is forced live and comes after a target.
LEMMA VisitPostTargetStep ==
  ASSUME Running, NEW m \in Modules, VisitPostTarget(m)
  PROVE  Running'
<1>1. Good /\ Reached(m) /\ m \in plan.support \ plan.pre /\ CheckLive(m)
  BY DEF Running, VisitPostTarget
<1>2. /\ m \in todo /\ \A t \in todo : m <= t
      /\ m \notin consumed /\ m \notin pending
      /\ Selected \ todo = consumed \cup pending /\ promoted = {} /\ current = NoModule
  BY <1>1, ReachedIs
<1>3. m \in plan.forced /\ m \in plan.support \ consumed /\ plan.closure[m] \subseteq Ordinary
  <2>1. m \in plan.forced
    BY <1>1 DEF Good, SelectionOK
  <2> QED BY <1>1, <1>2, <2>1, ForcedReady
<1>4. /\ todo' = todo \ {m} /\ plan' = plan /\ promoted' = {} /\ current' = NoModule
      /\ forceLive' = forceLive /\ pending' = pending /\ snapshots' = snapshots /\ adopted' = adopted
  BY <1>2 DEF VisitPostTarget, lookupVars
<1>5. /\ Ledger' /\ Ordinary' = Ordinary \cup {m} /\ live' = live \cup {m}
      /\ consumed' = consumed \cup {m}
      /\ \A c \in consumed' : plan.closure[c] \subseteq consumed'
  BY <1>1, <1>3, <1>4, LiveLedger
<1>6. Books'
  <2>1. Selected' = Selected
    BY <1>4 DEF Selected
  <2>2. /\ consumed \cap pending = {} /\ pending \subseteq plan.pre \cap plan.eligible
        /\ snapshots = {} /\ live \subseteq consumed \cap plan.support
        /\ ~ adopted => consumed \cap plan.support \subseteq live
        /\ adopted => pending = {} /\ todo \cap plan.pre = {}
        /\ NoModule \notin consumed
        /\ plan.forced \subseteq forceLive
    BY <1>1, <1>2 DEF Good, Books
  <2>3. NoModule \notin consumed'
    <3>1. NoModule # m
      BY ModulesAreNumbers
    <3> QED BY <1>5, <2>2, <3>1
  <2>4. /\ todo' \subseteq Selected /\ \A x \in Selected \ todo', t \in todo' : x < t
        /\ Selected \ todo' = (Selected \ todo) \cup {m}
    BY <1>1, <1>4, Passed
  <2>5. Selected \ todo' = consumed' \cup pending' \cup promoted' \cup ({NoModule} \ {NoModule})
    BY <1>2, <1>4, <1>5, <2>4
  <2>6. /\ consumed' \cap pending' = {} /\ consumed' \cap promoted' = {} /\ pending' \cap promoted' = {}
        /\ pending' \subseteq plan.pre \cap plan.eligible
        /\ promoted' \subseteq plan.pre /\ snapshots' = promoted'
        /\ live' \subseteq consumed' \cap plan.support
        /\ ~ adopted' => consumed' \cap plan.support \subseteq live'
        /\ adopted' => pending' = {} /\ promoted' = {} /\ todo' \cap plan.pre = {}
    BY <1>2, <1>3, <1>4, <1>5, <2>2
  <2>7. \A p \in pending' : plan.closure[p] \subseteq live' \cup pending' \cup promoted'
    <3>1. \A p \in pending : plan.closure[p] \subseteq live \cup pending
      BY <1>1, <1>2 DEF Good, Books
    <3> QED BY <1>4, <1>5, <3>1
  <2>8. plan.forced \ todo' \subseteq Ordinary' \cup promoted' \cup {NoModule}
    <3>1. plan.forced \ todo \subseteq Ordinary \cup {NoModule}
      BY <1>1, <1>2 DEF Good, Books
    <3> QED BY <1>4, <1>5, <3>1
  <2>9. \A t \in plan.targets \ todo' : t \in plan.forced \/ adopted'
    <3>1. \A t \in plan.targets \ todo : t \in plan.forced \/ adopted
      BY <1>1 DEF Good, Books
    <3> QED BY <1>3, <1>4, <3>1
  <2> QED BY <1>4, <1>5, <2>1, <2>2, <2>3, <2>4, <2>5, <2>6, <2>7, <2>8, <2>9 DEF Books
<1>7. GraphOK' /\ SelectionOK'
  BY <1>1, <1>4, PlanFixed
<1>8. count' \in [Fields -> Nat] /\ Counts'
  <2> DEFINE F == {"visitedSupport", "ineligible", "liveChecks", "completedSupport"}
             V == Visited(m)
  <2>0. /\ Sums(count, Cardinality(pending)) /\ Numbers(count) /\ Cardinality(pending) \in Nat
        /\ \A f \in Fields : count[f] \in Nat /\ count[f] + 0 = count[f]
    BY CountsAre
  <2>1. count' = Tally(F)
    <3>1. V = [f \in DOMAIN count |-> count[f] + IF f \in {"visitedSupport", "ineligible"} THEN 1 ELSE 0]
      <4>1. {"visitedSupport"} \cup (IF m \in plan.forced THEN {"ineligible"} ELSE {})
              = {"visitedSupport", "ineligible"}
        BY <1>3
      <4> QED BY <4>1 DEF Visited, Tally
    <3>2. count' = [f \in DOMAIN count |->
                      V[f] + IF f \in {"liveChecks", "completedSupport"} THEN 1 ELSE 0]
      BY DEF VisitPostTarget
    <3>3. DOMAIN count = Fields
      BY DEF Running
    <3> HIDE DEF V
    <3>4. \A f \in Fields : V[f] + (IF f \in {"liveChecks", "completedSupport"} THEN 1 ELSE 0)
                             = count[f] + IF f \in F THEN 1 ELSE 0
      BY SMT, <2>0, <3>1, <3>3
    <3> QED BY <3>2, <3>3, <3>4 DEF Tally
  <2>2. /\ count' \in [Fields -> Nat]
        /\ \A f \in Fields : f \in F => count'[f] = count[f] + 1
        /\ \A f \in Fields : f \notin F => count'[f] = count[f]
    <3> HIDE DEF F
    <3> QED BY <2>1, TallyCounts
  <2>3. /\ count'.visitedTargets = count.visitedTargets
        /\ count'.forcedTargets = count.forcedTargets /\ count'.completedTargets = count.completedTargets
        /\ count'.hits = count.hits /\ count'.bypassed = count.bypassed
        /\ count'.misses = count.misses /\ count'.classified = count.classified
        /\ count'.written = count.written
        /\ count'.ineligible = count.ineligible + 1
        /\ count'.visitedSupport = count.visitedSupport + 1
        /\ count'.completedSupport = count.completedSupport + 1
        /\ count'.liveChecks = count.liveChecks + 1
    BY <2>2 DEF Fields
  <2>4. Sums(count', Cardinality(pending'))
    BY SMT, <1>4, <2>0, <2>3 DEF Sums, Numbers
  <2>5. Grown(1, 0, 0, 0, 1)
    <3>1. /\ plan.support \in SUBSET Modules /\ plan.targets \in SUBSET Modules
          /\ plan.targets \cap plan.forced \in SUBSET Modules
          /\ m \in plan.support /\ m \notin plan.targets
          /\ m \in todo \cap Modules
      BY <1>1, <1>2 DEF Good, SelectionOK
    <3>2. /\ Cardinality(plan.support \ todo') = Cardinality(plan.support \ todo) + 1
          /\ Cardinality(plan.targets \ todo') = Cardinality(plan.targets \ todo) + 0
          /\ Cardinality((plan.targets \cap plan.forced) \ todo')
               = Cardinality((plan.targets \cap plan.forced) \ todo) + 0
      BY <1>4, <3>1, CountPassed
    <3> QED BY <1>1, <1>3, <1>5, <3>2, SupportDone DEF Grown
  <2>6. /\ count'.visitedTargets = count.visitedTargets + 0
        /\ count'.forcedTargets = count.forcedTargets + 0
        /\ count'.completedTargets = count.completedTargets + 0
    BY <2>0, <2>3 DEF Fields
  <2> QED BY <1>4, <2>2, <2>3, <2>4, <2>5, <2>6, CountsNext DEF Running
<1> QED BY <1>5, <1>6, <1>7, <1>8 DEF Running, Good

-----------------------------------------------------------------------------
(* Targets. *)

\* The books once target m is taken, with what was adopted before it.
Taken(m, hits) ==
  /\ consumed' = consumed \cup hits /\ pending' = pending \ hits
  /\ todo' = todo \ {m} /\ current' = m
  /\ UNCHANGED <<plan, promoted, live, forceLive, snapshots>>

LEMMA TakenBooks ==
  ASSUME Good, NEW m, Reached(m), m \in plan.targets, NEW hits, Taken(m, hits),
         \/ hits = {} /\ adopted' = adopted /\ (m \in plan.forced \/ adopted)
         \/ hits = pending /\ adopted'
  PROVE  Books' /\ Ordinary' = Ordinary
<1>1. /\ m \in todo /\ m \in Selected /\ m \in Modules /\ \A t \in todo : m <= t
      /\ m \notin consumed /\ m \notin pending
      /\ Selected \ todo = consumed \cup pending /\ promoted = {} /\ current = NoModule
  BY ReachedIs
<1>2. /\ consumed' = consumed \cup hits /\ pending' = pending \ hits /\ hits \subseteq pending
      /\ todo' = todo \ {m} /\ current' = m
      /\ plan' = plan /\ promoted' = {} /\ live' = live /\ forceLive' = forceLive
      /\ snapshots' = snapshots
  BY <1>1 DEF Taken
<1>3. /\ consumed \cap pending = {} /\ pending \subseteq plan.pre \cap plan.eligible
      /\ snapshots = {} /\ live \subseteq consumed \cap plan.support
      /\ ~ adopted => consumed \cap plan.support \subseteq live
      /\ adopted => pending = {} /\ todo \cap plan.pre = {}
      /\ plan.forced \subseteq forceLive
      /\ \A c \in consumed : plan.closure[c] \subseteq consumed
      /\ \A p \in pending : plan.closure[p] \subseteq live \cup pending
  BY <1>1 DEF Good, Books
<1>4. Selected' = Selected /\ Ordinary' = Ordinary
  <2>0. plan.targets \cap plan.support = {} /\ plan.eligible \subseteq plan.support
    BY DEF Good, SelectionOK
  <2>1. pending \cap plan.targets = {}
    BY <1>3, <2>0
  <2> QED BY <1>2, <2>1 DEF Selected, Ordinary
<1>5. /\ todo' \subseteq Selected /\ \A x \in Selected \ todo', t \in todo' : x < t
      /\ Selected \ todo' = (Selected \ todo) \cup {m}
  BY <1>2, Passed
<1>6. todo \cap plan.pre = {}
  <2> SUFFICES ASSUME NEW x \in todo, x \in plan.pre PROVE FALSE
    OBVIOUS
  <2>1. x < m /\ m <= x /\ x \in Nat /\ m \in Nat
    BY <1>1, BooksFacts, ModulesAreNumbers DEF Good, Books, SelectionOK
  <2> QED BY SMT, <2>1
<1>7. m # NoModule
  BY <1>1, ModulesAreNumbers
<1>8. Selected \ todo' = consumed' \cup pending' \cup promoted' \cup ({m} \ {NoModule})
  BY <1>1, <1>2, <1>5, <1>7
<1>9. /\ consumed' \cap pending' = {} /\ consumed' \cap promoted' = {} /\ pending' \cap promoted' = {}
      /\ m \notin consumed'
      /\ pending' \subseteq plan.pre \cap plan.eligible
      /\ promoted' \subseteq plan.pre /\ snapshots' = promoted'
      /\ live' \subseteq consumed' \cap plan.support
  BY <1>1, <1>2, <1>3
<1>10. /\ ~ adopted' => consumed' \cap plan.support \subseteq live'
       /\ adopted' => pending' = {} /\ promoted' = {} /\ todo' \cap plan.pre = {}
  <2>1. CASE hits = {} /\ adopted' = adopted
    BY <1>2, <1>3, <1>6, <2>1
  <2>2. CASE hits = pending /\ adopted'
    BY <1>2, <1>6, <2>2
  <2> QED BY <2>1, <2>2
<1>11. \A c \in consumed' : plan.closure[c] \subseteq consumed'
  BY <1>2, <1>3
<1>12. \A p \in pending' : plan.closure[p] \subseteq live' \cup pending' \cup promoted'
  BY <1>2, <1>3
<1>13. plan.forced \ todo' \subseteq Ordinary' \cup promoted' \cup {m}
  <2>1. plan.forced \ todo \subseteq Ordinary \cup {NoModule}
    BY <1>1 DEF Good, Books
  <2>2. NoModule \notin plan.forced
    BY BooksFacts, ModulesAreNumbers DEF Good, SelectionOK
  <2>3. plan.forced \ todo' \subseteq (plan.forced \ todo) \cup {m}
    BY <1>2
  <2> QED BY <1>4, <2>1, <2>2, <2>3
<1>14. \A t \in plan.targets \ todo' : t \in plan.forced \/ adopted'
  <2>1. \A t \in plan.targets \ todo : t \in plan.forced \/ adopted
    BY DEF Good, Books
  <2>2. plan.targets \ todo' \subseteq (plan.targets \ todo) \cup {m}
    BY <1>2
  <2>3. CASE hits = {} /\ adopted' = adopted /\ (m \in plan.forced \/ adopted)
    BY <2>1, <2>2, <2>3
  <2>4. CASE hits = pending /\ adopted'
    BY <2>4
  <2> QED BY <2>3, <2>4
<1> QED BY <1>2, <1>3, <1>4, <1>5, <1>8, <1>9, <1>10, <1>11, <1>12, <1>13, <1>14 DEF Books

\* A target is taken.
LEMMA TargetTaken ==
  ASSUME Good, NEW m, Reached(m), m \in plan.targets, todo' = todo \ {m}
  PROVE  /\ Cardinality(plan.support \ todo') = Cardinality(plan.support \ todo) + 0
         /\ Cardinality(plan.targets \ todo') = Cardinality(plan.targets \ todo) + 1
         /\ Cardinality((plan.targets \cap plan.forced) \ todo')
              = Cardinality((plan.targets \cap plan.forced) \ todo)
                  + (IF m \in plan.forced THEN 1 ELSE 0)
<1>1. /\ plan.support \in SUBSET Modules /\ plan.targets \in SUBSET Modules
      /\ plan.targets \cap plan.forced \in SUBSET Modules
      /\ m \notin plan.support /\ m \in todo \cap Modules
      /\ m \in plan.targets \cap plan.forced <=> m \in plan.forced
  BY ReachedIs DEF Good, SelectionOK
<1> QED BY <1>1, CountPassed

LEMMA AdoptStep ==
  ASSUME Running, NEW m \in Modules, AttemptTarget(m), Adopts(m)
  PROVE  Running'
<1>1. Good /\ Reached(m) /\ m \in plan.targets /\ m \notin plan.forced /\ ~ adopted /\ promoted = {}
  BY DEF Running, AttemptTarget, Adopts, Reached
<1>2. /\ Retain(pending, "cached", FALSE, {}, Released(pending, pending))
      /\ uses' = LedgerAfter(pending, pending)
      /\ consumed' = consumed \cup pending
      /\ count' = [Tally({"visitedTargets"}) EXCEPT
                     !.hits = @ + Cardinality(pending), !.completedSupport = @ + Cardinality(pending)]
      /\ pending' = {} /\ adopted' /\ live' = live
      /\ current' = m /\ todo' = todo \ {m}
      /\ UNCHANGED <<plan, promoted, forceLive, snapshots>>
  BY DEF AttemptTarget, AdoptCached
<1>3. Taken(m, pending)
  BY <1>2 DEF Taken
<1>4. Books' /\ Ordinary' = Ordinary
  BY <1>1, <1>2, <1>3, TakenBooks
<1>5. GraphOK' /\ SelectionOK'
  BY <1>1, <1>2, PlanFixed
<1>6. Ledger'
  <2>1. Consumable(pending) /\ Kept(pending, pending) /\ Ordinary \subseteq consumed
    BY <1>1, AdoptionReady, BooksFacts
  <2>2. "cached" # "none"
    OBVIOUS
  <2> QED BY <1>1, <1>2, <1>4, <2>1, <2>2, LedgerAfterContexts DEF Good
<1>7. count' \in [Fields -> Nat] /\ Counts'
  <2> DEFINE k == Cardinality(pending)
  <2>0. /\ Sums(count, k) /\ Numbers(count) /\ k \in Nat
        /\ \A f \in Fields : count[f] \in Nat /\ count[f] + 0 = count[f]
    BY CountsAre
  <2>1. count' = [Tally({"visitedTargets"}) EXCEPT !.hits = @ + k, !.completedSupport = @ + k]
    BY <1>2
  <2> HIDE DEF k
  <2>2. /\ count' \in [Fields -> Nat]
        /\ \A f \in Fields \ {"visitedTargets", "hits", "completedSupport"} : count'[f] = count[f]
        /\ count'.visitedTargets = count.visitedTargets + 1
        /\ count'.hits = count.hits + k
        /\ count'.completedSupport = count.completedSupport + k
    BY <2>0, <2>1, AdoptionCounts DEF Running
  <2>3. /\ count'.forcedTargets = count.forcedTargets /\ count'.completedTargets = count.completedTargets
        /\ count'.bypassed = count.bypassed /\ count'.misses = count.misses
        /\ count'.classified = count.classified /\ count'.written = count.written
        /\ count'.ineligible = count.ineligible /\ count'.visitedSupport = count.visitedSupport
        /\ count'.liveChecks = count.liveChecks
    BY <2>2 DEF Fields
  <2>4. Cardinality(pending') = 0
    BY <1>2, FS_EmptySet
  <2>5. Sums(count', Cardinality(pending'))
    BY SMT, <2>0, <2>2, <2>3, <2>4 DEF Sums, Numbers
  <2>6. Grown(0, 1, 0, 0, k)
    <3> DEFINE S == plan.support \cap consumed'
    <3>1. /\ pending \subseteq plan.support /\ consumed \cap pending = {}
          /\ plan.support \cap plan.targets = {}
          /\ S \in SUBSET Modules /\ plan.targets \cap consumed \in SUBSET Modules
      BY <1>1 DEF Good, Books, SelectionOK
    <3>2. S \ pending = plan.support \cap consumed /\ S \cap pending = pending
          /\ plan.targets \cap consumed' = plan.targets \cap consumed
      BY <1>2, <3>1
    <3>3. Cardinality(S) = Cardinality(S \ pending) + Cardinality(S \cap pending)
      BY <3>1, CountWithout
    <3>4. Cardinality(plan.support \cap consumed') = Cardinality(plan.support \cap consumed) + k
      BY <3>2, <3>3 DEF k
    <3>5. Cardinality(plan.targets \cap consumed') = Cardinality(plan.targets \cap consumed) + 0
      BY <3>1, <3>2, CountSame
    <3> QED BY <1>1, <1>2, <3>4, <3>5, TargetTaken DEF Grown
  <2>7. /\ count'.visitedSupport = count.visitedSupport + 0
        /\ count'.forcedTargets = count.forcedTargets + 0
        /\ count'.completedTargets = count.completedTargets + 0
    BY <2>0, <2>3 DEF Fields
  <2> QED BY <1>2, <2>2, <2>5, <2>6, <2>7, CountsNext DEF Running
<1> QED BY <1>4, <1>5, <1>6, <1>7 DEF Running, Good

LEMMA AttemptStep ==
  ASSUME Running, NEW m \in Modules, AttemptTarget(m), ~ Adopts(m)
  PROVE  Running'
<1>1. Good /\ Reached(m) /\ m \in plan.targets /\ (m \in plan.forced \/ adopted)
  BY DEF Running, AttemptTarget, Adopts
<1> DEFINE F == {"visitedTargets"} \cup IF m \in plan.forced THEN {"forcedTargets"} ELSE {}
<1>2. /\ count' = Tally(F) /\ pending' = pending /\ adopted' = adopted
      /\ UNCHANGED <<live, avail, verified, contexts, uses, consumed>>
      /\ current' = m /\ todo' = todo \ {m}
      /\ UNCHANGED <<plan, promoted, forceLive, snapshots>>
  BY DEF AttemptTarget, producerVars
<1>3. Taken(m, {})
  BY <1>2 DEF Taken
<1>4. Books' /\ Ordinary' = Ordinary
  BY <1>1, <1>2, <1>3, TakenBooks
<1>5. GraphOK' /\ SelectionOK'
  BY <1>1, <1>2, PlanFixed
<1>6. Ledger'
  BY <1>1, <1>2, <1>4, LedgerNext DEF Good, Ledger
<1>7. count' \in [Fields -> Nat] /\ Counts'
  <2> DEFINE k == IF m \in plan.forced THEN 1 ELSE 0
  <2>0. /\ Sums(count, Cardinality(pending)) /\ Numbers(count) /\ Cardinality(pending) \in Nat
        /\ \A f \in Fields : count[f] \in Nat /\ count[f] + 0 = count[f]
    BY CountsAre
  <2>1. /\ count' \in [Fields -> Nat]
        /\ \A f \in Fields : f \in F => count'[f] = count[f] + 1
        /\ \A f \in Fields : f \notin F => count'[f] = count[f]
    <3> HIDE DEF F
    <3> QED BY <1>2, TallyCounts
  <2>2. \A f \in Fields \ {"visitedTargets", "forcedTargets"} : count'[f] = count[f]
    BY <2>1
  <2>3. /\ count'.visitedTargets = count.visitedTargets + 1
        /\ count'.forcedTargets = count.forcedTargets + k
    <3>1. CASE m \in plan.forced
      BY <2>1, <3>1 DEF Fields
    <3>2. CASE m \notin plan.forced
      BY <2>0, <2>1, <3>2 DEF Fields
    <3> QED BY <3>1, <3>2
  <2>4. /\ count'.completedTargets = count.completedTargets
        /\ count'.bypassed = count.bypassed /\ count'.misses = count.misses
        /\ count'.classified = count.classified /\ count'.written = count.written
        /\ count'.ineligible = count.ineligible /\ count'.visitedSupport = count.visitedSupport
        /\ count'.liveChecks = count.liveChecks /\ count'.hits = count.hits
        /\ count'.completedSupport = count.completedSupport
    BY <2>2 DEF Fields
  <2>5. Sums(count', Cardinality(pending'))
    BY <1>2, <2>0, <2>4 DEF Sums
  <2>6. Grown(0, 1, k, 0, 0)
    <3>1. plan.targets \cap consumed \in SUBSET Modules /\ plan.support \cap consumed \in SUBSET Modules
      BY <1>1 DEF Good, SelectionOK
    <3> QED BY <1>1, <1>2, <3>1, CountSame, TargetTaken DEF Grown
  <2>7. /\ count'.visitedSupport = count.visitedSupport + 0
        /\ count'.completedSupport = count.completedSupport + 0
        /\ count'.completedTargets = count.completedTargets + 0
    BY <2>0, <2>4 DEF Fields
  <2> HIDE DEF k
  <2> QED BY <1>2, <2>1, <2>3, <2>5, <2>6, <2>7, CountsNext DEF Running
<1> QED BY <1>4, <1>5, <1>6, <1>7 DEF Running, Good

LEMMA BuildTargetStep ==
  ASSUME Running, NEW m \in Modules, BuildTarget(m)
  PROVE  Running'
<1> DEFINE kept == IF plan.uses[m] > 0 THEN {m} ELSE {}
           forced == m \in plan.forced
<1>1. Good /\ m = current /\ m # NoModule
  BY ModulesAreNumbers DEF Running, BuildTarget
<1>2. /\ Retain(kept, "fresh", forced, IF forced THEN plan.deps[m] ELSE {}, Released({m}, {m}))
      /\ uses' = LedgerAfter({m}, {m}) /\ consumed' = consumed \cup {m}
      /\ count' = Tally({"completedTargets"}) /\ current' = NoModule
      /\ plan' = plan /\ todo' = todo /\ promoted' = promoted /\ live' = live /\ adopted' = adopted
      /\ pending' = pending /\ snapshots' = snapshots /\ forceLive' = forceLive
  BY DEF BuildTarget, lookupVars
<1>3. /\ Consumable({m}) /\ m \in plan.targets \ consumed
      /\ forced => plan.closure[m] \subseteq verified
  BY <1>1, TargetReady
<1>4. Ordinary' = (IF forced THEN Ordinary \cup {m} ELSE Ordinary) /\ Ordinary \subseteq consumed
  <2>1. Ordinary \subseteq consumed
    BY <1>1, BooksFacts
  <2> QED BY <1>2, <1>3, <2>1 DEF Ordinary
<1>5. Kept({m}, kept)
  <2> DEFINE users == {c \in Selected : m \in plan.closure[c]}
  <2>1. \A c \in users : c \notin consumed
    BY <1>1, <1>3, BooksFacts
  <2>2. users = Consumers(consumed, m)
    BY <2>1 DEF Consumers
  <2>3. users \in SUBSET Modules
    BY <1>1, BooksFacts
  <2>4. plan.uses[m] = Cardinality(users)
    <3>1. plan.uses = [d \in Modules |-> Cardinality({c \in Selected : d \in plan.closure[c]})]
      BY <1>1 DEF Good, SelectionOK
    <3> QED BY <3>1
  <2> HIDE DEF users
  <2>5. Cardinality(users) \in Nat /\ (Cardinality(users) = 0 <=> users = {})
    BY <2>3, CountOf
  <2>6. plan.uses[m] > 0 <=> users # {}
    BY SMT, <2>4, <2>5
  <2> QED BY <2>2, <2>6 DEF Kept
<1> HIDE DEF kept
<1>6. Ledger'
  <2>1. "fresh" # "none"
    OBVIOUS
  <2>2. CASE forced
    <3>1. /\ Retain(kept, "fresh", TRUE, plan.deps[m], Released({m}, {m}))
          /\ Ordinary' = Ordinary \cup {m} /\ plan.closure[m] \subseteq verified
      BY <1>2, <1>3, <1>4, <2>2 DEF Retain
    <3> QED BY <1>1, <1>2, <1>3, <1>4, <1>5, <2>1, <3>1, LedgerAfterBuild DEF Good
  <2>3. CASE ~ forced
    <3>1. /\ Retain(kept, "fresh", FALSE, {}, Released({m}, {m}))
          /\ Ordinary' = Ordinary
      BY <1>2, <1>4, <2>3 DEF Retain
    <3> QED BY <1>1, <1>2, <1>3, <1>4, <1>5, <2>1, <3>1, LedgerAfterContexts DEF Good
  <2> QED BY <2>2, <2>3
<1>7. GraphOK' /\ SelectionOK'
  BY <1>1, <1>2, PlanFixed
<1>8. Books'
  <2>1. Selected' = Selected
    BY <1>2 DEF Selected
  <2>2. /\ todo \subseteq Selected /\ \A x \in Selected \ todo, t \in todo : x < t
        /\ Selected \ todo = consumed \cup pending \cup promoted \cup {m}
        /\ consumed \cap pending = {} /\ promoted = {} /\ snapshots = {}
        /\ pending \subseteq plan.pre \cap plan.eligible
        /\ live \subseteq consumed \cap plan.support
        /\ ~ adopted => consumed \cap plan.support \subseteq live
        /\ adopted => pending = {} /\ promoted = {} /\ todo \cap plan.pre = {}
        /\ plan.forced \subseteq forceLive
        /\ \A t \in plan.targets \ todo : t \in plan.forced \/ adopted
        /\ \A p \in pending : plan.closure[p] \subseteq live \cup pending \cup promoted
        /\ plan.forced \ todo \subseteq Ordinary \cup {m}
    BY <1>1 DEF Good, Books
  <2>3. plan.targets \cap plan.support = {} /\ plan.eligible \subseteq plan.support
    BY <1>1 DEF Good, SelectionOK
  <2>4. NoModule \notin consumed'
    BY <1>1, <1>2, BooksFacts, ModulesAreNumbers
  <2>5. /\ consumed' \cap pending' = {} /\ consumed' \cap promoted' = {} /\ pending' \cap promoted' = {}
        /\ Selected \ todo' = consumed' \cup pending' \cup promoted' \cup ({NoModule} \ {NoModule})
    BY SMT, <1>2, <1>3, <2>2, <2>3
  <2>6. /\ live' \subseteq consumed' \cap plan.support
        /\ ~ adopted' => consumed' \cap plan.support \subseteq live'
    BY <1>2, <1>3, <2>2, <2>3
  <2>7. \A c \in consumed' : plan.closure[c] \subseteq consumed'
    <3>1. plan.closure[m] \subseteq consumed \cup {m}
      BY <1>3 DEF Consumable
    <3> QED BY <1>1, <1>2, <3>1, BooksFacts
  <2>8. plan.forced \ todo' \subseteq Ordinary' \cup promoted' \cup {NoModule}
    BY <1>2, <1>4, <2>2
  <2> QED BY <1>2, <2>1, <2>2, <2>4, <2>5, <2>6, <2>7, <2>8 DEF Books
<1>9. count' \in [Fields -> Nat] /\ Counts'
  <2>0. /\ Sums(count, Cardinality(pending))
        /\ \A f \in Fields : count[f] \in Nat /\ count[f] + 0 = count[f]
    BY CountsAre
  <2>1. /\ count' \in [Fields -> Nat]
        /\ \A f \in Fields : f \in {"completedTargets"} => count'[f] = count[f] + 1
        /\ \A f \in Fields : f \notin {"completedTargets"} => count'[f] = count[f]
    BY <1>2, TallyCounts
  <2>2. /\ count'.completedTargets = count.completedTargets + 1
        /\ count'.bypassed = count.bypassed /\ count'.misses = count.misses
        /\ count'.classified = count.classified /\ count'.written = count.written
        /\ count'.ineligible = count.ineligible /\ count'.visitedSupport = count.visitedSupport
        /\ count'.liveChecks = count.liveChecks /\ count'.hits = count.hits
        /\ count'.completedSupport = count.completedSupport
        /\ count'.visitedTargets = count.visitedTargets /\ count'.forcedTargets = count.forcedTargets
    BY <2>1 DEF Fields
  <2>3. Sums(count', Cardinality(pending'))
    BY <1>2, <2>0, <2>2 DEF Sums
  <2>4. Grown(0, 0, 0, 1, 0)
    <3>1. /\ plan.support \in SUBSET Modules /\ plan.targets \in SUBSET Modules
          /\ plan.support \ todo \in SUBSET Modules /\ plan.targets \ todo \in SUBSET Modules
          /\ (plan.targets \cap plan.forced) \ todo \in SUBSET Modules
          /\ m \in Modules \ consumed /\ m \in plan.targets /\ m \notin plan.support
      BY <1>1, <1>3 DEF Good, SelectionOK
    <3> QED BY <1>2, <3>1, CountSame, CountDone DEF Grown
  <2>5. /\ count'.visitedSupport = count.visitedSupport + 0
        /\ count'.completedSupport = count.completedSupport + 0
        /\ count'.visitedTargets = count.visitedTargets + 0
        /\ count'.forcedTargets = count.forcedTargets + 0
    BY <2>0, <2>2 DEF Fields
  <2> QED BY <1>2, <2>1, <2>2, <2>3, <2>4, <2>5, CountsNext DEF Running
<1> QED BY <1>6, <1>7, <1>8, <1>9 DEF Running, Good

-----------------------------------------------------------------------------
(* The end of the command. *)

\* A hit still pending is needed by a target that is not forced.  That target
\* adopted it.
LEMMA NothingPending ==
  ASSUME Good, todo = {}
  PROVE  pending = {}
<1> SUFFICES ASSUME NEW p \in pending PROVE FALSE
  OBVIOUS
<1>1. p \in plan.support /\ p \notin plan.forced
  BY DEF Good, Books, SelectionOK
<1>2. PICK t \in plan.targets : p \in plan.closure[t]
  BY <1>1 DEF Good, SelectionOK
<1>3. t \notin plan.forced
  BY <1>1, <1>2 DEF Good, SelectionOK
<1> QED BY <1>3 DEF Good, Books

LEMMA SummaryIsKept == IInv => SummaryConsistent
<1> SUFFICES ASSUME IInv, result # "stopped" PROVE SummaryConsistent
  BY DEF IInv
<1>1. /\ Good /\ Counts /\ count \in [Fields -> Nat]
      /\ result = "completed" => todo = {} /\ promoted = {} /\ current = NoModule
  BY DEF IInv, Good
<1> QED BY <1>1, NothingPending, SummaryOfBooks

LEMMA RetentionIsKept == IInv => RetainedWhileNeeded
<1> SUFFICES ASSUME IInv, result \in {"running", "completed"} PROVE RetainedWhileNeeded
  BY DEF RetainedWhileNeeded
<1>1. Good /\ (result = "completed" => todo = {} /\ promoted = {} /\ current = NoModule)
  BY DEF IInv, Good
<1>2. ASSUME NEW m \in Modules
      PROVE  contexts[m] # "none" <=>
               /\ m \in consumed
               /\ \E c \in (plan.targets \cup plan.support) \ consumed : m \in plan.closure[c]
  <2>1. Consumers(consumed, m) # {} <=>
          \E c \in (plan.targets \cup plan.support) \ consumed : m \in plan.closure[c]
    BY DEF Consumers, Selected
  <2> QED BY <1>1, <2>1 DEF Good, Ledger, ContextsOK
<1>3. ASSUME result = "completed"
      PROVE  verified = {} /\ pending = {} /\ snapshots = {} /\ \A m \in Modules : avail[m] = 0
  <2>1. pending = {} /\ snapshots = {} /\ Selected \subseteq consumed
    BY <1>1, <1>3, NothingPending DEF Good, Books
  <2>2. \A m : Consumers(consumed, m) = {}
    BY <2>1 DEF Consumers
  <2>3. verified = {}
    BY <1>1, <2>2 DEF Good, Ledger, VerifiedOK
  <2>4. \A m \in Modules : avail[m] = 0
    BY <1>1, <2>3 DEF Good, Ledger, AvailOK
  <2> QED BY <2>1, <2>3, <2>4
<1> QED BY <1>2, <1>3 DEF RetainedWhileNeeded

LEMMA RejectedStep ==
  ASSUME IInv, Rejected
  PROVE  IInv'
<1>1. /\ result = "running" /\ result' = "stopped" /\ plan' = plan
      /\ \/ count' = count
         \/ \E m \in plan.support : Reached(m) /\ count' = Visited(m)
  BY DEF Rejected
<1>2. Running
  BY <1>1 DEF IInv, Running, Good
<1>3. GraphOK' /\ SelectionOK'
  BY <1>1, <1>2, PlanFixed DEF Running
<1>4. SummaryConsistent
  BY SummaryIsKept
<1>5. CASE count' = count
  <2>1. SummaryConsistent'
    BY <1>1, <1>4, <1>5 DEF SummaryConsistent
  <2> QED BY <1>1, <1>2, <1>3, <1>5, <2>1 DEF IInv, Running
<1>6. ASSUME NEW m \in plan.support, Reached(m), count' = Visited(m) PROVE IInv'
  <2> DEFINE F == {"visitedSupport"} \cup (IF m \in plan.forced THEN {"ineligible"} ELSE {})
  <2>1. count' = Tally(F)
    BY <1>6 DEF Visited
  <2>2. /\ count' \in [Fields -> Nat]
        /\ \A f \in Fields : f \in F => count'[f] = count[f] + 1
        /\ \A f \in Fields : f \notin F => count'[f] = count[f]
    <3> HIDE DEF F
    <3> QED BY <1>2, <2>1, TallyCounts
  <2>3. /\ count'.visitedSupport = count.visitedSupport + 1
        /\ count'.ineligible \in {count.ineligible, count.ineligible + 1}
        /\ count'.bypassed = count.bypassed /\ count'.misses = count.misses
        /\ count'.classified = count.classified /\ count'.written = count.written
        /\ count'.liveChecks = count.liveChecks /\ count'.hits = count.hits
        /\ count'.completedSupport = count.completedSupport
        /\ count'.completedTargets = count.completedTargets
        /\ count'.visitedTargets = count.visitedTargets /\ count'.forcedTargets = count.forcedTargets
    BY <2>2 DEF Fields
  <2>4. count.visitedSupport + 1 <= Cardinality(plan.support)
    <3>1. plan.support \in SUBSET Modules /\ m \in todo \cap Modules
      BY <1>2, <1>6, ReachedIs DEF Running, Good, SelectionOK
    <3>2. Cardinality(plan.support \ (todo \ {m})) = Cardinality(plan.support \ todo) + 1
      BY <3>1, CountPassed
    <3>3. Cardinality(plan.support \ (todo \ {m})) <= Cardinality(plan.support)
      <4>1. plan.support \ (todo \ {m}) \in SUBSET plan.support
        OBVIOUS
      <4> QED BY <3>1, <4>1, CountOfPart
    <3>4. count.visitedSupport = Cardinality(plan.support \ todo)
      BY <1>2 DEF Running, Counts
    <3> QED BY <3>2, <3>3, <3>4
  <2>5. Numbers(count)
    BY <1>2, CountsAre
  <2>6. SummaryConsistent'
    <3>1. /\ count.visitedTargets <= Cardinality(plan.targets)
          /\ count.forcedTargets <= Cardinality(plan.targets \cap plan.forced)
          /\ count.completedSupport <= count.visitedSupport
          /\ count.completedTargets <= count.visitedTargets
          /\ count.liveChecks <= count.visitedSupport
          /\ count.written <= count.liveChecks
          /\ count.hits + count.bypassed + count.misses + count.ineligible <= count.visitedSupport
          /\ count.classified <= count.misses
      BY <1>4 DEF SummaryConsistent
    <3>2. /\ count'.visitedSupport <= Cardinality(plan'.support)
          /\ count'.completedSupport <= count'.visitedSupport
          /\ count'.liveChecks <= count'.visitedSupport
          /\ count'.hits + count'.bypassed + count'.misses + count'.ineligible <= count'.visitedSupport
      BY SMT, <1>1, <2>3, <2>4, <2>5, <3>1 DEF Numbers
    <3>3. result' # "completed"
      BY <1>1
    <3> QED BY <1>1, <2>3, <3>1, <3>2, <3>3 DEF SummaryConsistent
  <2> QED BY <1>1, <1>3, <2>2, <2>6 DEF IInv
<1> QED BY <1>1, <1>5, <1>6

LEMMA CompleteStep ==
  ASSUME IInv, Complete
  PROVE  IInv'
<1>1. /\ result = "running" /\ result' = "completed"
      /\ todo' = {} /\ promoted' = {} /\ current' = NoModule
      /\ UNCHANGED <<plan, todo, promoted, current, forceLive, pending, snapshots,
                     live, avail, verified, contexts, uses, consumed, adopted, count>>
  BY DEF Complete, lookupVars, producerVars
<1>2. Running
  BY <1>1 DEF IInv, Running, Good
<1>3. GraphOK' /\ SelectionOK'
  BY <1>1, <1>2, PlanFixed DEF Running
<1>4. Selected' = Selected /\ Ordinary' = Ordinary
  BY <1>1 DEF Selected, Ordinary
<1>5. Books'
  BY <1>1, <1>2, <1>4 DEF Running, Good, Books
<1>6. Ledger'
  BY <1>1, <1>2, <1>4, LedgerNext DEF Running, Good, Ledger
<1>7. Counts'
  BY <1>1, <1>2 DEF Running, Counts
<1> QED BY <1>1, <1>2, <1>3, <1>5, <1>6, <1>7 DEF IInv, Running

\* A stuttering step.
LEMMA StutterStep ==
  ASSUME IInv, UNCHANGED vars
  PROVE  IInv'
<1>1. UNCHANGED <<plan, todo, promoted, current, forceLive, pending, snapshots,
                  live, avail, verified, contexts, uses, consumed, adopted, count, result>>
  BY DEF vars, lookupVars, producerVars
<1>2. CASE result = "stopped"
  <2>1. GraphOK'
    BY <1>1 DEF IInv, GraphOK
  <2>2. SelectionOK'
    <3>1. Selected' = Selected
      BY <1>1 DEF Selected
    <3> QED BY <1>1, <3>1, SMT DEF IInv, SelectionOK
  <2>3. SummaryConsistent'
    BY <1>1, <1>2 DEF IInv, SummaryConsistent
  <2> QED BY <1>1, <1>2, <2>1, <2>2, <2>3 DEF IInv
<1>3. CASE result # "stopped"
  <2>1. Good /\ Counts
    BY <1>3 DEF IInv, Good
  <2>2. GraphOK' /\ SelectionOK'
    BY <1>1, <2>1, PlanFixed
  <2>3. Selected' = Selected /\ Ordinary' = Ordinary
    BY <1>1 DEF Selected, Ordinary
  <2>4. Books'
    BY <1>1, <2>1, <2>3 DEF Good, Books
  <2>5. Ledger'
    BY <1>1, <2>1, <2>3, LedgerNext DEF Good, Ledger
  <2>6. Counts'
    BY <1>1, <2>1 DEF Counts
  <2> QED BY <1>1, <1>3, <2>2, <2>4, <2>5, <2>6 DEF IInv
<1> QED BY <1>2, <1>3

LEMMA InvariantStep ==
  ASSUME IInv, [Next]_vars
  PROVE  IInv'
<1>1. ASSUME NEW m \in Modules,
             \/ VisitPreTarget(m) \/ BuildPromoted(m) \/ VisitPostTarget(m)
             \/ AttemptTarget(m) \/ BuildTarget(m)
      PROVE  IInv'
  <2>1. result = "running" /\ result' = result
    BY <1>1 DEF VisitPreTarget, BuildPromoted, VisitPostTarget, AttemptTarget, BuildTarget, Reached
  <2>2. Running
    BY <2>1 DEF IInv, Running, Good
  <2>3. Running'
    BY <1>1, <2>2, VisitPreTargetStep, BuildPromotedStep, VisitPostTargetStep, AdoptStep,
       AttemptStep, BuildTargetStep
  <2> QED BY <2>1, <2>3 DEF IInv, Running, Good
<1> QED BY <1>1, RejectedStep, CompleteStep, StutterStep DEF Next

LEMMA InvariantInit == Init => IInv
<1> SUFFICES ASSUME Init PROVE IInv
  OBVIOUS
<1>0. PICK deps \in Graphs :
        \E closure \in {Closures(deps)} :
        \E targets \in SUBSET Modules, profile \in PackageProfiles :
          /\ plan = Plan(deps, closure, targets, profile) /\ todo = WithClosure(targets, closure)
          /\ forceLive = Plan(deps, closure, targets, profile).forced
  BY SMT DEF Init
<1>1. PICK closure \in {Closures(deps)}, targets \in SUBSET Modules, profile \in PackageProfiles :
        /\ plan = Plan(deps, closure, targets, profile) /\ todo = WithClosure(targets, closure)
        /\ forceLive = Plan(deps, closure, targets, profile).forced
  BY <1>0
<1>2. /\ result = "running" /\ promoted = {} /\ current = NoModule
      /\ pending = {} /\ snapshots = {} /\ live = {} /\ verified = {} /\ consumed = {}
      /\ avail = [m \in Modules |-> 0] /\ uses = [m \in Modules |-> 0]
      /\ contexts = [m \in Modules |-> "none"] /\ ~ adopted /\ count = NoCount
  BY SMT DEF Init
<1>3. IsClosure(deps, closure)
  BY ClosureExists
<1>4. GraphOK /\ SelectionOK /\ Selected = todo /\ plan.forced = forceLive
  BY <1>1, <1>3, PlanIsSound
<1>5. Ordinary = {}
  BY <1>2 DEF Ordinary
<1>6. Books
  <2>1. plan.forced \subseteq todo /\ plan.targets \subseteq todo
    BY <1>4 DEF SelectionOK, Selected
  <2> QED BY <1>2, <1>4, <1>5, <2>1 DEF Books
<1>7. Ledger
  BY <1>2, <1>5 DEF Ledger, UsesOK, ContextsOK, VerifiedOK, AvailOK
<1>8. count \in [Fields -> Nat]
  BY SMT, <1>2 DEF NoCount, Fields
<1>9. Counts
  <2>1. /\ plan.support \ todo = {} /\ plan.targets \ todo = {}
        /\ (plan.targets \cap plan.forced) \ todo = {}
        /\ plan.targets \cap consumed = {} /\ plan.support \cap consumed = {}
    BY <1>2, <1>4 DEF Selected
  <2>2. Cardinality({}) = 0
    BY FS_EmptySet
  <2>3. /\ count.visitedSupport = 0 /\ count.visitedTargets = 0 /\ count.forcedTargets = 0
        /\ count.completedSupport = 0 /\ count.completedTargets = 0 /\ count.liveChecks = 0
        /\ count.hits = 0 /\ count.bypassed = 0 /\ count.misses = 0 /\ count.classified = 0
        /\ count.ineligible = 0 /\ count.written = 0
    BY SMT, <1>2 DEF NoCount
  <2>4. 0 + 0 = 0 /\ 0 <= 0
    BY SMT
  <2> QED BY <1>2, <2>1, <2>2, <2>3, <2>4 DEF Counts
<1> QED BY <1>2, <1>4, <1>6, <1>7, <1>8, <1>9 DEF IInv

-----------------------------------------------------------------------------
(* The books, the ledger and the counters always agree with each other, as     *)
(* long as the command has not been stopped by a rejected module.              *)
THEOREM TargetedInvariant == Spec => []IInv
<1>1. Init => IInv
  BY InvariantInit
<1>2. IInv /\ [Next]_vars => IInv'
  BY InvariantStep
<1> QED BY <1>1, <1>2, PTL DEF Spec

(* No `targeted_authoring_plan_invalid` answer: every import, context, ledger  *)
(* entry and snapshot that a step of the targeted build asks for is there,     *)
(* whatever the support store answered.                                        *)
THEOREM PlanAlwaysHolds == Spec => []PlanHolds
<1>1. IInv => PlanHolds
  BY PlanIsKept
<1> QED BY <1>1, TargetedInvariant, PTL

(* The lifetime ledger releases a module with its last consumer, no earlier    *)
(* and no later.                                                               *)
THEOREM RetentionIsExact == Spec => []RetainedWhileNeeded
<1>1. IInv => RetainedWhileNeeded
  BY RetentionIsKept
<1> QED BY <1>1, TargetedInvariant, PTL

(* TargetedAuthoringCheckSummary::validate accepts the summary of every        *)
(* command, completed or stopped.                                              *)
THEOREM SummaryAlwaysValid == Spec => []SummaryConsistent
<1>1. IInv => SummaryConsistent
  BY SummaryIsKept
<1> QED BY <1>1, TargetedInvariant, PTL
=============================================================================
