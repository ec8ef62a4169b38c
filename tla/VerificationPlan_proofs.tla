----------------------- MODULE VerificationPlan_proofs -----------------------
(***************************************************************************)
(* Proofs about LockGraph and VerificationPlan, for every lock, selection  *)
(* and set of cache hits.  The first half is about the index that          *)
(* LockGraph builds; what the plan reads of it is what that half           *)
(* establishes.                                                            *)
(***************************************************************************)
EXTENDS VerificationPlan, SequenceTheorems, FiniteSetTheorems, WellFoundedInduction, TLAPS

USE Zenon

\* A set of naturals has a least element.
LEMMA LeastNatural ==
  ASSUME NEW T, T \subseteq Nat, T # {}
  PROVE  \E x \in T : \A y \in T : x <= y
<1>1. PICK R : /\ IsWellFoundedOn(R, Nat)
               /\ \A x, y \in Nat : <<y, x>> \in R <=> y < x
  <2>1. IsWellFoundedOn(OpToRel(<, Nat), Nat)
    BY NatLessThanWellFounded
  <2>2. \A x, y \in Nat : <<y, x>> \in OpToRel(<, Nat) <=> y < x
    BY DEF OpToRel
  <2> WITNESS OpToRel(<, Nat)
  <2> QED BY <2>1, <2>2
<1>2. PICK x \in T : \A y \in T : ~ (<<y, x>> \in R)
  BY <1>1, WFMin
<1>3. ASSUME NEW y \in T PROVE x <= y
  <2>1. x \in Nat /\ y \in Nat
    OBVIOUS
  <2>2. ~ (y < x)
    BY <1>1, <1>2, <2>1
  <2> QED BY SMT, <2>1, <2>2
<1> QED BY <1>3

\* What the CHOOSE of Least picks.
LEMMA LeastIn ==
  ASSUME NEW T, T \subseteq Nat, T # {}
  PROVE  Least(T) \in T
BY LeastNatural DEF Least

States == {"unvisited", "visiting", "visited"}

\* The entries on stack fr are the ones being visited according to st, each once,
\* and each was reached by an import of the one below it.
Stack(im, fr, st) ==
  /\ \A k \in 1..Len(fr) : st[fr[k].entry] = "visiting"
  /\ \A j, k \in 1..Len(fr) : fr[j].entry = fr[k].entry => j = k
  /\ \A e \in Entries : st[e] = "visiting" => \E k \in 1..Len(fr) : fr[k].entry = e
  /\ \A k \in 1..Len(fr) : fr[k].rest \subseteq im[fr[k].entry]
  /\ \A k \in 1..(Len(fr) - 1) : fr[k + 1].entry \in im[fr[k].entry]

\* An import that was looked at is visited, or is the next entry of the stack.
Seen(im, fr, st) ==
  \A k \in 1..Len(fr) : \A d \in im[fr[k].entry] \ fr[k].rest :
    st[d] = "visited" \/ (k < Len(fr) /\ d = fr[k + 1].entry)

\* The order holds the visited entries, each once, each after its imports.
Ordered(im, st, ord) ==
  /\ \A k \in 1..Len(ord) : st[ord[k]] = "visited"
  /\ \A e \in Entries : st[e] = "visited" => \E k \in 1..Len(ord) : ord[k] = e
  /\ \A j, k \in 1..Len(ord) : ord[j] = ord[k] => j = k
  /\ \A k \in 1..Len(ord) : \A d \in im[ord[k]] : \E j \in 1..(k - 1) : ord[j] = d

\* What each phase has established.
PhaseOK ==
  /\ phase = "resolve" => frames = <<>>
  /\ phase # "rejected" => reason = "none"
  /\ phase \notin {"resolve", "rejected"} => BadEntries = {}
  /\ phase \in {"index", "indexed"} => \A e \in Entries : states[e] = "visited"
  /\ phase = "rejected" => BadEntries # {} \/ reason = "import_cycle"

IInv ==
  /\ TypeOK
  /\ Stack(lock.imports, frames, states)
  /\ phase = "visit" => Seen(lock.imports, frames, states)
  /\ Ordered(lock.imports, states, order)
  /\ PhaseOK /\ CycleIsReal /\ IndexHolds

\* TypeOK puts the lock among the ones validated.
LEMMA LockTyped == ASSUME TypeOK PROVE lock \in LockType
BY LockAssumption DEF TypeOK

\* Once every import has resolved, imports are entries.
LEMMA ResolvedImports ==
  ASSUME lock \in LockType, BadEntries = {}, NEW e \in Entries
  PROVE  Imports(e) \subseteq Entries
<1>1. Imports(e) \subseteq Names
  BY DEF Imports, LockType
<1>2. Absent \notin Imports(e)
  BY DEF BadEntries, BadImports, ImportError
<1> QED BY <1>1, <1>2 DEF Names

\* The inductive invariant holds before the first step.
LEMMA InitIInv == Init => IInv
BY SMT, LockAssumption DEF Init, IInv, TypeOK, Stack, Seen, Ordered, PhaseOK, Frames,
   CycleIsReal, IndexHolds, Reasons

\* What was wrong with a lock stays so.
LEMMA SameLock ==
  ASSUME lock' = lock
  PROVE  BadEntries' = BadEntries
BY DEF BadEntries, BadImports, ImportError, Imports

\* The first bad import is one.
LEMMA FirstBadImport ==
  ASSUME lock \in LockType, BadEntries # {}
  PROVE  LET e == Least(BadEntries)
         IN ImportError(e, Least(BadImports(e))) \in Reasons \ {"none", "import_cycle"}
<1> DEFINE e == Least(BadEntries)
<1>0. BadEntries \subseteq Nat
  BY SMT, LockAssumption DEF BadEntries, Entries
<1>1. e \in BadEntries
  BY <1>0, LeastIn
<1>2. BadImports(e) # {} /\ e \in Entries
  BY <1>1 DEF BadEntries
<1>3. BadImports(e) \subseteq Nat
  BY SMT, <1>2, LockAssumption DEF BadImports, Imports, LockType, Names, Absent, Entries
<1>4. Least(BadImports(e)) \in BadImports(e)
  BY <1>2, <1>3, LeastIn
<1> HIDE DEF e
<1>5. ImportError(e, Least(BadImports(e))) # "none"
  BY <1>4 DEF BadImports
<1>6. ImportError(e, Least(BadImports(e))) \in Reasons \ {"import_cycle"}
  BY DEF ImportError, Reasons
<1>7. ImportError(e, Least(BadImports(e))) \in Reasons \ {"none", "import_cycle"}
  BY <1>5, <1>6
<1> QED BY <1>7 DEF e

\* Resolving either accepts every import or names the first bad one.
LEMMA ResolveIInv == ASSUME IInv, Resolve PROVE IInv'
<1>1. /\ UNCHANGED <<lock, states, frames, order, cycle>>
      /\ phase = "resolve"
  BY DEF Resolve
<1>2. \/ BadEntries = {} /\ phase' = "visit" /\ reason' = reason
      \/ /\ BadEntries # {} /\ phase' = "rejected"
         /\ reason' \in Reasons \ {"none", "import_cycle"}
  BY FirstBadImport, LockTyped DEF Resolve, IInv
<1>3. BadEntries' = BadEntries
  BY <1>1, SameLock
<1>4. TypeOK'
  BY <1>1, <1>2 DEF IInv, TypeOK
<1>5. Seen(lock.imports, frames, states)
  BY SMT, <1>1 DEF IInv, PhaseOK, Seen
<1>6. PhaseOK' /\ CycleIsReal' /\ IndexHolds'
  BY <1>1, <1>2, <1>3 DEF IInv, PhaseOK, CycleIsReal, IndexHolds
<1> QED BY <1>1, <1>4, <1>5, <1>6 DEF IInv

\* During the visit imports are entries.
LEMMA VisitTyped ==
  ASSUME IInv, phase = "visit"
  PROVE  /\ lock.imports \in [Entries -> SUBSET Entries]
         /\ frames \in Seq(Frames)
         /\ states \in [Entries -> States]
         /\ order \in Seq(Entries)
         /\ Seen(lock.imports, frames, states)
<1>1. \A e \in Entries : lock.imports[e] \subseteq Entries
  BY ResolvedImports, LockTyped DEF IInv, PhaseOK, Imports
<1>2. lock.imports \in [Entries -> SUBSET Names]
  BY LockTyped DEF IInv, LockType
<1> QED BY <1>1, <1>2 DEF IInv, TypeOK, States

\* fr2 is fr with entry e, which the top entry imports, taken from the top frame
\* and pushed.
Pushed(im, fr, fr2, n, e) ==
  /\ Len(fr) = n /\ Len(fr2) = n + 1
  /\ \A k \in 1..n : fr[k].entry \in Entries
  /\ \A k \in 1..n : fr2[k].entry = fr[k].entry
  /\ \A k \in 1..n : fr2[k].rest = IF k = n THEN fr[k].rest \ {e} ELSE fr[k].rest
  /\ fr2[n + 1].entry = e /\ fr2[n + 1].rest = im[e]
  /\ n > 0 => e \in im[fr[n].entry]

\* A frame is pushed for an unvisited entry e.
LEMMA PushFrame ==
  ASSUME NEW im \in [Entries -> SUBSET Entries], NEW st \in [Entries -> States],
         NEW n \in Nat, NEW fr, NEW fr2, NEW e \in Entries,
         Pushed(im, fr, fr2, n, e), st[e] = "unvisited",
         Stack(im, fr, st), Seen(im, fr, st)
  PROVE  /\ Stack(im, fr2, [st EXCEPT ![e] = "visiting"])
         /\ Seen(im, fr2, [st EXCEPT ![e] = "visiting"])
<1> USE DEF Pushed
<1> DEFINE st2 == [st EXCEPT ![e] = "visiting"]
<1>1. \A x \in Entries : st2[x] = IF x = e THEN "visiting" ELSE st[x]
  OBVIOUS
<1> HIDE DEF st2
<1>2. \A k \in 1..n : st[fr[k].entry] = "visiting" /\ fr[k].entry # e
  BY DEF Stack
<1>3. \A k \in 1..(n + 1) : st2[fr2[k].entry] = "visiting"
  BY SMT, <1>1, <1>2
<1>4. \A j, k \in 1..(n + 1) : fr2[j].entry = fr2[k].entry => j = k
  <2>1. \A k \in 1..(n + 1) : k \in 1..n \/ k = n + 1
    BY SMT
  <2>2. \A j, k \in 1..n : fr[j].entry = fr[k].entry => j = k
    BY DEF Stack
  <2>3. \A k \in 1..n : fr2[k].entry = fr[k].entry /\ fr2[k].entry # e
    BY <1>2
  <2>4. fr2[n + 1].entry = e
    OBVIOUS
  <2> HIDE DEF Pushed
  <2> QED BY <2>1, <2>2, <2>3, <2>4
<1>5. \A x \in Entries : st2[x] = "visiting" => \E k \in 1..(n + 1) : fr2[k].entry = x
  <2> SUFFICES ASSUME NEW x \in Entries, st2[x] = "visiting"
               PROVE  \E k \in 1..(n + 1) : fr2[k].entry = x
    OBVIOUS
  <2>1. CASE x = e
    <3>1. n + 1 \in 1..(n + 1)
      BY SMT
    <3> QED BY <2>1, <3>1
  <2>2. CASE x # e
    <3>1. PICK k \in 1..n : fr[k].entry = x
      BY SMT, <1>1, <2>2 DEF Stack
    <3> QED BY SMT, <3>1
  <2> QED BY <2>1, <2>2
<1>6. \A k \in 1..(n + 1) : fr2[k].rest \subseteq im[fr2[k].entry]
  <2> SUFFICES ASSUME NEW k \in 1..(n + 1)
               PROVE  fr2[k].rest \subseteq im[fr2[k].entry]
    OBVIOUS
  <2>1. CASE k = n + 1
    BY <2>1
  <2>2. CASE k \in 1..n
    <3>1. fr[k].rest \subseteq im[fr[k].entry]
      BY <2>2 DEF Stack
    <3>2. fr2[k].rest \subseteq fr[k].rest
      BY <2>2
    <3>3. fr2[k].entry = fr[k].entry
      BY <2>2
    <3> QED BY <3>1, <3>2, <3>3
  <2> QED BY SMT, <2>1, <2>2
<1>7. \A k \in 1..n : fr2[k + 1].entry \in im[fr2[k].entry]
  BY SMT DEF Stack
<1>8. Stack(im, fr2, st2)
  BY SMT, <1>3, <1>4, <1>5, <1>6, <1>7 DEF Stack
<1>9. Seen(im, fr2, st2)
  <2> SUFFICES ASSUME NEW k \in 1..(n + 1), NEW d \in im[fr2[k].entry] \ fr2[k].rest
               PROVE  st2[d] = "visited" \/ (k < n + 1 /\ d = fr2[k + 1].entry)
    BY DEF Seen
  <2>1. k \in 1..n /\ d \in Entries
    BY SMT
  <2>2. CASE d \notin fr[k].rest
    <3>1. st[d] = "visited" \/ (k < n /\ d = fr[k + 1].entry)
      BY <2>1, <2>2 DEF Seen
    <3> QED BY SMT, <1>1, <2>1, <3>1
  <2>3. CASE d \in fr[k].rest
    <3>1. k = n /\ d = e
      BY <2>1, <2>3
    <3> QED BY SMT, <3>1
  <2> QED BY <2>2, <2>3
<1> QED BY <1>8, <1>9 DEF st2

\* The top frame has nothing left to look at: its imports are visited, and it
\* leaves the stack.
LEMMA PopFrame ==
  ASSUME NEW im \in [Entries -> SUBSET Entries], NEW st \in [Entries -> States],
         NEW fr \in Seq(Frames), fr # <<>>, NEW e, e = fr[Len(fr)].entry,
         fr[Len(fr)].rest = {},
         Stack(im, fr, st), Seen(im, fr, st)
  PROVE  /\ \A d \in im[e] : st[d] = "visited"
         /\ SubSeq(fr, 1, Len(fr) - 1) \in Seq(Frames)
         /\ Stack(im, SubSeq(fr, 1, Len(fr) - 1), [st EXCEPT ![e] = "visited"])
         /\ Seen(im, SubSeq(fr, 1, Len(fr) - 1), [st EXCEPT ![e] = "visited"])
<1> DEFINE n == Len(fr)
           fr2 == SubSeq(fr, 1, n - 1)
<1>a. /\ n \in Nat \ {0}
      /\ \A k \in 1..n : fr[k] \in Frames
  BY SMT
<1>b. e \in Entries /\ \A k \in 1..n : fr[k].entry \in Entries
  BY SMT, <1>a DEF Frames
<1>c. /\ fr2 \in Seq(Frames)
      /\ Len(fr2) = n - 1
      /\ \A k \in 1..(n - 1) : fr2[k] = fr[k]
  <2> HIDE DEF n
  <2>1. n - 1 \in Nat /\ 1 \in Int /\ n - 1 \in Int
    BY SMT, <1>a
  <2>2. \A k \in 1..(n - 1) : fr[k] \in Frames
    BY SMT, <1>a
  <2>3. /\ SubSeq(fr, 1, n - 1) \in Seq(Frames)
        /\ Len(SubSeq(fr, 1, n - 1)) = IF 1 <= n - 1 THEN n - 1 - 1 + 1 ELSE 0
        /\ \A k \in 1..(n - 1 - 1 + 1) : SubSeq(fr, 1, n - 1)[k] = fr[1 + k - 1]
    BY SMT, <2>1, <2>2, SubSeqProperties
  <2> QED BY SMT, <1>a, <2>1, <2>3
<1>d. fr[n].entry = e /\ fr[n].rest = {}
  OBVIOUS
<1>e. Len(fr) = n
  OBVIOUS
<1> USE <1>a, <1>b, <1>c, <1>d, <1>e
<1> HIDE DEF n, fr2
<1> DEFINE st2 == [st EXCEPT ![e] = "visited"]
<1>1. \A x \in Entries : st2[x] = IF x = e THEN "visited" ELSE st[x]
  OBVIOUS
<1> HIDE DEF st2
<1>2. n \in 1..n /\ \A k \in 1..(n - 1) : k \in 1..n /\ k + 1 \in 1..n
  BY SMT
<1>3. \A d \in im[e] : st[d] = "visited"
  BY SMT, <1>2 DEF Seen
<1>4. \A k \in 1..(n - 1) : fr[k].entry # e
  BY SMT, <1>2 DEF Stack
<1>5. \A k \in 1..(n - 1) : st2[fr2[k].entry] = "visiting"
  BY SMT, <1>1, <1>2, <1>4 DEF Stack
<1>6. \A x \in Entries : st2[x] = "visiting" => \E k \in 1..(n - 1) : fr2[k].entry = x
  <2> SUFFICES ASSUME NEW x \in Entries, st2[x] = "visiting"
               PROVE  \E k \in 1..(n - 1) : fr2[k].entry = x
    OBVIOUS
  <2>1. x # e /\ st[x] = "visiting"
    BY <1>1
  <2>2. PICK k \in 1..n : fr[k].entry = x
    BY <2>1 DEF Stack
  <2>3. k \in 1..(n - 1)
    BY SMT, <2>1, <2>2
  <2> QED BY <2>2, <2>3
<1>7. Stack(im, fr2, st2)
  <2>1. \A j, k \in 1..(n - 1) : fr2[j].entry = fr2[k].entry => j = k
    BY SMT, <1>2 DEF Stack
  <2>2. \A k \in 1..(n - 1) : fr2[k].rest \subseteq im[fr2[k].entry]
    BY <1>2 DEF Stack
  <2>3. \A k \in 1..(n - 2) : fr2[k + 1].entry \in im[fr2[k].entry]
    BY SMT, <1>2 DEF Stack
  <2>4. n - 1 - 1 = n - 2
    BY SMT
  <2> QED BY SMT, <1>5, <1>6, <2>1, <2>2, <2>3, <2>4 DEF Stack
<1>8. Seen(im, fr2, st2)
  <2> SUFFICES ASSUME NEW k \in 1..(n - 1), NEW d \in im[fr2[k].entry] \ fr2[k].rest
               PROVE  st2[d] = "visited" \/ (k < n - 1 /\ d = fr2[k + 1].entry)
    BY DEF Seen
  <2>1. d \in Entries /\ d \in im[fr[k].entry] \ fr[k].rest
    BY <1>2
  <2>2. st[d] = "visited" \/ d = fr[k + 1].entry
    BY <1>2, <2>1 DEF Seen
  <2>3. CASE k = n - 1
    BY SMT, <1>1, <2>1, <2>2, <2>3
  <2>4. CASE k < n - 1
    BY SMT, <1>1, <2>1, <2>2, <2>4
  <2> QED BY SMT, <2>3, <2>4
<1> QED BY <1>3, <1>7, <1>8 DEF st2, fr2, n

\* Import i of the top entry has been looked at; the stack is still one, and a
\* visited import needs no frame.
LEMMA SkipImport ==
  ASSUME NEW im \in [Entries -> SUBSET Entries], NEW st \in [Entries -> States],
         NEW fr \in Seq(Frames), fr # <<>>, NEW i \in Entries,
         NEW fr2 \in Seq(Frames), Len(fr2) = Len(fr),
         \A k \in 1..Len(fr) : fr2[k].entry = fr[k].entry,
         \A k \in 1..Len(fr) : fr2[k].rest = IF k = Len(fr) THEN fr[k].rest \ {i}
                                                            ELSE fr[k].rest,
         Stack(im, fr, st), Seen(im, fr, st)
  PROVE  /\ Stack(im, fr2, st)
         /\ st[i] = "visited" => Seen(im, fr2, st)
<1> DEFINE n == Len(fr)
<1>a. n \in Nat \ {0} /\ \A k \in 1..n : fr[k] \in Frames
  BY SMT
<1>b. \A k \in 1..n : fr[k].entry \in Entries
  BY <1>a DEF Frames
<1>c. Len(fr) = n /\ Len(fr2) = n
  OBVIOUS
<1> HIDE DEF n
<1> USE <1>a, <1>b, <1>c
<1>1. \A k \in 1..n : fr2[k].rest \subseteq fr[k].rest
  OBVIOUS
<1>2. \A k \in 1..n : fr2[k].rest \subseteq im[fr2[k].entry]
  BY <1>1 DEF Stack
<1>3. \A k \in 1..(n - 1) : fr2[k + 1].entry \in im[fr2[k].entry]
  <2> SUFFICES ASSUME NEW k \in 1..(n - 1) PROVE fr2[k + 1].entry \in im[fr2[k].entry]
    OBVIOUS
  <2>1. k \in 1..n /\ k + 1 \in 1..n
    BY SMT
  <2> QED BY <2>1 DEF Stack
<1>4. Stack(im, fr2, st)
  BY <1>2, <1>3 DEF Stack
<1>5. ASSUME st[i] = "visited" PROVE Seen(im, fr2, st)
  <2> SUFFICES ASSUME NEW k \in 1..n, NEW d \in im[fr2[k].entry] \ fr2[k].rest
               PROVE  st[d] = "visited" \/ (k < n /\ d = fr2[k + 1].entry)
    BY DEF Seen
  <2>1. CASE d \in fr[k].rest
    BY <1>5, <2>1
  <2>2. CASE d \notin fr[k].rest
    <3>1. st[d] = "visited" \/ (k < n /\ d = fr[k + 1].entry)
      BY <2>2 DEF Seen
    <3>2. k < n => k + 1 \in 1..n
      BY SMT
    <3> QED BY <3>1, <3>2
  <2> QED BY <2>1, <2>2
<1> QED BY <1>4, <1>5

\* An entry whose imports are in the order is appended to it.
LEMMA AppendOrder ==
  ASSUME NEW im \in [Entries -> SUBSET Entries], NEW st \in [Entries -> States],
         NEW ord \in Seq(Entries), NEW e \in Entries,
         st[e] # "visited", \A d \in im[e] : st[d] = "visited",
         Ordered(im, st, ord)
  PROVE  Ordered(im, [st EXCEPT ![e] = "visited"], Append(ord, e))
<1> DEFINE st2 == [st EXCEPT ![e] = "visited"]
           ord2 == Append(ord, e)
           m == Len(ord)
<1>1. \A x \in Entries : st2[x] = IF x = e THEN "visited" ELSE st[x]
  OBVIOUS
<1>2. /\ m \in Nat /\ Len(ord2) = m + 1
      /\ \A k \in 1..m : ord2[k] = ord[k]
      /\ ord2[m + 1] = e
  BY SMT, AppendProperties
<1>3. \A k \in 1..m : ord[k] \in Entries
  BY SMT
<1> HIDE DEF st2, ord2
<1>4. \A k \in 1..m : ord[k] # e
  BY DEF Ordered
<1>5. \A k \in 1..(m + 1) : k \in 1..m \/ k = m + 1
  BY SMT, <1>2
<1>6. \A k \in 1..(m + 1) : st2[ord2[k]] = "visited"
  BY SMT, <1>1, <1>2, <1>3, <1>5 DEF Ordered
<1>7. \A x \in Entries : st2[x] = "visited" => \E k \in 1..(m + 1) : ord2[k] = x
  <2> SUFFICES ASSUME NEW x \in Entries, st2[x] = "visited"
               PROVE  \E k \in 1..(m + 1) : ord2[k] = x
    OBVIOUS
  <2>1. CASE x = e
    BY SMT, <1>2, <2>1
  <2>2. CASE x # e
    <3>1. PICK k \in 1..m : ord[k] = x
      BY <1>1, <2>2 DEF Ordered
    <3> QED BY SMT, <1>2, <3>1
  <2> QED BY <2>1, <2>2
<1>8. \A j, k \in 1..(m + 1) : ord2[j] = ord2[k] => j = k
  BY SMT, <1>2, <1>4, <1>5 DEF Ordered
<1>9. \A k \in 1..(m + 1) : \A d \in im[ord2[k]] : \E j \in 1..(k - 1) : ord2[j] = d
  <2> SUFFICES ASSUME NEW k \in 1..(m + 1), NEW d \in im[ord2[k]]
               PROVE  \E j \in 1..(k - 1) : ord2[j] = d
    OBVIOUS
  <2>1. CASE k = m + 1
    <3>1. d \in Entries /\ st[d] = "visited"
      BY <1>2, <2>1
    <3>2. PICK j \in 1..m : ord[j] = d
      BY <3>1 DEF Ordered
    <3> QED BY SMT, <1>2, <2>1, <3>2
  <2>2. CASE k \in 1..m
    <3>1. PICK j \in 1..(k - 1) : ord[j] = d
      BY SMT, <1>2, <2>2 DEF Ordered
    <3> QED BY SMT, <1>2, <2>2, <3>1
  <2> QED BY <1>5, <2>1, <2>2
<1>10. Ordered(im, st2, ord2)
  BY <1>2, <1>6, <1>7, <1>8, <1>9 DEF Ordered
<1> QED BY <1>10 DEF st2, ord2

\* Starting to visit an entry leaves the order alone.
LEMMA KeepOrder ==
  ASSUME NEW im, NEW st \in [Entries -> States], NEW ord \in Seq(Entries),
         NEW e \in Entries, st[e] = "unvisited", Ordered(im, st, ord)
  PROVE  Ordered(im, [st EXCEPT ![e] = "visiting"], ord)
<1> DEFINE st2 == [st EXCEPT ![e] = "visiting"]
<1>1. \A x \in Entries : st2[x] = IF x = e THEN "visiting" ELSE st[x]
  OBVIOUS
<1>2. \A k \in 1..Len(ord) : ord[k] \in Entries
  BY SMT
<1> HIDE DEF st2
<1>3. Ordered(im, st2, ord)
  BY <1>1, <1>2 DEF Ordered
<1> QED BY <1>3 DEF st2

\* A new root: nothing is being visited, so its frame is the whole stack.
LEMMA StartVisitIInv == ASSUME IInv, StartVisit PROVE IInv'
<1> DEFINE e == Least(Unvisited)
<1>1. e \in Unvisited
  BY SMT, LeastIn, LockAssumption DEF StartVisit, Unvisited, Entries
<1> HIDE DEF e
<1>2. /\ e \in Entries /\ states[e] = "unvisited"
      /\ phase = "visit" /\ frames = <<>>
      /\ states' = [states EXCEPT ![e] = "visiting"]
      /\ frames' = <<Frame(e)>>
      /\ UNCHANGED <<lock, phase, reason, order, cycle>>
  BY <1>1 DEF StartVisit, Unvisited, e
<1>3. /\ lock.imports \in [Entries -> SUBSET Entries]
      /\ states \in [Entries -> States]
      /\ order \in Seq(Entries)
      /\ Seen(lock.imports, frames, states)
  BY <1>2, VisitTyped
<1>4. /\ Len(frames') = 1 /\ Len(frames) = 0
      /\ frames'[1].entry = e /\ frames'[1].rest = lock.imports[e]
      /\ Frame(e) \in Frames
  BY <1>2, <1>3 DEF Frame, Imports, Frames
<1>5. frames' \in Seq(Frames)
  BY SMT, <1>2, <1>4
<1>6. Stack(lock.imports, frames', states') /\ Seen(lock.imports, frames', states')
  <2>1. /\ Stack(lock.imports, frames, states)
        /\ 0 \in Nat /\ 0 + 1 = 1 /\ ~ (0 > 0)
        /\ \A k \in 1..0 : FALSE
    BY SMT DEF IInv
  <2>2. Pushed(lock.imports, frames, frames', 0, e)
    BY <1>4, <2>1 DEF Pushed
  <2>3. /\ Stack(lock.imports, frames', [states EXCEPT ![e] = "visiting"])
        /\ Seen(lock.imports, frames', [states EXCEPT ![e] = "visiting"])
    BY <1>2, <1>3, <2>1, <2>2, PushFrame
  <2> QED BY <1>2, <2>3
<1>7. Ordered(lock.imports, states', order)
  BY <1>2, <1>3, KeepOrder DEF IInv
<1>8. TypeOK'
  BY <1>2, <1>3, <1>5 DEF IInv, TypeOK, States
<1>9. PhaseOK' /\ CycleIsReal' /\ IndexHolds'
  BY <1>2, SameLock DEF IInv, PhaseOK, CycleIsReal, IndexHolds
<1> QED BY <1>2, <1>6, <1>7, <1>8, <1>9 DEF IInv

\* With an empty stack and nothing unvisited, everything is visited.
LEMMA EndVisitIInv == ASSUME IInv, EndVisit PROVE IInv'
<1>1. /\ phase = "visit" /\ phase' = "index" /\ frames = <<>> /\ Unvisited = {}
      /\ UNCHANGED <<lock, reason, states, frames, order, cycle>>
  BY DEF EndVisit
<1>2. \A e \in Entries : states[e] = "visited"
  BY SMT, <1>1 DEF IInv, TypeOK, Stack, Unvisited
<1>3. TypeOK'
  BY <1>1 DEF IInv, TypeOK
<1>4. PhaseOK' /\ CycleIsReal' /\ IndexHolds'
  BY <1>1, <1>2, SameLock DEF IInv, PhaseOK, CycleIsReal, IndexHolds
<1> QED BY <1>1, <1>3, <1>4 DEF IInv

\* The top of a stack that is not empty.
LEMMA TopFrame ==
  ASSUME IInv, frames # <<>>
  PROVE  /\ Len(frames) \in Nat \ {0}
         /\ \A k \in 1..Len(frames) : frames[k] \in Frames /\ frames[k].entry \in Entries
         /\ Top = frames[Len(frames)]
         /\ Top.entry \in Entries /\ Top.rest \subseteq Entries
         /\ states[Top.entry] = "visiting"
<1>1. frames \in Seq(Frames)
  BY DEF IInv, TypeOK
<1>2. Len(frames) \in Nat \ {0}
  BY SMT, <1>1
<1>3. \A k \in 1..Len(frames) : frames[k] \in Frames
  BY SMT, <1>1
<1>4. \A k \in 1..Len(frames) : frames[k].entry \in Entries /\ frames[k].rest \subseteq Entries
  BY <1>3 DEF Frames
<1> QED BY SMT, <1>2, <1>3, <1>4 DEF Top, IInv, Stack

\* The finished entry leaves the stack and enters the order after its imports.
LEMMA FinishIInv == ASSUME IInv, Finish PROVE IInv'
<1> DEFINE e == Top.entry
<1>1. /\ phase = "visit" /\ frames # <<>> /\ Top.rest = {}
      /\ frames' = SubSeq(frames, 1, Len(frames) - 1)
      /\ states' = [states EXCEPT ![e] = "visited"]
      /\ order' = Append(order, e)
      /\ UNCHANGED <<lock, phase, reason, cycle>>
  BY DEF Finish
<1>2. /\ e = frames[Len(frames)].entry /\ frames[Len(frames)].rest = {}
      /\ e \in Entries /\ states[e] = "visiting"
  BY <1>1, TopFrame
<1>3. /\ lock.imports \in [Entries -> SUBSET Entries]
      /\ states \in [Entries -> States]
      /\ frames \in Seq(Frames)
      /\ order \in Seq(Entries)
      /\ Stack(lock.imports, frames, states)
      /\ Seen(lock.imports, frames, states)
  BY <1>1, VisitTyped DEF IInv
<1> HIDE DEF e
<1>5. /\ \A d \in lock.imports[e] : states[d] = "visited"
      /\ frames' \in Seq(Frames)
      /\ Stack(lock.imports, frames', states')
      /\ Seen(lock.imports, frames', states')
  BY <1>1, <1>2, <1>3, PopFrame
<1>6. Ordered(lock.imports, states', order')
  BY <1>1, <1>2, <1>3, <1>5, AppendOrder DEF IInv
<1>7. TypeOK'
  BY SMT, <1>1, <1>2, <1>3, <1>5 DEF IInv, TypeOK, States
<1>8. PhaseOK' /\ CycleIsReal' /\ IndexHolds'
  BY <1>1, SameLock DEF IInv, PhaseOK, CycleIsReal, IndexHolds
<1> QED BY <1>1, <1>5, <1>6, <1>7, <1>8 DEF IInv

\* The first import that is left to look at.
LEMMA NextImport ==
  ASSUME IInv, phase = "visit", frames # <<>>, Top.rest # {}
  PROVE  /\ Least(Top.rest) \in Top.rest
         /\ Least(Top.rest) \in Entries
         /\ Least(Top.rest) \in lock.imports[Top.entry]
<1>1. Top.rest \subseteq Entries /\ Top = frames[Len(frames)] /\ Len(frames) \in Nat \ {0}
  BY TopFrame
<1>2. Least(Top.rest) \in Top.rest
  BY SMT, <1>1, LeastIn, LockAssumption DEF Entries
<1>3. Top.rest \subseteq lock.imports[Top.entry]
  BY SMT, <1>1 DEF IInv, Stack
<1> QED BY <1>1, <1>2, <1>3

\* Moving past an import changes nothing but the rest of the top frame.
LEMMA LookedFrames ==
  ASSUME IInv, phase = "visit", frames # <<>>, NEW i
  PROVE  /\ Looked(i) \in Seq(Frames)
         /\ Len(Looked(i)) = Len(frames)
         /\ \A k \in 1..Len(frames) :
              /\ Looked(i)[k].entry = frames[k].entry
              /\ Looked(i)[k].rest = IF k = Len(frames) THEN frames[k].rest \ {i}
                                                        ELSE frames[k].rest
<1> DEFINE n == Len(frames)
           f == [frames[n] EXCEPT !.rest = @ \ {i}]
<1>1. /\ n \in Nat \ {0} /\ frames \in Seq(Frames)
      /\ \A k \in 1..n : frames[k] \in Frames
  BY TopFrame, VisitTyped
<1>2. /\ f \in Frames
      /\ f.entry = frames[n].entry /\ f.rest = frames[n].rest \ {i}
  BY SMT, <1>1 DEF Frames
<1>3. Looked(i) = [frames EXCEPT ![n] = f]
  BY DEF Looked
<1> HIDE DEF f, n
<1>4. n \in 1..n /\ n = Len(frames)
  BY SMT, <1>1 DEF n
<1>5. /\ [frames EXCEPT ![n] = f] \in Seq(Frames)
      /\ Len([frames EXCEPT ![n] = f]) = n
      /\ \A k \in 1..n : [frames EXCEPT ![n] = f][k] = IF k = n THEN f ELSE frames[k]
  BY SMT, <1>1, <1>2, <1>4
<1> QED BY <1>2, <1>3, <1>4, <1>5

\* The import is new: it gets a frame.
LEMMA VisitNewIInv ==
  ASSUME IInv, VisitImport, states[Least(Top.rest)] = "unvisited"
  PROVE  IInv'
<1> DEFINE i == Least(Top.rest)
           n == Len(frames)
<1>1. phase = "visit" /\ frames # <<>> /\ Top.rest # {}
  BY DEF VisitImport
<1>2. i \in Entries /\ i \in lock.imports[frames[n].entry]
  BY <1>1, NextImport, TopFrame
<1> HIDE DEF i
<1>3. /\ states' = [states EXCEPT ![i] = "visiting"]
      /\ frames' = Append(Looked(i), Frame(i))
      /\ UNCHANGED <<lock, phase, reason, order, cycle>>
      /\ states[i] = "unvisited"
  BY DEF VisitImport, i
<1>4. /\ lock.imports \in [Entries -> SUBSET Entries]
      /\ states \in [Entries -> States]
      /\ order \in Seq(Entries)
      /\ Seen(lock.imports, frames, states)
      /\ Stack(lock.imports, frames, states)
  BY <1>1, VisitTyped DEF IInv
<1>5. /\ n \in Nat /\ n > 0
      /\ \A k \in 1..n : frames[k].entry \in Entries
  BY SMT, <1>1, TopFrame
<1>6. /\ Frame(i) \in Frames /\ Frame(i).entry = i /\ Frame(i).rest = lock.imports[i]
  BY <1>2, <1>4 DEF Frame, Frames, Imports
<1>7. /\ Looked(i) \in Seq(Frames) /\ Len(Looked(i)) = n
      /\ \A k \in 1..n : /\ Looked(i)[k].entry = frames[k].entry
                         /\ Looked(i)[k].rest = IF k = n THEN frames[k].rest \ {i}
                                                         ELSE frames[k].rest
  BY <1>1, LookedFrames
<1>8. /\ frames' \in Seq(Frames) /\ Len(frames') = n + 1
      /\ \A k \in 1..n : frames'[k] = Looked(i)[k]
      /\ frames'[n + 1] = Frame(i)
  BY SMT, <1>3, <1>6, <1>7, AppendProperties
<1>9. /\ Stack(lock.imports, frames', [states EXCEPT ![i] = "visiting"])
      /\ Seen(lock.imports, frames', [states EXCEPT ![i] = "visiting"])
  <2> HIDE DEF n
  <2>1. Len(frames) = n
    BY DEF n
  <2>2. /\ \A k \in 1..n : frames'[k].entry = frames[k].entry
        /\ \A k \in 1..n : frames'[k].rest = IF k = n THEN frames[k].rest \ {i}
                                                      ELSE frames[k].rest
        /\ frames'[n + 1].entry = i /\ frames'[n + 1].rest = lock.imports[i]
    BY <1>6, <1>7, <1>8
  <2>3. Pushed(lock.imports, frames, frames', n, i)
    BY <1>2, <1>5, <1>8, <2>1, <2>2 DEF Pushed
  <2> QED BY <1>2, <1>3, <1>4, <1>5, <2>3, PushFrame
<1>10. Ordered(lock.imports, states', order)
  BY <1>2, <1>3, <1>4, KeepOrder DEF IInv
<1>11. TypeOK'
  BY <1>2, <1>3, <1>4, <1>8 DEF IInv, TypeOK, States
<1>12. PhaseOK' /\ CycleIsReal' /\ IndexHolds'
  BY <1>1, <1>3, SameLock DEF IInv, PhaseOK, CycleIsReal, IndexHolds
<1> QED BY <1>3, <1>9, <1>10, <1>11, <1>12 DEF IInv

\* The stack from an entry being visited on, and that entry again, is a cycle.
LEMMA CyclePathReal ==
  ASSUME NEW im \in [Entries -> SUBSET Entries], NEW st, NEW fr \in Seq(Frames),
         fr # <<>>, NEW i \in Entries, st[i] = "visiting", Stack(im, fr, st),
         i \in im[fr[Len(fr)].entry]
  PROVE  /\ CyclePath(fr, i) \in Seq(Entries)
         /\ Len(CyclePath(fr, i)) >= 2
         /\ CyclePath(fr, i)[1] = CyclePath(fr, i)[Len(CyclePath(fr, i))]
         /\ \A k \in 1..(Len(CyclePath(fr, i)) - 1) :
              CyclePath(fr, i)[k + 1] \in im[CyclePath(fr, i)[k]]
<1> DEFINE n == Len(fr)
           found == {k \in 1..n : fr[k].entry = i}
           start == IF found = {} THEN 1 ELSE CHOOSE k \in found : TRUE
           m == n - start + 1
           path == [k \in 1..m |-> fr[start + k - 1].entry]
<1>0. n \in Nat \ {0} /\ \A k \in 1..n : fr[k] \in Frames
  BY SMT
<1>1. /\ n \in Nat \ {0}
      /\ \A k \in 1..n : fr[k].entry \in Entries
  BY <1>0 DEF Frames
<1>2. start \in 1..n /\ fr[start].entry = i
  <2>1. found # {}
    BY DEF Stack
  <2> QED BY <2>1
<1>3. CyclePath(fr, i) = Append(path, i)
  BY DEF CyclePath
<1>4. \A k \in 1..(n - 1) : fr[k + 1].entry \in im[fr[k].entry]
  BY DEF Stack
<1>5. i \in im[fr[n].entry]
  OBVIOUS
<1> HIDE DEF n, start
<1>6. m \in Nat \ {0} /\ \A k \in 1..m : start + k - 1 \in 1..n
  BY SMT, <1>1, <1>2
<1>7. /\ path \in Seq(Entries) /\ Len(path) = m
      /\ \A k \in 1..m : path[k] = fr[start + k - 1].entry
  <2>1. \A k \in 1..m : fr[start + k - 1].entry \in Entries
    BY <1>1, <1>6
  <2> HIDE DEF m
  <2>2. path \in [1..m -> Entries] /\ m \in Nat
    BY <1>6, <2>1
  <2>3. \A k \in 1..m : path[k] = fr[start + k - 1].entry
    OBVIOUS
  <2> HIDE DEF path
  <2> QED BY SMT, <2>2, <2>3
<1> HIDE DEF path
<1>8. /\ Append(path, i) \in Seq(Entries)
      /\ Len(Append(path, i)) = m + 1
      /\ \A k \in 1..m : Append(path, i)[k] = path[k]
      /\ Append(path, i)[m + 1] = i
  BY SMT, <1>7, AppendProperties
<1>9. path[1] = i
  BY SMT, <1>1, <1>2, <1>6, <1>7
<1>10. ASSUME NEW k \in 1..m
       PROVE  Append(path, i)[k + 1] \in im[Append(path, i)[k]]
  <2>1. k \in Int /\ start \in Int /\ n \in Int
    BY SMT, <1>1, <1>2, <1>6
  <2>2. Append(path, i)[k] = fr[start + k - 1].entry
    BY <1>7, <1>8
  <2>3. CASE k = m
    <3>1. start + k - 1 = n /\ k + 1 = m + 1
      BY SMT, <2>1, <2>3
    <3> QED BY <1>5, <1>8, <2>2, <3>1
  <2>4. CASE k # m
    <3>1. k + 1 \in 1..m /\ start + (k + 1) - 1 = (start + k - 1) + 1
      BY SMT, <1>6, <2>1, <2>4
    <3>2. start + k - 1 \in 1..(n - 1)
      BY SMT, <1>1, <1>2, <1>6, <2>1, <2>4
    <3>3. Append(path, i)[k + 1] = fr[(start + k - 1) + 1].entry
      BY <1>7, <1>8, <3>1
    <3> QED BY <1>4, <2>2, <3>2, <3>3
  <2> QED BY <2>3, <2>4
<1> HIDE DEF m
<1>11. m \in Nat /\ m + 1 >= 2 /\ m + 1 - 1 = m /\ 1 \in 1..m
  BY SMT, <1>6
<1> DEFINE c == Append(path, i)
<1> HIDE DEF c
<1>12. /\ c \in Seq(Entries) /\ Len(c) = m + 1
       /\ c[1] = i /\ c[m + 1] = i
       /\ \A k \in 1..m : c[k + 1] \in im[c[k]]
  BY <1>8, <1>9, <1>10, <1>11 DEF c
<1>13. /\ Len(c) >= 2 /\ c[1] = c[Len(c)]
       /\ \A k \in 1..(Len(c) - 1) : c[k + 1] \in im[c[k]]
  BY SMT, <1>11, <1>12
<1>14. CyclePath(fr, i) = c
  BY <1>3 DEF c
<1> QED BY <1>12, <1>13, <1>14

\* The import is being visited, and closes a cycle, or has been visited.
LEMMA VisitOldIInv ==
  ASSUME IInv, VisitImport, states[Least(Top.rest)] # "unvisited"
  PROVE  IInv'
<1> DEFINE i == Least(Top.rest)
           n == Len(frames)
<1>1. phase = "visit" /\ frames # <<>> /\ Top.rest # {}
  BY DEF VisitImport
<1>2. i \in Entries /\ i \in lock.imports[frames[n].entry]
  BY <1>1, NextImport, TopFrame
<1> HIDE DEF i
<1>3. /\ frames' = Looked(i)
      /\ UNCHANGED <<lock, states, order>>
      /\ \/ /\ states[i] = "visiting"
            /\ phase' = "rejected" /\ reason' = "import_cycle"
            /\ cycle' = CyclePath(frames, i)
         \/ /\ states[i] = "visited"
            /\ UNCHANGED <<phase, reason, cycle>>
  BY DEF VisitImport, i
<1>4. /\ lock.imports \in [Entries -> SUBSET Entries]
      /\ states \in [Entries -> States]
      /\ frames \in Seq(Frames)
      /\ Seen(lock.imports, frames, states)
      /\ Stack(lock.imports, frames, states)
  BY <1>1, VisitTyped DEF IInv
<1>5. /\ n \in Nat /\ n > 0
      /\ \A k \in 1..n : frames[k].entry \in Entries
  BY SMT, <1>1, TopFrame
<1>6. /\ frames' \in Seq(Frames) /\ Len(frames') = n
      /\ \A k \in 1..n : frames'[k].entry = frames[k].entry
      /\ \A k \in 1..n : frames'[k].rest = IF k = n THEN frames[k].rest \ {i}
                                                    ELSE frames[k].rest
  BY <1>1, <1>3, LookedFrames
<1>7. /\ Stack(lock.imports, frames', states)
      /\ states[i] = "visited" => Seen(lock.imports, frames', states)
  BY <1>1, <1>2, <1>4, <1>6, SkipImport
<1>8. phase' = "visit" => Seen(lock.imports, frames', states)
  BY <1>3, <1>7
<1>9. CASE states[i] = "visited"
  <2>1. TypeOK'
    BY <1>3, <1>6, <1>9 DEF IInv, TypeOK
  <2>2. PhaseOK' /\ CycleIsReal' /\ IndexHolds'
    BY <1>1, <1>3, <1>9, SameLock DEF IInv, PhaseOK, CycleIsReal, IndexHolds
  <2> QED BY <1>3, <1>7, <1>8, <2>1, <2>2 DEF IInv
<1>10. CASE states[i] = "visiting"
  <2>1. /\ phase' = "rejected" /\ reason' = "import_cycle"
        /\ cycle' = CyclePath(frames, i)
    BY <1>3, <1>10
  <2>2. /\ cycle' \in Seq(Entries)
        /\ Len(cycle') >= 2
        /\ cycle'[1] = cycle'[Len(cycle')]
        /\ \A k \in 1..(Len(cycle') - 1) : cycle'[k + 1] \in lock.imports[cycle'[k]]
    BY SMT, <1>1, <1>2, <1>4, <1>10, <2>1, CyclePathReal
  <2>3. TypeOK'
    BY <1>3, <1>6, <2>1, <2>2 DEF IInv, TypeOK, Reasons
  <2>4. PhaseOK' /\ CycleIsReal' /\ IndexHolds'
    BY <1>3, <2>1, <2>2 DEF IInv, PhaseOK, CycleIsReal, IndexHolds, Imports
  <2> QED BY <1>3, <1>7, <1>8, <2>3, <2>4 DEF IInv
<1> QED BY <1>3, <1>9, <1>10

\* An order that holds every entry once has N elements.
LEMMA OrderLength ==
  ASSUME NEW im, NEW st, NEW ord \in Seq(Entries), Ordered(im, st, ord),
         \A e \in Entries : st[e] = "visited"
  PROVE  Len(ord) = N
<1>1. ord \in [1..Len(ord) -> Entries] /\ Len(ord) \in Nat
  BY SMT
<1>2. \A e \in Entries : \E k \in 1..Len(ord) : ord[k] = e
  BY DEF Ordered
<1>3. \A j, k \in 1..Len(ord) : ord[j] = ord[k] => j = k
  BY DEF Ordered
<1>4. ord \in Bijection(1..Len(ord), Entries)
  BY <1>1, <1>2, <1>3 DEF Bijection, Injection, Surjection, IsInjective
<1>5. ExistsBijection(1..Len(ord), Entries)
  BY <1>4 DEF ExistsBijection
<1>6. Cardinality(Entries) = Len(ord)
  BY <1>1, <1>5, FS_CountingElements
<1>7. Cardinality(1..N) = N
  <2>1. 1 \in Int /\ N \in Int /\ N \in Nat
    BY SMT, LockAssumption
  <2>2. Cardinality(1..N) = IF 1 > N THEN 0 ELSE N - 1 + 1
    BY <2>1, FS_Interval
  <2> QED BY SMT, <2>1, <2>2
<1> QED BY <1>6, <1>7 DEF Entries

\* The position of an entry in the order is the one place it is at.
LEMMA PositionUnique ==
  ASSUME \A j, k \in 1..Len(order) : order[j] = order[k] => j = k,
         NEW k \in 1..Len(order)
  PROVE  Position(order[k]) = k
BY DEF Position

\* The checks of the index hold.
LEMMA IndexIInv == ASSUME IInv, Index PROVE IInv'
<1>1. /\ phase = "index" /\ BadEntries = {} /\ \A e \in Entries : states[e] = "visited"
      /\ UNCHANGED <<lock, reason, states, frames, order, cycle>>
      /\ Ordered(lock.imports, states, order) /\ order \in Seq(Entries)
  BY DEF Index, IInv, PhaseOK, TypeOK
<1>2. Len(order) = N
  BY <1>1, OrderLength
<1>3. \A j, k \in 1..Len(order) : order[j] = order[k] => j = k
  BY <1>1 DEF Ordered
<1>4. ASSUME NEW e \in Entries, NEW d \in Imports(e)
      PROVE  d \in Entries /\ Position(d) < Position(e)
  <2>1. d \in Entries
    BY <1>1, ResolvedImports, LockTyped DEF IInv
  <2>2. PICK k \in 1..Len(order) : order[k] = e
    BY <1>1 DEF Ordered
  <2>3. PICK j \in 1..(k - 1) : order[j] = d
    BY <1>1, <2>2 DEF Ordered, Imports
  <2>4. j \in 1..Len(order) /\ j < k
    BY SMT, <1>1, <2>3
  <2>5. Position(e) = k /\ Position(d) = j
    BY <1>3, <2>2, <2>3, <2>4, PositionUnique
  <2> QED BY <2>1, <2>4, <2>5
<1>5. phase' = "indexed"
  BY <1>2, <1>3, <1>4 DEF Index
<1>6. TypeOK'
  BY <1>1, <1>5 DEF IInv, TypeOK
<1>7. PhaseOK' /\ CycleIsReal' /\ IndexHolds'
  BY <1>1, <1>5, SameLock DEF IInv, PhaseOK, CycleIsReal, IndexHolds
<1> QED BY <1>1, <1>5, <1>6, <1>7 DEF IInv

\* Every step of the build preserves the invariant.
LEMMA NextIInv == ASSUME IInv, [Next]_vars PROVE IInv'
<1>1. CASE Resolve
  BY <1>1, ResolveIInv
<1>2. CASE StartVisit
  BY <1>2, StartVisitIInv
<1>3. CASE EndVisit
  BY <1>3, EndVisitIInv
<1>4. CASE Finish
  BY <1>4, FinishIInv
<1>5. CASE VisitImport
  BY <1>5, VisitNewIInv, VisitOldIInv
<1>6. CASE Index
  BY <1>6, IndexIInv
<1>7. CASE UNCHANGED vars
  <2>1. UNCHANGED <<lock, phase, reason, states, frames, order, cycle>>
    BY <1>7 DEF vars
  <2>2. TypeOK' /\ PhaseOK' /\ CycleIsReal' /\ IndexHolds'
    BY <2>1, SameLock DEF IInv, TypeOK, PhaseOK, CycleIsReal, IndexHolds, Imports
  <2> QED BY <2>1, <2>2 DEF IInv
<1> QED BY <1>1, <1>2, <1>3, <1>4, <1>5, <1>6, <1>7 DEF Next, Build

\* The invariant holds in every reachable state.
LEMMA IInvHolds == Spec => []IInv
BY InitIInv, NextIInv, PTL DEF Spec

\* Entries that each import one of their own set are never all in the order.
LEMMA OrderAcyclic ==
  ASSUME IInv, \A e \in Entries : states[e] = "visited"
  PROVE  ~ Cyclic
<1> SUFFICES ASSUME NEW S \in SUBSET Entries, S # {},
                    \A e \in S : Imports(e) \cap S # {}
             PROVE  FALSE
  BY DEF Cyclic
<1> DEFINE places == {k \in 1..Len(order) : order[k] \in S}
<1>1. Ordered(lock.imports, states, order)
  BY DEF IInv
<1>2. places \subseteq Nat /\ places # {}
  BY SMT, <1>1 DEF Ordered
<1>3. PICK k \in places : \A j \in places : k <= j
  BY <1>2, LeastNatural
<1>4. PICK d \in Imports(order[k]) : d \in S
  BY <1>3
<1>5. PICK j \in 1..(k - 1) : order[j] = d
  BY <1>1, <1>3, <1>4 DEF Ordered, Imports
<1>6. j \in places
  BY SMT, <1>3, <1>4, <1>5
<1> QED BY SMT, <1>2, <1>3, <1>5, <1>6

\* The elements of a reported cycle each import one of them.
LEMMA CycleCyclic ==
  ASSUME IInv, reason = "import_cycle"
  PROVE  Cyclic
<1> DEFINE S == {cycle[k] : k \in 1..Len(cycle)}
<1>1. /\ cycle \in Seq(Entries) /\ Len(cycle) >= 2 /\ Len(cycle) \in Nat
      /\ cycle[1] = cycle[Len(cycle)]
      /\ \A k \in 1..(Len(cycle) - 1) : cycle[k + 1] \in Imports(cycle[k])
  BY SMT DEF IInv, TypeOK, CycleIsReal
<1>2. S \subseteq Entries /\ S # {}
  <2>1. \A k \in 1..Len(cycle) : cycle[k] \in Entries
    BY SMT, <1>1
  <2>2. 1 \in 1..Len(cycle)
    BY SMT, <1>1
  <2> QED BY <2>1, <2>2
<1>3. ASSUME NEW e \in S PROVE Imports(e) \cap S # {}
  <2>1. PICK k \in 1..Len(cycle) : cycle[k] = e
    OBVIOUS
  <2>2. PICK j \in 1..(Len(cycle) - 1) : cycle[j] = e
    <3>1. CASE k = Len(cycle)
      BY SMT, <1>1, <2>1, <3>1
    <3>2. CASE k # Len(cycle)
      BY SMT, <1>1, <2>1, <3>2
    <3> QED BY <3>1, <3>2
  <2>3. cycle[j + 1] \in Imports(e) /\ j + 1 \in 1..Len(cycle)
    BY SMT, <1>1, <2>2
  <2> QED BY <2>3
<1> HIDE DEF S
<1> QED BY <1>2, <1>3 DEF Cyclic

-----------------------------------------------------------------------------
(* The theorems *)

\* Every variable keeps its type while the graph is built: the stack and the
\* order hold entries of the lock only.
THEOREM TypeCorrect == Spec => []TypeOK
<1>1. IInv => TypeOK
  BY DEF IInv
<1> QED BY <1>1, IInvHolds, PTL

\* lock_topological_order puts every entry after everything it imports, at every
\* moment of the traversal and for every lock.
THEOREM OrderIsDependencyFirst == Spec => []DependencyFirst
<1>1. IInv => DependencyFirst
  BY DEF IInv, Ordered, DependencyFirst, Imports
<1> QED BY <1>1, IInvHolds, PTL

\* The path visit_lock_entry reports as an import cycle is an import cycle.
THEOREM ReportedCycleIsReal == Spec => []CycleIsReal
<1>1. IInv => CycleIsReal
  BY DEF IInv
<1> QED BY <1>1, IInvHolds, PTL

\* build_indexed_package_lock_graph never fails an internal invariant.
THEOREM IndexInvariantsHold == Spec => []IndexHolds
<1>1. IInv => IndexHolds
  BY DEF IInv
<1> QED BY <1>1, IInvHolds, PTL

\* A lock is indexed only when its imports resolve and are acyclic, and rejected
\* only when one of the two fails.
THEOREM VerdictIsExact == Spec => []VerdictIsRight
<1>1. ASSUME IInv PROVE VerdictIsRight
  <2>1. phase = "indexed" => BadEntries = {} /\ ~ Cyclic
    BY <1>1, OrderAcyclic DEF IInv, PhaseOK
  <2>2. phase = "rejected" => BadEntries # {} \/ Cyclic
    BY <1>1, CycleCyclic DEF IInv, PhaseOK
  <2> QED BY <2>1, <2>2 DEF VerdictIsRight
<1> QED BY <1>1, IInvHolds, PTL

-----------------------------------------------------------------------------
(* The plan. *)

\* The notions of VerificationPlan over given imports.
ClosedIn(im, S) == \A e \in S : im[e] \subseteq S
Importers(im, e) == {d \in Entries : e \in im[d]}
ClosedUpIn(im, S) == \A e \in S : Importers(im, e) \subseteq S

\* S is in every closed set that holds the seeds.
Needed(im, seeds, S) ==
  \A T \in SUBSET Entries : seeds \subseteq T /\ ClosedIn(im, T) => S \subseteq T
NeededUp(im, seeds, S) ==
  \A T \in SUBSET Entries : seeds \subseteq T /\ ClosedUpIn(im, T) => S \subseteq T

\* What is live before imports are followed.
LiveSeeds(im, hits, dirty, S) ==
  \E up \in SUBSET Entries :
    /\ S = (Entries \ hits) \cup up
    /\ dirty \subseteq up /\ ClosedUpIn(im, up) /\ NeededUp(im, dirty, up)

\* The selection is between its seeds and their closure, and only the entries
\* on the worklist can have imports outside.
CloseOK(im) ==
  /\ step \in {"close", "layer", "layered"} =>
       query.seeds \subseteq selected /\ Needed(im, query.seeds, selected)
  /\ step = "close" => \A e \in selected \ pending : im[e] \subseteq selected
  /\ step \in {"layer", "layered"} => ClosedIn(im, selected)

\* An entry has a layer only after its imports, and below its position.
LayersOK(im, ord, lay) ==
  /\ \A k \in 1..Len(ord) : ord[k] \in DOMAIN lay => lay[ord[k]] < k
  /\ \A e \in DOMAIN lay : \A d \in im[e] : d \in DOMAIN lay /\ lay[d] < lay[e]
  /\ \A e \in DOMAIN lay : lay[e] > 0 => \E d \in im[e] : lay[d] = lay[e] - 1

\* First the importers of dirty entries are added, then the imports of all.
ReverseOK(im) ==
  step = "reverse" =>
    /\ query.seeds \subseteq visited /\ pending \subseteq visited
    /\ selected = (Entries \ query.hits) \cup visited
    /\ NeededUp(im, query.seeds, visited)
    /\ \A e \in visited \ pending : Importers(im, e) \subseteq visited

ForwardOK(im) ==
  /\ step \in {"forward", "live"} =>
       \E S \in SUBSET selected :
         LiveSeeds(im, query.hits, query.seeds, S) /\ Needed(im, S, selected)
  /\ step = "forward" =>
       /\ selected \ visited \subseteq pending
       /\ \A e \in visited : im[e] \subseteq selected
  /\ step = "live" => ClosedIn(im, selected)

\* The plan begins when the lock is indexed, from nothing.
PlanInv ==
  /\ IInv
  /\ PlanTypeOK
  /\ step # "idle" => phase = "indexed"
  /\ step = "idle" => selected = {} /\ pending = {} /\ visited = {}
  /\ step \notin {"layer", "layered"} => DOMAIN layer = {}
  /\ step = "layered" => DOMAIN layer = selected
  /\ CloseOK(lock.imports)
  /\ LayersOK(lock.imports, order, layer)
  /\ ReverseOK(lock.imports)
  /\ ForwardOK(lock.imports)

-----------------------------------------------------------------------------
\* What the index says once it is built.
LEMMA Indexed ==
  ASSUME IInv, phase = "indexed"
  PROVE  /\ \A e \in Entries : lock.imports[e] \subseteq Entries
         /\ order \in Seq(Entries) /\ Len(order) \in Nat
         /\ \A k \in 1..Len(order) : order[k] \in Entries
         /\ \A e \in Entries : \E k \in 1..Len(order) : order[k] = e
         /\ \A j, k \in 1..Len(order) : order[j] = order[k] => j = k
         /\ \A k \in 1..Len(order) : \A d \in lock.imports[order[k]] :
              \E j \in 1..(k - 1) : order[j] = d
<1>1. BadEntries = {} /\ \A e \in Entries : states[e] = "visited"
  BY DEF IInv, PhaseOK
<1>2. \A e \in Entries : lock.imports[e] \subseteq Entries
  BY <1>1, LockTyped, ResolvedImports DEF IInv, Imports
<1>3. order \in Seq(Entries)
  BY DEF IInv, TypeOK
<1>4. Ordered(lock.imports, states, order)
  BY DEF IInv
<1> QED BY SMT, <1>1, <1>2, <1>3, <1>4 DEF Ordered

\* A bounded set of naturals has a greatest element.
LEMMA GreatestNatural ==
  ASSUME NEW T, T # {}, NEW n \in Nat, T \subseteq 0..n
  PROVE  \E x \in T : \A y \in T : y <= x
<1> DEFINE R == {n - x : x \in T}
<1>1. R \subseteq Nat /\ R # {}
  <2>1. \A x \in T : n - x \in Nat
    BY SMT
  <2>2. PICK x \in T : TRUE
    OBVIOUS
  <2>3. n - x \in R
    OBVIOUS
  <2> QED BY <2>1, <2>3
<1>2. PICK r \in R : \A y \in R : r <= y
  BY <1>1, LeastNatural
<1>3. PICK x \in T : r = n - x
  BY <1>2
<1>4. ASSUME NEW y \in T PROVE y <= x
  <2>1. n - y \in R
    OBVIOUS
  <2>2. r <= n - y
    BY <1>2, <2>1
  <2> QED BY SMT, <1>3, <2>2
<1> QED BY <1>4

\* The plan is not touched while the graph is built.
LEMMA BuildInv == ASSUME PlanInv, Build, UNCHANGED planVars PROVE PlanInv'
<1>1. IInv'
  BY NextIInv DEF PlanInv, Next
<1>2. phase # "indexed" /\ lock' = lock
  BY DEF Build, Resolve, StartVisit, EndVisit, Finish, VisitImport, Index
<1>3. step = "idle" /\ UNCHANGED <<step, query, selected, pending, visited, layer>>
  BY <1>2 DEF PlanInv, planVars
<1>4. DOMAIN layer = {} /\ selected = {} /\ pending = {} /\ visited = {}
  BY <1>3 DEF PlanInv
<1>5. PlanTypeOK'
  BY <1>1, <1>3 DEF PlanInv, PlanTypeOK, IInv
<1>6. CloseOK(lock.imports)' /\ ReverseOK(lock.imports)' /\ ForwardOK(lock.imports)'
  BY <1>3 DEF CloseOK, ReverseOK, ForwardOK
<1>7. LayersOK(lock.imports, order, layer)'
  BY <1>3, <1>4 DEF LayersOK
<1> QED BY <1>1, <1>3, <1>4, <1>5, <1>6, <1>7 DEF PlanInv

\* Steps of the plan leave the graph as it is.
LEMMA PlanStep ==
  ASSUME PlanInv, UNCHANGED vars
  PROVE  IInv' /\ TypeOK' /\ lock' = lock /\ phase' = phase /\ order' = order
<1>1. IInv'
  BY NextIInv DEF PlanInv
<1> QED BY <1>1 DEF IInv, vars

\* A selection starts with its seeds on the worklist.
LEMMA SelectInv ==
  ASSUME PlanInv, UNCHANGED vars, NEW seeds \in SUBSET Names, Select(seeds)
  PROVE  PlanInv'
<1>1. IInv' /\ TypeOK' /\ lock' = lock /\ phase' = phase /\ order' = order
  BY PlanStep
<1>2. /\ phase = "indexed" /\ step = "idle"
      /\ DOMAIN layer = {} /\ layer' = layer /\ visited' = visited /\ visited = {}
      /\ query'.seeds = seeds /\ query' \in [seeds : SUBSET Names, hits : SUBSET Entries]
  BY DEF PlanInv, Select, NoQuery
<1>3. LayersOK(lock.imports, order, layer)'
  BY <1>1, <1>2 DEF LayersOK
<1>4. CASE Absent \in seeds
  <2>1. step' = "selected_module_missing" /\ UNCHANGED <<selected, pending>>
    BY <1>4 DEF Select
  <2>2. PlanTypeOK'
    BY <1>1, <1>2, <2>1 DEF PlanInv, PlanTypeOK, Steps
  <2>3. CloseOK(lock.imports)' /\ ReverseOK(lock.imports)' /\ ForwardOK(lock.imports)'
    BY <2>1 DEF CloseOK, ReverseOK, ForwardOK
  <2> QED BY <1>1, <1>2, <1>3, <2>1, <2>2, <2>3 DEF PlanInv
<1>5. CASE Absent \notin seeds
  <2>1. step' = "close" /\ selected' = seeds /\ pending' = seeds
    BY <1>5 DEF Select
  <2>2. seeds \subseteq Entries
    BY <1>5 DEF Names
  <2>3. PlanTypeOK'
    BY <1>1, <1>2, <2>1, <2>2 DEF PlanInv, PlanTypeOK, Steps
  <2>4. CloseOK(lock.imports)' /\ ReverseOK(lock.imports)' /\ ForwardOK(lock.imports)'
    BY <1>2, <2>1 DEF CloseOK, ReverseOK, ForwardOK, Needed
  <2> QED BY <1>1, <1>2, <1>3, <2>1, <2>3, <2>4 DEF PlanInv
<1> QED BY <1>4, <1>5

\* All entries are closed under imports.
LEMMA SelectAllInv ==
  ASSUME PlanInv, UNCHANGED vars, SelectAll
  PROVE  PlanInv'
<1>1. IInv' /\ TypeOK' /\ lock' = lock /\ phase' = phase /\ order' = order
  BY PlanStep
<1>2. /\ phase = "indexed" /\ step = "idle" /\ step' = "layer" /\ selected' = Entries
      /\ DOMAIN layer = {} /\ layer' = layer
      /\ visited' = visited /\ visited = {} /\ pending' = pending /\ pending = {}
      /\ query'.seeds = Entries /\ query' \in [seeds : SUBSET Names, hits : SUBSET Entries]
  BY DEF PlanInv, SelectAll, NoQuery, Names
<1>3. \A e \in Entries : lock.imports[e] \subseteq Entries
  BY <1>2, Indexed DEF PlanInv
<1>4. LayersOK(lock.imports, order, layer)'
  BY <1>1, <1>2 DEF LayersOK
<1>5. PlanTypeOK'
  BY <1>1, <1>2 DEF PlanInv, PlanTypeOK, Steps
<1>6. CloseOK(lock.imports)' /\ ReverseOK(lock.imports)' /\ ForwardOK(lock.imports)'
  BY <1>1, <1>2, <1>3 DEF CloseOK, ReverseOK, ForwardOK, Needed, ClosedIn
<1> QED BY <1>1, <1>2, <1>4, <1>5, <1>6 DEF PlanInv

\* One entry of the worklist is expanded; when none is left, all are.
LEMMA CloseStepInv ==
  ASSUME PlanInv, UNCHANGED vars, CloseStep
  PROVE  PlanInv'
<1>1. IInv' /\ TypeOK' /\ lock' = lock /\ phase' = phase /\ order' = order
  BY PlanStep
<1> DEFINE im == lock.imports
<1>2. PICK e \in pending :
        /\ pending' = (pending \ {e}) \cup (im[e] \ selected)
        /\ selected' = selected \cup im[e]
  BY DEF CloseStep, Dependencies, Imports
<1>3. /\ step = "close" /\ step' = "close" /\ phase = "indexed"
      /\ UNCHANGED <<query, visited, layer>> /\ DOMAIN layer = {}
  BY DEF PlanInv, CloseStep
<1>4. pending \subseteq selected /\ selected \subseteq Entries /\ visited \subseteq selected
  BY DEF PlanInv, PlanTypeOK
<1>5. im[e] \subseteq Entries
  BY <1>2, <1>3, <1>4, Indexed DEF PlanInv
<1>6. PlanTypeOK'
  BY <1>1, <1>2, <1>3, <1>4, <1>5 DEF PlanInv, PlanTypeOK
<1>7. /\ query.seeds \subseteq selected /\ Needed(im, query.seeds, selected)
      /\ \A d \in selected \ pending : im[d] \subseteq selected
  BY <1>3 DEF PlanInv, CloseOK
<1>8. Needed(im, query.seeds, selected')
  BY <1>2, <1>4, <1>7 DEF Needed, ClosedIn
<1>9. \A d \in selected' \ pending' : im[d] \subseteq selected'
  BY <1>2, <1>7
<1>10. CloseOK(lock.imports)'
  BY <1>1, <1>2, <1>3, <1>7, <1>8, <1>9 DEF CloseOK
<1>11. ReverseOK(lock.imports)' /\ ForwardOK(lock.imports)'
  BY <1>3 DEF ReverseOK, ForwardOK
<1>12. LayersOK(lock.imports, order, layer)'
  BY <1>1, <1>3 DEF LayersOK
<1> QED BY <1>1, <1>3, <1>6, <1>10, <1>11, <1>12 DEF PlanInv

\* A loop that ends leaves the selection closed.
LEMMA CloseEndInv ==
  ASSUME PlanInv, UNCHANGED vars, CloseEnd
  PROVE  PlanInv'
<1>1. IInv' /\ TypeOK' /\ lock' = lock /\ phase' = phase /\ order' = order
  BY PlanStep
<1>2. /\ step = "close" /\ step' = "layer" /\ pending = {} /\ phase = "indexed"
      /\ UNCHANGED <<query, selected, pending, visited, layer>>
  BY DEF PlanInv, CloseEnd
<1>3. PlanTypeOK'
  BY <1>1, <1>2 DEF PlanInv, PlanTypeOK, Steps
<1>4. CloseOK(lock.imports)' /\ ReverseOK(lock.imports)' /\ ForwardOK(lock.imports)'
  BY <1>1, <1>2 DEF PlanInv, CloseOK, ReverseOK, ForwardOK, ClosedIn
<1> QED BY <1>1, <1>2, <1>3, <1>4 DEF PlanInv

-----------------------------------------------------------------------------
\* The layer of the next entry: above its imports, by one above some, and below
\* its position.
LEMMA NextLayer ==
  ASSUME PlanInv, step = "layer",
         NEW k \in 1..Len(order), order[k] \in selected \ DOMAIN layer,
         \A j \in 1..(k - 1) : order[j] \in selected => order[j] \in DOMAIN layer
  PROVE  /\ LayerOf(order[k]) \in Nat /\ LayerOf(order[k]) < k
         /\ \A d \in lock.imports[order[k]] : d \in DOMAIN layer /\ layer[d] < LayerOf(order[k])
         /\ LayerOf(order[k]) > 0 =>
              \E d \in lock.imports[order[k]] : layer[d] = LayerOf(order[k]) - 1
<1> DEFINE e == order[k]
           D == lock.imports[e]
           below == {layer[d] + 1 : d \in Dependencies(e) \cap selected}
<1>1. /\ phase = "indexed" /\ ClosedIn(lock.imports, selected)
      /\ LayersOK(lock.imports, order, layer)
      /\ \A d \in DOMAIN layer : layer[d] \in Nat
  BY DEF PlanInv, PlanTypeOK, CloseOK
<1>2. D \subseteq selected
  BY <1>1 DEF ClosedIn
<1>3. Len(order) \in Nat /\ k \in Nat
  BY SMT, <1>1, Indexed DEF PlanInv
<1>4. ASSUME NEW d \in D
      PROVE  d \in DOMAIN layer /\ layer[d] \in Nat /\ layer[d] + 1 < k
  <2>1. PICK j \in 1..(k - 1) : order[j] = d
    BY <1>1, Indexed DEF PlanInv
  <2>2. d \in DOMAIN layer
    BY <1>2, <2>1
  <2>3. layer[d] < j /\ layer[d] \in Nat
    BY SMT, <1>1, <1>3, <2>1, <2>2 DEF LayersOK
  <2> QED BY SMT, <1>3, <2>1, <2>2, <2>3
<1>5. D = Dependencies(e) \cap selected
  BY <1>2 DEF Dependencies, Imports
<1>6. CASE D = {}
  <2>1. LayerOf(e) = 0
    BY <1>5, <1>6 DEF LayerOf
  <2> QED BY SMT, <1>3, <1>6, <2>1
<1>7. CASE D # {}
  <2>1. below # {} /\ below \subseteq 0..k
    <3>1. PICK d \in D : TRUE
      BY <1>7
    <3>2. layer[d] + 1 \in below
      BY <1>5
    <3>3. \A x \in D : layer[x] + 1 \in 0..k
      BY SMT, <1>3, <1>4
    <3> QED BY <1>5, <3>2, <3>3
  <2>2. \E l \in below : \A m \in below : m <= l
    BY <1>3, <2>1, GreatestNatural
  <2>3. LayerOf(e) \in below /\ \A m \in below : m <= LayerOf(e)
    BY <2>1, <2>2 DEF LayerOf
  <2>4. PICK d \in D : LayerOf(e) = layer[d] + 1
    BY <1>5, <2>3
  <2>5. LayerOf(e) \in Nat /\ LayerOf(e) < k /\ layer[d] = LayerOf(e) - 1
    BY SMT, <1>3, <1>4, <2>4
  <2>6. ASSUME NEW x \in D PROVE x \in DOMAIN layer /\ layer[x] < LayerOf(e)
    <3>1. layer[x] + 1 <= LayerOf(e) /\ layer[x] \in Nat /\ x \in DOMAIN layer
      BY <1>4, <1>5, <2>3
    <3> QED BY SMT, <2>5, <3>1
  <2> QED BY <2>5, <2>6
<1> QED BY <1>6, <1>7

LEMMA LayerStepInv ==
  ASSUME PlanInv, UNCHANGED vars, LayerStep
  PROVE  PlanInv'
<1>1. IInv' /\ TypeOK' /\ lock' = lock /\ phase' = phase /\ order' = order
  BY PlanStep
<1>2. /\ step = "layer" /\ step' = "layer" /\ phase = "indexed"
      /\ UNCHANGED <<query, selected, pending, visited>>
  BY DEF PlanInv, LayerStep
<1>3. PICK k \in 1..Len(order) :
        /\ order[k] \in selected \ DOMAIN layer
        /\ \A j \in 1..(k - 1) : order[j] \in selected => order[j] \in DOMAIN layer
        /\ layer' = [e \in DOMAIN layer \cup {order[k]} |->
                       IF e = order[k] THEN LayerOf(e) ELSE layer[e]]
  BY DEF LayerStep
<1> DEFINE new == order[k]
           im == lock.imports
<1>4. /\ LayerOf(new) \in Nat /\ LayerOf(new) < k
      /\ \A d \in im[new] : d \in DOMAIN layer /\ layer[d] < LayerOf(new)
      /\ LayerOf(new) > 0 => \E d \in im[new] : layer[d] = LayerOf(new) - 1
  BY <1>2, <1>3, NextLayer
<1> DEFINE L == LayerOf(new)
<1>5. /\ DOMAIN layer' = DOMAIN layer \cup {new} /\ layer'[new] = L
      /\ \A e \in DOMAIN layer : layer'[e] = layer[e]
  BY <1>3
<1> HIDE DEF L
<1>6. LayersOK(im, order, layer)
  BY DEF PlanInv
<1>7. \A j \in 1..Len(order) : order[j] = new => j = k
  BY <1>2, <1>3, Indexed DEF PlanInv
<1> HIDE DEF new, im
<1>8. /\ L \in Nat /\ L < k /\ new \notin DOMAIN layer /\ new \in selected
      /\ \A d \in im[new] : d \in DOMAIN layer /\ layer[d] < L
      /\ L > 0 => \E d \in im[new] : layer[d] = L - 1
  BY <1>3, <1>4 DEF L, new
<1>9. LayersOK(im, order, layer')
  <2>1. ASSUME NEW j \in 1..Len(order), order[j] \in DOMAIN layer' PROVE layer'[order[j]] < j
    BY <1>5, <1>6, <1>7, <1>8, <2>1 DEF LayersOK
  <2>2. ASSUME NEW e \in DOMAIN layer', NEW d \in im[e]
        PROVE  d \in DOMAIN layer' /\ layer'[d] < layer'[e]
    BY <1>5, <1>6, <1>8 DEF LayersOK
  <2>3. ASSUME NEW e \in DOMAIN layer', layer'[e] > 0
        PROVE  \E d \in im[e] : layer'[d] = layer'[e] - 1
    <3>1. CASE e = new
      BY <1>5, <1>8, <2>3, <3>1
    <3>2. CASE e # new
      <4>1. e \in DOMAIN layer /\ layer'[e] = layer[e]
        BY <1>5, <3>2
      <4>2. PICK d \in im[e] : layer[d] = layer[e] - 1
        BY <1>6, <2>3, <4>1 DEF LayersOK
      <4>3. d \in DOMAIN layer
        BY <1>6, <4>1, <4>2 DEF LayersOK
      <4> QED BY <1>5, <4>1, <4>2, <4>3
    <3> QED BY <3>1, <3>2
  <2> QED BY <2>1, <2>2, <2>3 DEF LayersOK
<1>10. PlanTypeOK'
  BY <1>1, <1>2, <1>5, <1>8 DEF PlanInv, PlanTypeOK, Steps
<1>11. CloseOK(lock.imports)' /\ ReverseOK(lock.imports)' /\ ForwardOK(lock.imports)'
  BY <1>1, <1>2 DEF PlanInv, CloseOK, ReverseOK, ForwardOK
<1> QED BY <1>1, <1>2, <1>9, <1>10, <1>11 DEF PlanInv, im

LEMMA LayerEndInv ==
  ASSUME PlanInv, UNCHANGED vars, LayerEnd
  PROVE  PlanInv'
<1>1. IInv' /\ TypeOK' /\ lock' = lock /\ phase' = phase /\ order' = order
  BY PlanStep
<1>2. /\ step = "layer" /\ step' = "layered" /\ phase = "indexed" /\ selected = DOMAIN layer
      /\ UNCHANGED <<query, selected, pending, visited, layer>>
  BY DEF PlanInv, LayerEnd
<1>3. PlanTypeOK'
  BY <1>1, <1>2 DEF PlanInv, PlanTypeOK, Steps
<1>4. CloseOK(lock.imports)' /\ ReverseOK(lock.imports)' /\ ForwardOK(lock.imports)'
  BY <1>1, <1>2 DEF PlanInv, CloseOK, ReverseOK, ForwardOK
<1> QED BY <1>1, <1>2, <1>3, <1>4 DEF PlanInv

-----------------------------------------------------------------------------
\* The live set starts with what the cache does not cover and the dirty modules.
LEMMA LiveInv ==
  ASSUME PlanInv, UNCHANGED vars, NEW hits \in SUBSET Entries, NEW dirty \in SUBSET Names,
         Live(hits, dirty)
  PROVE  PlanInv'
<1>1. IInv' /\ TypeOK' /\ lock' = lock /\ phase' = phase /\ order' = order
  BY PlanStep
<1>2. /\ phase = "indexed" /\ step = "idle" /\ DOMAIN layer = {} /\ layer' = layer
      /\ selected = {} /\ pending = {} /\ visited = {}
      /\ query'.seeds = dirty /\ query'.hits = hits
      /\ query' \in [seeds : SUBSET Names, hits : SUBSET Entries]
  BY DEF PlanInv, Live
<1>3. LayersOK(lock.imports, order, layer)'
  BY <1>1, <1>2 DEF LayersOK
<1>4. CASE Absent \in dirty
  <2>1. step' = "selected_module_missing" /\ UNCHANGED <<selected, pending, visited>>
    BY <1>4 DEF Live
  <2>2. PlanTypeOK'
    BY <1>1, <1>2, <2>1 DEF PlanInv, PlanTypeOK, Steps
  <2>3. CloseOK(lock.imports)' /\ ReverseOK(lock.imports)' /\ ForwardOK(lock.imports)'
    BY <2>1 DEF CloseOK, ReverseOK, ForwardOK
  <2> QED BY <1>1, <1>2, <1>3, <2>1, <2>2, <2>3 DEF PlanInv
<1>5. CASE Absent \notin dirty
  <2>1. /\ step' = "reverse" /\ selected' = (Entries \ hits) \cup dirty
        /\ pending' = dirty /\ visited' = dirty
    BY <1>5 DEF Live
  <2>2. dirty \subseteq Entries
    BY <1>5 DEF Names
  <2>3. PlanTypeOK'
    BY <1>1, <1>2, <2>1, <2>2 DEF PlanInv, PlanTypeOK, Steps
  <2>4. CloseOK(lock.imports)' /\ ForwardOK(lock.imports)'
    BY <2>1 DEF CloseOK, ForwardOK
  <2>5. ReverseOK(lock.imports)'
    BY <1>2, <2>1 DEF ReverseOK, NeededUp
  <2> QED BY <1>1, <1>2, <1>3, <2>1, <2>3, <2>4, <2>5 DEF PlanInv
<1> QED BY <1>4, <1>5

\* The importers of one entry of the worklist become live.
LEMMA ReverseStepInv ==
  ASSUME PlanInv, UNCHANGED vars, ReverseStep
  PROVE  PlanInv'
<1>1. IInv' /\ TypeOK' /\ lock' = lock /\ phase' = phase /\ order' = order
  BY PlanStep
<1> DEFINE im == lock.imports
<1>2. PICK e \in pending :
        /\ selected' = selected \cup Importers(im, e)
        /\ pending' = (pending \ {e}) \cup (Importers(im, e) \ visited)
        /\ visited' = visited \cup Importers(im, e)
  BY DEF ReverseStep, ReverseDependencies, Imports, Importers
<1>3. /\ step = "reverse" /\ step' = "reverse" /\ phase = "indexed"
      /\ UNCHANGED <<query, layer>> /\ DOMAIN layer = {}
  BY DEF PlanInv, ReverseStep
<1>4. pending \subseteq selected /\ selected \subseteq Entries /\ visited \subseteq selected
  BY DEF PlanInv, PlanTypeOK
<1>5. Importers(im, e) \subseteq Entries
  BY DEF Importers
<1>6. PlanTypeOK'
  BY <1>1, <1>2, <1>3, <1>4, <1>5 DEF PlanInv, PlanTypeOK
<1>7. /\ query.seeds \subseteq visited /\ pending \subseteq visited
      /\ selected = (Entries \ query.hits) \cup visited
      /\ NeededUp(im, query.seeds, visited)
      /\ \A d \in visited \ pending : Importers(im, d) \subseteq visited
  BY <1>3 DEF PlanInv, ReverseOK
<1>8. NeededUp(im, query.seeds, visited')
  BY <1>2, <1>7 DEF NeededUp, ClosedUpIn
<1>9. \A d \in visited' \ pending' : Importers(im, d) \subseteq visited'
  BY <1>2, <1>7
<1>10. selected' = (Entries \ query.hits) \cup visited' /\ pending' \subseteq visited'
  BY <1>2, <1>7
<1>11. ReverseOK(lock.imports)'
  BY <1>1, <1>2, <1>3, <1>7, <1>8, <1>9, <1>10 DEF ReverseOK
<1>12. CloseOK(lock.imports)' /\ ForwardOK(lock.imports)'
  BY <1>3 DEF CloseOK, ForwardOK
<1>13. LayersOK(lock.imports, order, layer)'
  BY <1>1, <1>3 DEF LayersOK
<1> QED BY <1>1, <1>3, <1>6, <1>11, <1>12, <1>13 DEF PlanInv

\* What is live now are the seeds of the second loop.
LEMMA ReverseEndInv ==
  ASSUME PlanInv, UNCHANGED vars, ReverseEnd
  PROVE  PlanInv'
<1>1. IInv' /\ TypeOK' /\ lock' = lock /\ phase' = phase /\ order' = order
  BY PlanStep
<1> DEFINE im == lock.imports
<1>2. /\ step = "reverse" /\ step' = "forward" /\ pending = {} /\ phase = "indexed"
      /\ pending' = selected /\ visited' = {}
      /\ UNCHANGED <<query, selected, layer>> /\ DOMAIN layer = {}
  BY DEF PlanInv, ReverseEnd
<1>3. PlanTypeOK'
  BY <1>1, <1>2 DEF PlanInv, PlanTypeOK, Steps
<1>4. /\ query.seeds \subseteq visited /\ NeededUp(im, query.seeds, visited)
      /\ selected = (Entries \ query.hits) \cup visited
      /\ ClosedUpIn(im, visited) /\ visited \in SUBSET Entries
  BY <1>2 DEF PlanInv, PlanTypeOK, ReverseOK, ClosedUpIn
<1>5. LiveSeeds(im, query.hits, query.seeds, selected)
  BY <1>4 DEF LiveSeeds
<1>6. Needed(im, selected, selected)
  BY DEF Needed
<1>7. \E S \in SUBSET selected : LiveSeeds(im, query.hits, query.seeds, S) /\ Needed(im, S, selected)
  BY <1>5, <1>6
<1>8. ForwardOK(lock.imports)'
  BY <1>1, <1>2, <1>7 DEF ForwardOK
<1>9. CloseOK(lock.imports)' /\ ReverseOK(lock.imports)'
  BY <1>2 DEF CloseOK, ReverseOK
<1>10. LayersOK(lock.imports, order, layer)'
  BY <1>1, <1>2 DEF LayersOK
<1> QED BY <1>1, <1>2, <1>3, <1>8, <1>9, <1>10 DEF PlanInv

\* One entry is marked and its imports become live.
LEMMA ForwardStepInv ==
  ASSUME PlanInv, UNCHANGED vars, ForwardStep
  PROVE  PlanInv'
<1>1. IInv' /\ TypeOK' /\ lock' = lock /\ phase' = phase /\ order' = order
  BY PlanStep
<1> DEFINE im == lock.imports
<1>2. PICK e \in pending :
        /\ visited' = visited \cup {e}
        /\ IF e \in visited
           THEN pending' = pending \ {e} /\ selected' = selected
           ELSE /\ selected' = selected \cup im[e]
                /\ pending' = (pending \ {e}) \cup (im[e] \ visited')
  BY DEF ForwardStep, Dependencies, Imports
<1>3. /\ step = "forward" /\ step' = "forward" /\ phase = "indexed"
      /\ UNCHANGED <<query, layer>> /\ DOMAIN layer = {}
  BY DEF PlanInv, ForwardStep
<1>4. pending \subseteq selected /\ selected \subseteq Entries /\ visited \subseteq selected
  BY DEF PlanInv, PlanTypeOK
<1>5. im[e] \subseteq Entries
  BY <1>2, <1>3, <1>4, Indexed DEF PlanInv
<1>6. PlanTypeOK'
  BY <1>1, <1>2, <1>3, <1>4, <1>5 DEF PlanInv, PlanTypeOK
<1>7. /\ selected \ visited \subseteq pending
      /\ \A d \in visited : im[d] \subseteq selected
  BY <1>3 DEF PlanInv, ForwardOK
<1>8. PICK S \in SUBSET selected :
        LiveSeeds(im, query.hits, query.seeds, S) /\ Needed(im, S, selected)
  BY <1>3 DEF PlanInv, ForwardOK
<1>9. Needed(im, S, selected') /\ S \in SUBSET selected'
  BY <1>2, <1>4, <1>8 DEF Needed, ClosedIn
<1>10. /\ selected' \ visited' \subseteq pending'
       /\ \A d \in visited' : im[d] \subseteq selected'
  BY <1>2, <1>7
<1>11. ForwardOK(lock.imports)'
  <2>1. \E R \in SUBSET selected' :
          LiveSeeds(im, query.hits, query.seeds, R) /\ Needed(im, R, selected')
    BY <1>8, <1>9
  <2> QED BY <1>1, <1>3, <1>10, <2>1 DEF ForwardOK
<1>12. CloseOK(lock.imports)' /\ ReverseOK(lock.imports)'
  BY <1>3 DEF CloseOK, ReverseOK
<1>13. LayersOK(lock.imports, order, layer)'
  BY <1>1, <1>3 DEF LayersOK
<1> QED BY <1>1, <1>3, <1>6, <1>11, <1>12, <1>13 DEF PlanInv

LEMMA ForwardEndInv ==
  ASSUME PlanInv, UNCHANGED vars, ForwardEnd
  PROVE  PlanInv'
<1>1. IInv' /\ TypeOK' /\ lock' = lock /\ phase' = phase /\ order' = order
  BY PlanStep
<1>2. /\ step = "forward" /\ step' = "live" /\ pending = {} /\ phase = "indexed"
      /\ UNCHANGED <<query, selected, pending, visited, layer>> /\ DOMAIN layer = {}
  BY DEF PlanInv, ForwardEnd
<1>3. PlanTypeOK'
  BY <1>1, <1>2 DEF PlanInv, PlanTypeOK, Steps
<1>4. ClosedIn(lock.imports, selected)
  BY <1>2 DEF PlanInv, PlanTypeOK, ForwardOK, ClosedIn
<1>5. ForwardOK(lock.imports)'
  BY <1>1, <1>2, <1>4 DEF PlanInv, ForwardOK
<1>6. CloseOK(lock.imports)' /\ ReverseOK(lock.imports)'
  BY <1>2 DEF CloseOK, ReverseOK
<1>7. LayersOK(lock.imports, order, layer)'
  BY <1>1, <1>2 DEF LayersOK
<1> QED BY <1>1, <1>2, <1>3, <1>5, <1>6, <1>7 DEF PlanInv

-----------------------------------------------------------------------------
LEMMA PlanInitInv == PlanInit => PlanInv
<1> SUFFICES ASSUME PlanInit PROVE PlanInv
  OBVIOUS
<1>1. IInv
  BY InitIInv DEF PlanInit
<1>2. /\ step = "idle" /\ query = NoQuery /\ selected = {} /\ pending = {} /\ visited = {}
      /\ DOMAIN layer = {}
  BY DEF PlanInit, NoLayers
<1>3. PlanTypeOK
  BY <1>1, <1>2 DEF PlanTypeOK, Steps, NoQuery, IInv
<1>4. CloseOK(lock.imports) /\ ReverseOK(lock.imports) /\ ForwardOK(lock.imports)
  BY <1>2 DEF CloseOK, ReverseOK, ForwardOK
<1>5. LayersOK(lock.imports, order, layer)
  BY <1>2 DEF LayersOK
<1> QED BY <1>1, <1>2, <1>3, <1>4, <1>5 DEF PlanInv

LEMMA StutterInv == ASSUME PlanInv, UNCHANGED allVars PROVE PlanInv'
<1>1. IInv' /\ TypeOK' /\ lock' = lock /\ phase' = phase /\ order' = order
  BY PlanStep DEF allVars
<1>2. UNCHANGED <<step, query, selected, pending, visited, layer>>
  BY DEF allVars, planVars
<1>3. PlanTypeOK'
  BY <1>1, <1>2 DEF PlanInv, PlanTypeOK
<1>4. CloseOK(lock.imports)' /\ ReverseOK(lock.imports)' /\ ForwardOK(lock.imports)'
  BY <1>1, <1>2 DEF PlanInv, CloseOK, ReverseOK, ForwardOK
<1> QED BY <1>1, <1>2, <1>3, <1>4 DEF PlanInv

LEMMA PlanNextInv == ASSUME PlanInv, [PlanNext]_allVars PROVE PlanInv'
<1>1. CASE Build /\ UNCHANGED planVars
  BY <1>1, BuildInv
<1>2. CASE Ask /\ UNCHANGED vars
  BY <1>2, SelectInv, SelectAllInv, LiveInv DEF Ask
<1>3. CASE Work /\ UNCHANGED vars
  <2>1. CASE CloseStep   BY <1>3, <2>1, CloseStepInv
  <2>2. CASE CloseEnd    BY <1>3, <2>2, CloseEndInv
  <2>3. CASE LayerStep   BY <1>3, <2>3, LayerStepInv
  <2>4. CASE LayerEnd    BY <1>3, <2>4, LayerEndInv
  <2>5. CASE ReverseStep BY <1>3, <2>5, ReverseStepInv
  <2>6. CASE ReverseEnd  BY <1>3, <2>6, ReverseEndInv
  <2>7. CASE ForwardStep BY <1>3, <2>7, ForwardStepInv
  <2>8. CASE ForwardEnd  BY <1>3, <2>8, ForwardEndInv
  <2> QED BY <1>3, <2>1, <2>2, <2>3, <2>4, <2>5, <2>6, <2>7, <2>8 DEF Work
<1>4. CASE UNCHANGED allVars
  BY <1>4, StutterInv
<1> QED BY <1>1, <1>2, <1>3, <1>4 DEF PlanNext

LEMMA PlanInvHolds == PlanSpec => []PlanInv
BY PlanInitInv, PlanNextInv, PTL DEF PlanSpec

-----------------------------------------------------------------------------
\* A closed set that holds the seeds and is needed is their closure.
LEMMA LeastIsClosure ==
  ASSUME NEW S, NEW R \in SUBSET Entries, S \subseteq R,
         ClosedIn(lock.imports, R), Needed(lock.imports, S, R)
  PROVE  R = Closure(S)
<1>1. \A T \in SUBSET Entries : Closed(T) <=> ClosedIn(lock.imports, T)
  BY DEF Closed, ClosedIn, Dependencies, Imports
<1>2. ASSUME NEW e \in R PROVE e \in Closure(S)
  BY <1>1 DEF Closure, Needed
<1>3. ASSUME NEW e \in Closure(S) PROVE e \in R
  BY <1>1 DEF Closure
<1> QED BY <1>2, <1>3

LEMMA LeastIsClosureUp ==
  ASSUME NEW S, NEW R \in SUBSET Entries, S \subseteq R,
         ClosedUpIn(lock.imports, R), NeededUp(lock.imports, S, R)
  PROVE  R = ClosureUp(S)
<1>1. \A T \in SUBSET Entries : ClosedUp(T) <=> ClosedUpIn(lock.imports, T)
  BY DEF ClosedUp, ClosedUpIn, ReverseDependencies, Imports, Importers
<1>2. ASSUME NEW e \in R PROVE e \in ClosureUp(S)
  BY <1>1 DEF ClosureUp, NeededUp
<1>3. ASSUME NEW e \in ClosureUp(S) PROVE e \in R
  BY <1>1 DEF ClosureUp
<1> QED BY <1>2, <1>3

\* dependency_closure: what is executed for a selection is the selected modules and
\* all they import, directly or not, whatever the lock.
THEOREM SelectionIsExact == PlanSpec => []SelectionIsClosure
<1>1. PlanInv => SelectionIsClosure
  <2> SUFFICES ASSUME PlanInv, step \in {"layer", "layered"}
               PROVE  selected = Closure(query.seeds)
    BY DEF SelectionIsClosure
  <2>1. /\ query.seeds \subseteq selected /\ ClosedIn(lock.imports, selected)
        /\ Needed(lock.imports, query.seeds, selected) /\ selected \in SUBSET Entries
    BY DEF PlanInv, PlanTypeOK, CloseOK
  <2> QED BY <2>1, LeastIsClosure
<1> QED BY <1>1, PlanInvHolds, PTL

\* topological_layers: a module is in a later layer than everything it imports and
\* directly above one of them, whatever the lock.
THEOREM LayersAreSound == PlanSpec => []LayersAreMinimal
<1>1. PlanInv => LayersAreMinimal
  BY DEF PlanInv, LayersOK, LayersAreMinimal, Dependencies, Imports
<1> QED BY <1>1, PlanInvHolds, PTL

\* local_audit_cache_live_modules: the live modules are those without a hit, those
\* that import a dirty one, and all these import, whatever the lock and the hits.
THEOREM LiveSetIsExact == PlanSpec => []LiveIsExact
<1>1. PlanInv => LiveIsExact
  <2> SUFFICES ASSUME PlanInv, step = "live"
               PROVE  selected = Closure((Entries \ query.hits) \cup ClosureUp(query.seeds))
    BY DEF LiveIsExact
  <2>1. ClosedIn(lock.imports, selected) /\ selected \in SUBSET Entries
    BY DEF PlanInv, PlanTypeOK, ForwardOK
  <2>2. PICK S \in SUBSET selected :
          /\ LiveSeeds(lock.imports, query.hits, query.seeds, S)
          /\ Needed(lock.imports, S, selected)
    BY DEF PlanInv, ForwardOK
  <2>3. PICK up \in SUBSET Entries :
          /\ S = (Entries \ query.hits) \cup up /\ query.seeds \subseteq up
          /\ ClosedUpIn(lock.imports, up) /\ NeededUp(lock.imports, query.seeds, up)
    BY <2>2 DEF LiveSeeds
  <2>4. up = ClosureUp(query.seeds)
    BY <2>3, LeastIsClosureUp
  <2>5. selected = Closure(S)
    BY <2>1, <2>2, LeastIsClosure
  <2> QED BY <2>3, <2>4, <2>5
<1> QED BY <1>1, PlanInvHolds, PTL

\* What execution takes from a finished plan: every selected module has a layer
\* below the number of entries, later than the layers of its imports, and neither
\* the selected nor the live modules import a module outside.
PlanFits ==
  /\ step = "layered" =>
       /\ DOMAIN layer = selected
       /\ Closed(selected)
       /\ \A e \in selected : /\ layer[e] \in 0..(N - 1)
                              /\ \A d \in Dependencies(e) : layer[d] < layer[e]
  /\ step = "live" => Closed(selected)

\* topological_layers and local_audit_cache_live_modules give the layered and the
\* cached execution the shape PackageVerifier assumes of a package and a request.
THEOREM PlanFitsVerifier == PlanSpec => []PlanFits
<1>1. PlanInv => PlanFits
  <2> SUFFICES ASSUME PlanInv PROVE PlanFits
    OBVIOUS
  <2>1. \A T : Closed(T) <=> ClosedIn(lock.imports, T)
    BY DEF Closed, ClosedIn, Dependencies, Imports
  <2>2. step = "live" => Closed(selected)
    BY <2>1 DEF PlanInv, ForwardOK
  <2>3. ASSUME step = "layered"
        PROVE  /\ DOMAIN layer = selected /\ Closed(selected)
               /\ \A e \in selected : /\ layer[e] \in 0..(N - 1)
                                      /\ \A d \in Dependencies(e) : layer[d] < layer[e]
    <3>1. phase = "indexed" /\ DOMAIN layer = selected /\ Closed(selected)
      BY <2>1, <2>3 DEF PlanInv, CloseOK
    <3>2. order \in Seq(Entries) /\ Len(order) = N
      <4>1. /\ \A e \in Entries : states[e] = "visited"
            /\ order \in Seq(Entries) /\ Ordered(lock.imports, states, order)
        BY <3>1 DEF PlanInv, IInv, PhaseOK, TypeOK
      <4> QED BY <4>1, OrderLength
    <3>3. ASSUME NEW e \in selected PROVE layer[e] \in 0..(N - 1)
      <4>1. e \in Entries /\ layer[e] \in Nat
        BY <3>1 DEF PlanInv, PlanTypeOK
      <4>2. PICK k \in 1..Len(order) : order[k] = e
        BY <3>1, <4>1, Indexed DEF PlanInv
      <4>3. layer[e] < k
        BY <3>1, <4>2 DEF PlanInv, LayersOK
      <4> QED BY SMT, <3>2, <4>1, <4>2, <4>3, LockAssumption
    <3>4. \A e \in selected : \A d \in Dependencies(e) : layer[d] < layer[e]
      BY <3>1 DEF PlanInv, LayersOK, Dependencies, Imports
    <3> QED BY <3>1, <3>3, <3>4
  <2> QED BY <2>2, <2>3 DEF PlanFits
<1> QED BY <1>1, PlanInvHolds, PTL
=============================================================================
