------------------------ MODULE PackageVerifier_proofs ------------------------
(***************************************************************************)
(* Proofs about PackageVerifier, for packages and runs of any number: the  *)
(* steps of the layered execution and of the executions that go through    *)
(* the modules in order keep one inductive invariant, which implies the    *)
(* properties.  The invariant of a run (RunOK) is stated over the values   *)
(* of its variables, so that a step of one run evidently keeps the         *)
(* invariant of the others.                                                *)
(***************************************************************************)
EXTENDS PackageVerifier, FiniteSetTheorems, WellFoundedInduction, TLAPS

\* The locked bytes are supplied for e and accepted, for request q.
GoodFor(q, e) ==
  /\ q.artifact[e] = "locked"
  /\ e \in q.package.sound[Mode(q.strategy)]

\* What RequestType says about a request.
Proper(q) ==
  /\ q.package \in Packages
  /\ q.package.imports \in [Entries -> SUBSET Entries]
  /\ q.package.layer \in [Entries -> 0..(N - 1)]
  /\ q.strategy \in {"layered", "serial", "reference"}
  /\ q.artifact \in [Entries -> {"locked", "other", "missing"}]
  /\ q.selected \subseteq Entries
  /\ q.live \subseteq q.selected
  /\ \A e \in Entries : \A d \in q.package.imports[e] :
       d < e /\ q.package.layer[d] < q.package.layer[e]
  /\ \A e \in q.selected : q.package.imports[e] \subseteq q.selected
  /\ \A e \in q.live : q.package.imports[e] \subseteq q.live
  /\ q.strategy # "serial" => q.live = q.selected
  /\ \A e \in q.selected \ q.live : GoodFor(q, e)

Statuses == {"none", "passed", "failed", "skipped", "cached"}

\* The status s of module e is right, given the other results.
Right(q, res, e, s) ==
  /\ s # "none" => e \in q.selected
  /\ s = "passed" => GoodFor(q, e)
  /\ s = "failed" => ~ GoodFor(q, e)
  /\ s \in {"passed", "failed"} => \A d \in q.package.imports[e] : res[d] = "passed"
  /\ s = "skipped" =>
       IF q.strategy = "layered"
       THEN \E d \in q.package.imports[e] : res[d] \in {"failed", "skipped"}
       ELSE \E d \in Entries : res[d] = "failed" /\ d < e
  /\ s = "cached" => e \notin q.live

AllRight(q, res) == \A e \in Entries : Right(q, res, e, res[e])

NoFailure(res) == \A e \in Entries : res[e] # "failed"

\* The selected modules of layer n.
InLayer(q, n) == {e \in q.selected : q.package.layer[e] = n}

\* The modules from a on that import d.
Later(q, a, d) == {e \in q.selected : e >= a /\ d \in q.package.imports[e]}

\* Module e gets status s, and becomes an import when it passed.
Reported(res, e, s, res2) == res2 = [res EXCEPT ![e] = s]
Grown(ctx, e, s, ctx2) == ctx2 = IF s = "passed" THEN ctx \cup {e} ELSE ctx

\* The reference execution has the contexts and the use counts it needs from a on.
Retained(q, a, res, ctx, us) ==
  (q.strategy = "reference" /\ NoFailure(res)) =>
    \A d \in Entries :
      /\ d \in ctx <=> (res[d] = "passed" /\ Later(q, a, d) # {})
      /\ us[d] = Cardinality(Later(q, a, d))

\* The layered execution at layer a.
LayersOK(q, ph, a, pend, runn, res, ctx) ==
  /\ ph = "idle" => a = 0
  /\ ph \in {"classify", "work", "merge"} =>
       /\ q.strategy = "layered"
       /\ a \in 0..(N - 1)
       /\ \A e \in pend \cup runn : e \in q.selected /\ q.package.layer[e] = a
       /\ pend \cap runn = {}
       /\ \A e \in Entries :
            (res[e] # "none") <=>
              (e \in q.selected /\ q.package.layer[e] <= a /\ e \notin pend \cup runn)
       /\ \A e \in Entries : e \in ctx <=> res[e] = "passed"
       /\ \A e \in runn : \A d \in q.package.imports[e] : res[d] = "passed"
       /\ ph # "classify" => pend = {}

\* Its workers.
WorkersOK(q, ph, runn, shrd, work, brok, outc) ==
  /\ ph \in {"idle", "classify"} => DOMAIN outc = {}
  /\ ph = "work" => /\ DOMAIN shrd = runn
                    /\ \A e \in runn : e \in DOMAIN outc \/ shrd[e] \in work \cup brok
  /\ ph = "merge" => runn \subseteq DOMAIN outc
  /\ ph \in {"work", "merge"} =>
       \A e \in runn \cap DOMAIN outc : outc[e] = "passed" <=> GoodFor(q, e)

\* The executions that go through the modules in order, at module a.
InOrderOK(q, ph, a, res, ctx, us) ==
  ph \in {"next", "check"} =>
    /\ q.strategy # "layered"
    /\ a \in 1..(N + 1)
    /\ \A e \in Entries : (res[e] # "none") <=> (e \in q.selected /\ e < a)
    /\ ph = "check" => a \in q.live /\ NoFailure(res)
    /\ q.strategy = "serial" => \A e \in Entries : e \in ctx <=> res[e] = "passed"
    /\ Retained(q, a, res, ctx, us)

\* Before the start, at the end, and never.
EndsOK(q, ph, pend, runn, res, ctx) ==
  /\ ph = "idle" => /\ \A e \in Entries : res[e] = "none"
                    /\ pend = {} /\ runn = {} /\ ctx = {}
  /\ ph # "idle" => q \in Requests /\ AllRight(q, res)
  /\ ph = "done" => \A e \in q.selected : res[e] # "none"
  /\ ph # "internal_error"

RunOK(r) ==
  /\ LayersOK(job[r], phase[r], at[r], pending[r], runnable[r], result[r], context[r])
  /\ WorkersOK(job[r], phase[r], runnable[r], shard[r], working[r], broken[r], outcome[r])
  /\ InOrderOK(job[r], phase[r], at[r], result[r], context[r], uses[r])
  /\ EndsOK(job[r], phase[r], pending[r], runnable[r], result[r], context[r])

\* A verdict in the memo depends on its key only.
KeyGood(k) == k[4] = "locked" /\ k[3] \in k[1].sound[k[2]]
MemoOK == \A m \in memo : m[2] = "passed" <=> KeyGood(m[1])

IInv == TypeOK /\ MemoOK /\ \A r \in Runs : RunOK(r)

-----------------------------------------------------------------------------
(* Requests and results *)

\* The steps are mostly first-order reasoning.
USE Zenon

\* Every request is proper.
LEMMA RequestProper == ASSUME NEW q \in Requests PROVE Proper(q)
<1>1. q \in RequestType /\ q.package \in PackageType
  BY VerifierAssumption DEF RequestType
<1>2. /\ q.package.imports \in [Entries -> SUBSET Entries]
      /\ q.package.layer \in [Entries -> 0..(N - 1)]
      /\ \A e \in Entries : \A d \in q.package.imports[e] :
           d < e /\ q.package.layer[d] < q.package.layer[e]
  BY <1>1 DEF PackageType
<1>3. q.strategy # "serial" => q.live = q.selected
  BY <1>1 DEF RequestType
<1>4. \A e \in q.selected \ q.live : GoodFor(q, e)
  <2> SUFFICES ASSUME NEW e \in q.selected \ q.live PROVE GoodFor(q, e)
    OBVIOUS
  <2>1. q.strategy = "serial"
    BY <1>3
  <2>2. q.artifact[e] = "locked" /\ e \in q.package.sound["fast"]
    BY <1>1 DEF RequestType
  <2> QED BY <2>1, <2>2 DEF GoodFor, Mode
<1> QED BY <1>1, <1>2, <1>3, <1>4 DEF Proper, RequestType

\* A module that had no result gets the right one: no other result suffers, as
\* none of them relied on it.
LEMMA ReportRight ==
  ASSUME NEW q, Proper(q),
         NEW res \in [Entries -> Statuses], AllRight(q, res),
         NEW e \in Entries, res[e] = "none",
         NEW s \in Statuses, Right(q, res, e, s),
         NEW res2, Reported(res, e, s, res2)
  PROVE  AllRight(q, res2)
<1> SUFFICES ASSUME NEW x \in Entries PROVE Right(q, res2, x, res2[x])
  BY DEF AllRight
<1>1. Right(q, res, x, res2[x])
  BY DEF AllRight, Reported
<1>2. /\ q.package.imports[x] \subseteq Entries
      /\ \A d \in Entries : res[d] # "none" => res2[d] = res[d]
  BY DEF Proper, Reported
<1>3. res2[x] \in {"passed", "failed"} =>
        \A d \in q.package.imports[x] : res2[d] = "passed"
  BY <1>1, <1>2 DEF Right
<1>4. res2[x] = "skipped" =>
        IF q.strategy = "layered"
        THEN \E d \in q.package.imports[x] : res2[d] \in {"failed", "skipped"}
        ELSE \E d \in Entries : res2[d] = "failed" /\ d < x
  <2>1. CASE q.strategy = "layered"
    BY <1>1, <1>2, <2>1 DEF Right
  <2>2. CASE q.strategy # "layered"
    BY <1>1, <1>2, <2>2 DEF Right
  <2> QED BY <2>1, <2>2
<1> QED BY <1>1, <1>3, <1>4 DEF Right

\* Without a failure nothing is skipped by the executions that go in order.
LEMMA NothingSkipped ==
  ASSUME NEW q, q.strategy # "layered", NEW res, AllRight(q, res), NoFailure(res)
  PROVE  \A e \in Entries : res[e] # "skipped"
BY DEF AllRight, Right, NoFailure

-----------------------------------------------------------------------------
(* The layered execution *)

\* Module e of layer a gets status s.
ReportsInLayer(q, ph, a, pend, runn, res, ctx, e, s, res2, ctx2) ==
  /\ Proper(q) /\ ph \in {"classify", "merge"} /\ res \in [Entries -> Statuses]
  /\ LayersOK(q, ph, a, pend, runn, res, ctx)
  /\ e \in pend \cup runn /\ s \in {"passed", "failed", "skipped"}
  /\ Reported(res, e, s, res2) /\ Grown(ctx, e, s, ctx2)

\* A module of the layer gets its result.
LEMMA LayerReport ==
  ASSUME NEW q, NEW ph, NEW a, NEW pend, NEW runn, NEW res, NEW ctx,
         NEW e, NEW s, NEW res2, NEW ctx2,
         ReportsInLayer(q, ph, a, pend, runn, res, ctx, e, s, res2, ctx2)
  PROVE  /\ e \in Entries /\ res[e] = "none" /\ e \in q.selected
         /\ LayersOK(q, ph, a, pend \ {e}, runn \ {e}, res2, ctx2)
<1> USE DEF ReportsInLayer
<1>1. /\ e \in q.selected /\ e \in Entries /\ q.package.layer[e] = a
      /\ a \in 0..(N - 1)
  BY DEF LayersOK, Proper
<1>2. res[e] = "none"
  BY <1>1 DEF LayersOK
<1>3. \A x \in Entries : res2[x] = IF x = e THEN s ELSE res[x]
  BY <1>1 DEF Reported
<1>4. \A x \in Entries :
        (res2[x] # "none") <=> (x \in q.selected /\ q.package.layer[x] <= a
                                 /\ x \notin (pend \ {e}) \cup (runn \ {e}))
  <2> SUFFICES ASSUME NEW x \in Entries
               PROVE  (res2[x] # "none") <=>
                        (x \in q.selected /\ q.package.layer[x] <= a
                           /\ x \notin (pend \ {e}) \cup (runn \ {e}))
    OBVIOUS
  <2>1. CASE x = e
    BY SMT, <1>1, <1>3, <2>1
  <2>2. CASE x # e
    BY <1>3, <2>2 DEF LayersOK
  <2> QED BY <2>1, <2>2
<1>5. \A x \in Entries : x \in ctx2 <=> res2[x] = "passed"
  <2> SUFFICES ASSUME NEW x \in Entries PROVE x \in ctx2 <=> res2[x] = "passed"
    OBVIOUS
  <2>1. x \in ctx <=> res[x] = "passed"
    BY DEF LayersOK
  <2> QED BY <1>2, <1>3, <2>1 DEF Grown
<1>6. \A x \in runn \ {e} : \A d \in q.package.imports[x] : res2[d] = "passed"
  <2> SUFFICES ASSUME NEW x \in runn, NEW d \in q.package.imports[x]
               PROVE  res2[d] = "passed"
    OBVIOUS
  <2>1. res[d] = "passed" /\ x \in Entries
    BY DEF LayersOK, Proper
  <2>2. d \in Entries
    BY <2>1 DEF Proper
  <2> QED BY <1>2, <1>3, <2>1, <2>2
<1> QED BY <1>1, <1>2, <1>4, <1>5, <1>6 DEF LayersOK

\* The next layer begins.
LEMMA LayerNext ==
  ASSUME NEW q, NEW ph, NEW a, NEW res, NEW ctx,
         Proper(q), ph \in {"classify", "merge"}, res \in [Entries -> Statuses],
         LayersOK(q, ph, a, {}, {}, res, ctx)
  PROVE  /\ a + 1 < N => LayersOK(q, "classify", a + 1, InLayer(q, a + 1), {}, res, ctx)
         /\ ~ (a + 1 < N) => \A e \in q.selected : res[e] # "none"
<1>1. a \in 0..(N - 1) /\ N \in Nat
  BY VerifierAssumption DEF LayersOK
<1>2. \A e \in Entries : q.package.layer[e] \in 0..(N - 1)
  BY DEF Proper
<1>3. \A e \in Entries : (res[e] # "none") <=> (e \in q.selected /\ q.package.layer[e] <= a)
  BY DEF LayersOK
<1>4. ASSUME a + 1 < N
      PROVE  LayersOK(q, "classify", a + 1, InLayer(q, a + 1), {}, res, ctx)
  <2>1. \A e \in Entries :
          (res[e] # "none") <=> (e \in q.selected /\ q.package.layer[e] <= a + 1
                                  /\ e \notin InLayer(q, a + 1) \cup {})
    BY SMT, <1>1, <1>2, <1>3 DEF InLayer
  <2>2. a + 1 \in 0..(N - 1)
    BY SMT, <1>1, <1>4
  <2>3. \A e \in InLayer(q, a + 1) : e \in q.selected /\ q.package.layer[e] = a + 1
    BY DEF InLayer
  <2> QED BY <2>1, <2>2, <2>3 DEF LayersOK
<1>5. ASSUME ~ (a + 1 < N)
      PROVE  \A e \in q.selected : res[e] # "none"
  BY SMT, <1>1, <1>2, <1>3, <1>5 DEF Proper
<1> QED BY <1>4, <1>5

-----------------------------------------------------------------------------
(* What the steps have in common *)

\* Nothing of another run than r changes.
Others(r) ==
  \A x \in Runs \ {r} :
    /\ job'[x] = job[x] /\ phase'[x] = phase[x] /\ at'[x] = at[x]
    /\ pending'[x] = pending[x] /\ runnable'[x] = runnable[x]
    /\ shard'[x] = shard[x] /\ working'[x] = working[x] /\ broken'[x] = broken[x]
    /\ outcome'[x] = outcome[x] /\ result'[x] = result[x]
    /\ context'[x] = context[x] /\ uses'[x] = uses[x]

\* A step of run r keeps the invariant of the other runs.
LEMMA Frame ==
  ASSUME NEW r \in Runs, \A x \in Runs : RunOK(x), Others(r), RunOK(r)'
  PROVE  (\A x \in Runs : RunOK(x))'
<1> SUFFICES ASSUME NEW x \in Runs PROVE RunOK(x)'
  OBVIOUS
<1>1. CASE x = r
  BY <1>1
<1>2. CASE x # r
  BY <1>2 DEF Others, RunOK
<1> QED BY <1>1, <1>2

\* The values of one run's variables.
LEMMA RunTyped ==
  ASSUME TypeOK, NEW r \in Runs
  PROVE  /\ result[r] \in [Entries -> Statuses]
         /\ context[r] \subseteq Entries
         /\ pending[r] \subseteq Entries
         /\ runnable[r] \subseteq Entries
         /\ uses[r] \in [Entries -> Nat]
         /\ DOMAIN outcome[r] \subseteq Entries
         /\ outcome[r] \in [DOMAIN outcome[r] -> {"passed", "failed"}]
         /\ at[r] \in 0..(N + 1)
BY DEF TypeOK, Statuses

\* A run that has started has a proper request and right results.
LEMMA RunStarted ==
  ASSUME NEW r \in Runs, RunOK(r), phase[r] # "idle"
  PROVE  job[r] \in Requests /\ Proper(job[r]) /\ AllRight(job[r], result[r])
BY RequestProper DEF RunOK, EndsOK

\* What the memo says is so.
LEMMA LookupTrue ==
  ASSUME TypeOK, MemoOK, NEW r, NEW e, NEW answer, answer \in {"passed", "failed"},
         Lookup(r, e, answer)
  PROVE  job[r].artifact[e] # "missing" /\ (answer = "passed" <=> GoodFor(job[r], e))
<1>1. Keyed(r, e) /\ <<Key(r, e), answer>> \in memo
  BY DEF Lookup
<1>2. answer = "passed" <=> KeyGood(Key(r, e))
  BY <1>1 DEF MemoOK
<1> QED BY <1>1, <1>2 DEF KeyGood, Key, GoodFor, Keyed

\* A right verdict may be remembered.
LEMMA InsertTrue ==
  ASSUME TypeOK, MemoOK, NEW r \in Runs, job[r] \in Requests, NEW e \in Entries,
         NEW v, v \in {"passed", "failed"}, v = "passed" <=> GoodFor(job[r], e),
         Insert(r, e, v)
  PROVE  MemoOK' /\ memo' \subseteq Keys \X {"passed", "failed"}
<1>1. CASE UNCHANGED memo
  BY <1>1 DEF MemoOK, TypeOK
<1>2. CASE /\ Keyed(r, e)
           /\ memo' = {m \in memo : m[1] # Key(r, e)} \cup {<<Key(r, e), v>>}
  <2>1. v = "passed" <=> KeyGood(Key(r, e))
    BY DEF KeyGood, Key, GoodFor
  <2>2. Key(r, e) \in Keys
    <3>1. /\ job[r].package \in Packages
          /\ job[r].artifact[e] \in {"locked", "other", "missing"}
      BY RequestProper DEF Proper
    <3> QED BY <1>2, <3>1 DEF Key, Keys, Keyed, Mode, Modes
  <2>3. memo' \subseteq Keys \X {"passed", "failed"}
    BY SMT, <1>2, <2>2 DEF TypeOK
  <2>4. ASSUME NEW m \in memo' PROVE m[2] = "passed" <=> KeyGood(m[1])
    <3>1. CASE m \in memo
      BY <3>1 DEF MemoOK
    <3>2. CASE m = <<Key(r, e), v>>
      BY <2>1, <3>2
    <3> QED BY <1>2, <3>1, <3>2
  <2> QED BY <2>3, <2>4 DEF MemoOK
<1> QED BY <1>1, <1>2 DEF Insert

\* With all imports at hand the checker judges the module alone.
LEMMA VerdictTrue ==
  ASSUME NEW r, NEW e, job[r].package.imports[e] \subseteq context[r]
  PROVE  /\ Verdict(r, e) \in {"passed", "failed"}
         /\ Verdict(r, e) = "passed" <=> GoodFor(job[r], e)
BY DEF Verdict, GoodFor, Imports

-----------------------------------------------------------------------------
(* The steps of the layered execution *)


\* When no import of a module of the layer failed or was skipped, all of them have
\* passed: they are in earlier layers.
LEMMA UnblockedImports ==
  ASSUME TypeOK, NEW r \in Runs, RunOK(r), phase[r] = "classify",
         NEW e \in pending[r], ~ Blocked(r, e)
  PROVE  \A d \in job[r].package.imports[e] : result[r][d] = "passed"
<1> DEFINE q == job[r]
           res == result[r]
<1>0. /\ Proper(q) /\ AllRight(q, res) /\ res \in [Entries -> Statuses]
      /\ LayersOK(q, "classify", at[r], pending[r], runnable[r], res, context[r])
  BY RunStarted, RunTyped DEF RunOK
<1> SUFFICES ASSUME NEW d \in q.package.imports[e] PROVE res[d] = "passed"
  OBVIOUS
<1> HIDE DEF q, res
<1>1. /\ e \in q.selected /\ e \in Entries /\ q.package.layer[e] = at[r] /\ at[r] \in Int
      /\ q.strategy = "layered"
  BY <1>0, SMT DEF LayersOK, Proper
<1>2. /\ d \in Entries /\ d \in q.selected /\ q.package.layer[d] < at[r]
      /\ q.package.layer[d] \in Int
  BY <1>0, <1>1, SMT DEF Proper
<1>3. d \notin pending[r] \cup runnable[r]
  BY <1>0, <1>1, <1>2, SMT DEF LayersOK
<1>4. res[d] # "none"
  BY <1>0, <1>1, <1>2, <1>3, SMT DEF LayersOK
<1>5. d \in q.live
  BY <1>0, <1>1, <1>2 DEF Proper
<1>6. res[d] # "cached"
  BY <1>0, <1>2, <1>5 DEF AllRight, Right
<1>7. res[d] \notin {"failed", "skipped"}
  BY <1>2 DEF Blocked, Imports, Has, q, res
<1> QED BY <1>0, <1>2, <1>4, <1>6, <1>7 DEF Statuses

\* A module of the layer gets a right result, from the memo or from a worker.
LEMMA LayerStatus ==
  ASSUME TypeOK, NEW r \in Runs, RunOK(r), phase[r] \in {"classify", "merge"},
         NEW e \in pending[r] \cup runnable[r],
         NEW s \in {"passed", "failed", "skipped"},
         Right(job[r], result[r], e, s),
         phase' = phase, Report(r, e, s),
         context' = IF s = "passed" THEN Set(context, r, context[r] \cup {e}) ELSE context,
         pending'[r] = pending[r] \ {e}, runnable'[r] = runnable[r] \ {e},
         UNCHANGED <<job, at, shard, working, broken, outcome>>
  PROVE  RunOK(r)'
<1> DEFINE q == job[r]
           res == result[r]
<1>1. Proper(q) /\ q \in Requests /\ AllRight(q, res)
  BY RunStarted
<1>2. res \in [Entries -> Statuses] /\ s \in Statuses
  BY RunTyped DEF Statuses
<1>3. LayersOK(q, phase[r], at[r], pending[r], runnable[r], res, context[r])
  BY DEF RunOK
<1>4. /\ result'[r] = [res EXCEPT ![e] = s]
      /\ context'[r] = IF s = "passed" THEN context[r] \cup {e} ELSE context[r]
  BY DEF Report, Set, TypeOK
<1>5. Reported(res, e, s, result'[r]) /\ Grown(context[r], e, s, context'[r])
  BY <1>4 DEF Reported, Grown
<1> HIDE DEF q, res
<1>6. /\ e \in Entries /\ res[e] = "none"
      /\ LayersOK(q, phase[r], at[r], pending[r] \ {e}, runnable[r] \ {e},
                  result'[r], context'[r])
  <2>1. ReportsInLayer(q, phase[r], at[r], pending[r], runnable[r], res, context[r], e, s,
                       result'[r], context'[r])
    BY <1>1, <1>2, <1>3, <1>5 DEF ReportsInLayer
  <2> QED BY <2>1, LayerReport, SMT
<1>7. AllRight(q, result'[r])
  BY <1>1, <1>2, <1>5, <1>6, ReportRight DEF q, res
<1>8. WorkersOK(q, phase[r], runnable[r] \ {e}, shard[r], working[r], broken[r], outcome[r])
  BY DEF RunOK, WorkersOK, q
<1>9. InOrderOK(q, phase[r], at[r], result'[r], context'[r], uses'[r])
  BY DEF InOrderOK
<1>10. EndsOK(q, phase[r], pending'[r], runnable'[r], result'[r], context'[r])
  BY <1>1, <1>7 DEF EndsOK
<1> QED BY <1>6, <1>8, <1>9, <1>10 DEF RunOK, q

\* record_verified finds what it insists on.
LEMMA AdmitSucceeds ==
  ASSUME TypeOK, NEW r \in Runs, RunOK(r), phase[r] \in {"classify", "merge"},
         NEW e \in pending[r] \cup runnable[r],
         GoodFor(job[r], e), Admit(r, e)
  PROVE  /\ phase' = phase /\ Report(r, e, "passed")
         /\ context' = Set(context, r, context[r] \cup {e})
<1>1. Proper(job[r])
  BY RunStarted
<1>2. LayersOK(job[r], phase[r], at[r], pending[r], runnable[r], result[r], context[r])
  BY DEF RunOK
<1>3. e \in Entries /\ result[r][e] = "none" /\ (e \in context[r] <=> result[r][e] = "passed")
  BY <1>1, <1>2 DEF LayersOK, Proper
<1> QED BY <1>3 DEF Admit, GoodFor

\* The types after a module of the layer got its result.
LEMMA LayerStatusTyped ==
  ASSUME TypeOK, NEW r \in Runs, NEW e \in Entries,
         NEW s \in {"passed", "failed", "skipped"},
         phase' = phase, Report(r, e, s),
         context' = IF s = "passed" THEN Set(context, r, context[r] \cup {e}) ELSE context,
         \/ pending' = Set(pending, r, pending[r] \ {e}) /\ runnable' = runnable
         \/ runnable' = Set(runnable, r, runnable[r] \ {e}) /\ pending' = pending,
         memo' \subseteq Keys \X {"passed", "failed"},
         UNCHANGED <<job, at, shard, working, broken, outcome, uses>>
  PROVE  TypeOK' /\ Others(r)
<1>1. result' \in [Runs -> [Entries -> {"none", "passed", "failed", "skipped", "cached"}]]
  BY DEF TypeOK, Report
<1>2. context' \in [Runs -> SUBSET Entries]
  BY DEF TypeOK, Set
<1>3. pending' \in [Runs -> SUBSET Entries] /\ runnable' \in [Runs -> SUBSET Entries]
  <2>1. pending \in [Runs -> SUBSET Entries] /\ runnable \in [Runs -> SUBSET Entries]
    BY DEF TypeOK
  <2>2. pending[r] \ {e} \in SUBSET Entries /\ runnable[r] \ {e} \in SUBSET Entries
    BY <2>1
  <2> QED BY <2>1, <2>2 DEF Set
<1>4. TypeOK'
  BY <1>1, <1>2, <1>3 DEF TypeOK
<1>5. Others(r)
  <2> SUFFICES ASSUME NEW x \in Runs \ {r}
               PROVE  /\ pending'[x] = pending[x] /\ runnable'[x] = runnable[x]
                      /\ result'[x] = result[x] /\ context'[x] = context[x]
    BY DEF Others
  <2>1. result'[x] = result[x]
    BY DEF TypeOK, Report
  <2>2. context'[x] = context[x]
    BY DEF TypeOK, Set
  <2>3. pending'[x] = pending[x] /\ runnable'[x] = runnable[x]
    BY DEF TypeOK, Set
  <2> QED BY <2>1, <2>2, <2>3
<1> QED BY <1>4, <1>5

\* Classify, when the module needs no checking.
LEMMA ClassifyKnown ==
  ASSUME IInv, NEW r \in Runs, phase[r] = "classify", NEW e \in pending[r],
         pending' = Set(pending, r, pending[r] \ {e}), UNCHANGED runnable,
         UNCHANGED <<memo, job, at, shard, working, broken, outcome, uses>>,
         \/ Blocked(r, e) /\ Report(r, e, "skipped") /\ UNCHANGED <<phase, context>>
         \/ ~ Blocked(r, e) /\ Lookup(r, e, "passed") /\ Admit(r, e)
         \/ /\ ~ Blocked(r, e) /\ Lookup(r, e, "failed")
            /\ Report(r, e, "failed") /\ UNCHANGED <<phase, context>>
  PROVE  IInv'
<1>1. TypeOK /\ MemoOK /\ RunOK(r) /\ \A x \in Runs : RunOK(x)
  BY DEF IInv
<1>2. Proper(job[r]) /\ AllRight(job[r], result[r])
  BY <1>1, RunStarted
<1>3. LayersOK(job[r], "classify", at[r], pending[r], runnable[r], result[r], context[r])
  BY <1>1 DEF RunOK
<1>4. /\ e \in job[r].selected /\ e \in Entries /\ e \notin runnable[r]
      /\ job[r].strategy = "layered"
      /\ result[r] \in [Entries -> Statuses]
      /\ job[r].package.imports[e] \subseteq Entries
  BY <1>1, <1>2, <1>3, RunTyped DEF LayersOK, Proper
<1>5. Blocked(r, e) <=>
        \E d \in job[r].package.imports[e] : result[r][d] \in {"failed", "skipped"}
  BY <1>4 DEF Blocked, Imports, Has
<1>6. ~ Blocked(r, e) => \A d \in job[r].package.imports[e] : result[r][d] = "passed"
  BY <1>1, UnblockedImports
<1>7. \E s \in {"passed", "failed", "skipped"} :
        /\ Right(job[r], result[r], e, s)
        /\ phase' = phase /\ Report(r, e, s)
        /\ context' = IF s = "passed" THEN Set(context, r, context[r] \cup {e}) ELSE context
  <2>1. CASE Blocked(r, e) /\ Report(r, e, "skipped") /\ UNCHANGED <<phase, context>>
    BY <1>4, <1>5, <2>1 DEF Right
  <2>2. CASE ~ Blocked(r, e) /\ Lookup(r, e, "passed") /\ Admit(r, e)
    <3>1. GoodFor(job[r], e)
      BY <1>1, <2>2, LookupTrue
    <3>2. /\ phase' = phase /\ Report(r, e, "passed")
          /\ context' = Set(context, r, context[r] \cup {e})
      BY <1>1, <2>2, <3>1, AdmitSucceeds
    <3>3. Right(job[r], result[r], e, "passed")
      BY <1>4, <1>6, <2>2, <3>1 DEF Right
    <3> QED BY <3>2, <3>3
  <2>3. CASE /\ ~ Blocked(r, e) /\ Lookup(r, e, "failed")
             /\ Report(r, e, "failed") /\ UNCHANGED <<phase, context>>
    <3>1. ~ GoodFor(job[r], e)
      BY <1>1, <2>3, LookupTrue
    <3>2. Right(job[r], result[r], e, "failed")
      BY <1>4, <1>6, <2>3, <3>1 DEF Right
    <3> QED BY <2>3, <3>2
  <2> QED BY <2>1, <2>2, <2>3
<1>8. pending'[r] = pending[r] \ {e} /\ runnable'[r] = runnable[r] \ {e}
  BY <1>1, <1>4 DEF TypeOK, Set
<1>9. RunOK(r)'
  BY <1>1, <1>7, <1>8, LayerStatus
<1>10. memo' \subseteq Keys \X {"passed", "failed"}
  BY <1>1 DEF TypeOK
<1>11. TypeOK' /\ Others(r)
  BY <1>1, <1>4, <1>7, <1>10, LayerStatusTyped
<1>12. MemoOK'
  BY <1>1 DEF MemoOK
<1> QED BY <1>1, <1>9, <1>11, <1>12, Frame DEF IInv

\* Classify, when the module has to be checked.
LEMMA ClassifyUnknown ==
  ASSUME IInv, NEW r \in Runs, phase[r] = "classify", NEW e \in pending[r],
         pending' = Set(pending, r, pending[r] \ {e}), ~ Blocked(r, e),
         runnable' = Set(runnable, r, runnable[r] \cup {e}),
         UNCHANGED <<phase, result, context>>,
         UNCHANGED <<memo, job, at, shard, working, broken, outcome, uses>>
  PROVE  IInv'
<1>1. TypeOK /\ MemoOK /\ RunOK(r) /\ \A x \in Runs : RunOK(x)
  BY DEF IInv
<1>2. job[r] \in Requests /\ Proper(job[r]) /\ AllRight(job[r], result[r])
  BY <1>1, RunStarted
<1>3. LayersOK(job[r], "classify", at[r], pending[r], runnable[r], result[r], context[r])
  BY <1>1 DEF RunOK
<1>4. /\ e \in Entries /\ result[r] \in [Entries -> Statuses]
      /\ job[r].package.imports[e] \subseteq Entries
  BY <1>1, <1>2, <1>3, RunTyped DEF LayersOK, Proper
<1>6. \A d \in job[r].package.imports[e] : result[r][d] = "passed"
  BY <1>1, UnblockedImports
<1>7. pending'[r] = pending[r] \ {e} /\ runnable'[r] = runnable[r] \cup {e}
  BY <1>1 DEF TypeOK, Set
<1>8. LayersOK(job[r], "classify", at[r], pending'[r], runnable'[r], result[r], context[r])
  <2>1. pending'[r] \cup runnable'[r] = pending[r] \cup runnable[r]
    BY <1>7
  <2> QED BY <1>3, <1>6, <1>7, <2>1 DEF LayersOK
<1>9. /\ WorkersOK(job[r], "classify", runnable'[r], shard[r], working[r], broken[r], outcome[r])
      /\ InOrderOK(job[r], "classify", at[r], result[r], context[r], uses[r])
      /\ EndsOK(job[r], "classify", pending'[r], runnable'[r], result[r], context[r])
  BY <1>1, <1>2 DEF RunOK, WorkersOK, InOrderOK, EndsOK
<1>10. RunOK(r)'
  BY <1>8, <1>9 DEF RunOK
<1>11. TypeOK'
  BY <1>1, <1>4 DEF TypeOK, Set
<1>12. Others(r)
  BY <1>1 DEF TypeOK, Others, Set
<1>13. MemoOK'
  BY <1>1 DEF MemoOK
<1> QED BY <1>1, <1>10, <1>11, <1>12, <1>13, Frame DEF IInv

\* Classify keeps the invariant.
LEMMA ClassifyIInv == ASSUME IInv, NEW r \in Runs, Classify(r) PROVE IInv'
<1>1. PICK e \in pending[r] :
        /\ pending' = Set(pending, r, pending[r] \ {e})
        /\ \/ /\ Blocked(r, e)
              /\ Report(r, e, "skipped")
              /\ UNCHANGED <<phase, runnable, context>>
           \/ /\ ~ Blocked(r, e)
              /\ Lookup(r, e, "passed")
              /\ Admit(r, e)
              /\ UNCHANGED runnable
           \/ /\ ~ Blocked(r, e)
              /\ Lookup(r, e, "failed")
              /\ Report(r, e, "failed")
              /\ UNCHANGED <<phase, runnable, context>>
           \/ /\ ~ Blocked(r, e)
              /\ Lookup(r, e, "miss")
              /\ runnable' = Set(runnable, r, runnable[r] \cup {e})
              /\ UNCHANGED <<phase, result, context>>
  BY DEF Classify
<1>2. /\ phase[r] = "classify"
      /\ UNCHANGED <<memo, job, at, shard, working, broken, outcome, uses>>
  BY DEF Classify
<1>4. CASE /\ ~ Blocked(r, e) /\ runnable' = Set(runnable, r, runnable[r] \cup {e})
           /\ UNCHANGED <<phase, result, context>>
  BY <1>1, <1>2, <1>4, ClassifyUnknown
<1>5. CASE Blocked(r, e) /\ Report(r, e, "skipped") /\ UNCHANGED <<phase, runnable, context>>
  BY <1>1, <1>2, <1>5, ClassifyKnown
<1>6. CASE ~ Blocked(r, e) /\ Lookup(r, e, "passed") /\ Admit(r, e) /\ UNCHANGED runnable
  BY <1>1, <1>2, <1>6, ClassifyKnown
<1>7. CASE /\ ~ Blocked(r, e) /\ Lookup(r, e, "failed") /\ Report(r, e, "failed")
           /\ UNCHANGED <<phase, runnable, context>>
  BY <1>1, <1>2, <1>7, ClassifyKnown
<1> QED BY <1>1, <1>4, <1>5, <1>6, <1>7

\* Giving the runnable modules to shards keeps the invariant.
LEMMA StartLayerIInv == ASSUME IInv, NEW r \in Runs, StartLayer(r) PROVE IInv'
<1>1. TypeOK /\ MemoOK /\ RunOK(r) /\ \A x \in Runs : RunOK(x)
  BY DEF IInv
<1>2. /\ phase[r] = "classify" /\ pending[r] = {}
      /\ phase' = Set(phase, r, "work")
      /\ UNCHANGED <<memo, job, at, pending, runnable, outcome, result, context, uses>>
  BY DEF StartLayer
<1>3. PICK n \in 1..Jobs : \E plan \in [runnable[r] -> 1..n], unspawned \in SUBSET (1..n) :
        /\ shard' = Set(shard, r, plan)
        /\ working' = Set(working, r, Spawned(n, unspawned))
        /\ broken' = Set(broken, r, unspawned)
  BY SMT DEF StartLayer
<1>4. PICK plan \in [runnable[r] -> 1..n], unspawned \in SUBSET (1..n) :
        /\ shard' = Set(shard, r, plan)
        /\ working' = Set(working, r, Spawned(n, unspawned))
        /\ broken' = Set(broken, r, unspawned)
  BY <1>3
<1>5. n \in Nat /\ 1..n \subseteq 1..Jobs
  BY VerifierAssumption, SMT
<1>6. /\ DOMAIN shard = Runs /\ shard'[r] = plan /\ DOMAIN shard' = Runs
      /\ \A x \in Runs \ {r} : shard'[x] = shard[x]
      /\ working'[r] = (1..n) \ unspawned /\ broken'[r] = unspawned /\ phase'[r] = "work"
  BY <1>1, <1>2, <1>4 DEF TypeOK, Set, Spawned
<1>7. TypeOK'
  <2>1. phase' \in [Runs -> Phases]
    BY <1>1, <1>2 DEF TypeOK, Set, Phases
  <2>2. /\ working' \in [Runs -> SUBSET (1..Jobs)]
        /\ broken' \in [Runs -> SUBSET (1..Jobs)]
    BY <1>1, <1>4, <1>5 DEF TypeOK, Set, Spawned
  <2>3. plan \in [DOMAIN plan -> 1..Jobs] /\ DOMAIN plan \subseteq Entries
    BY <1>1, <1>5, RunTyped
  <2>4. ASSUME NEW x \in Runs
        PROVE  DOMAIN shard'[x] \subseteq Entries /\ shard'[x] \in [DOMAIN shard'[x] -> 1..Jobs]
    BY <1>1, <1>6, <2>3 DEF TypeOK
  <2> QED BY <1>1, <1>2, <1>6, <2>1, <2>2, <2>4 DEF TypeOK
<1>8. Others(r)
  <2> SUFFICES ASSUME NEW x \in Runs \ {r}
               PROVE  /\ phase'[x] = phase[x] /\ shard'[x] = shard[x]
                      /\ working'[x] = working[x] /\ broken'[x] = broken[x]
    BY <1>2 DEF Others
  <2> QED BY <1>1, <1>2, <1>4, <1>6 DEF TypeOK, Set
<1>9. RunOK(r)'
  <2>1. LayersOK(job[r], "work", at[r], pending[r], runnable[r], result[r], context[r])
    BY <1>1, <1>2 DEF RunOK, LayersOK
  <2>2. WorkersOK(job[r], "work", runnable[r], shard'[r], working'[r], broken'[r], outcome[r])
    <3>1. DOMAIN outcome[r] = {}
      BY <1>1, <1>2 DEF RunOK, WorkersOK
    <3>2. \A e \in runnable[r] : shard'[r][e] \in working'[r] \cup broken'[r]
      BY <1>6
    <3> QED BY <1>6, <3>1, <3>2 DEF WorkersOK
  <2>3. InOrderOK(job[r], "work", at[r], result[r], context[r], uses[r])
    BY DEF InOrderOK
  <2>4. EndsOK(job[r], "work", pending[r], runnable[r], result[r], context[r])
    BY <1>1, <1>2 DEF RunOK, EndsOK
  <2> QED BY <1>2, <1>6, <2>1, <2>2, <2>3, <2>4 DEF RunOK
<1>10. MemoOK'
  BY <1>1, <1>2 DEF MemoOK
<1> QED BY <1>1, <1>7, <1>8, <1>9, <1>10, Frame DEF IInv

\* A worker that finishes its shard keeps the invariant: all imports of its modules
\* are verified, so it judges the modules alone.
LEMMA WorkIInv == ASSUME IInv, NEW r \in Runs, NEW s \in 1..Jobs, Work(r, s) PROVE IInv'
<1>1. TypeOK /\ MemoOK /\ RunOK(r) /\ \A x \in Runs : RunOK(x)
  BY DEF IInv
<1> DEFINE found == [e \in DOMAIN outcome[r] \cup Members(r, s) |->
                       IF e \in Members(r, s) THEN Verdict(r, e) ELSE outcome[r][e]]
<1>2. /\ phase[r] = "work"
      /\ working' = Set(working, r, working[r] \ {s})
      /\ outcome' = Set(outcome, r, found)
      /\ UNCHANGED <<memo, job, phase, at, pending, runnable, shard, broken, result,
                     context, uses>>
  BY DEF Work
<1>3. Members(r, s) = {e \in runnable[r] : shard[r][e] = s} /\ runnable[r] \subseteq Entries
  BY <1>1, RunTyped DEF Members
<1>4. /\ Proper(job[r]) /\ job[r] \in Requests
      /\ LayersOK(job[r], "work", at[r], pending[r], runnable[r], result[r], context[r])
      /\ WorkersOK(job[r], "work", runnable[r], shard[r], working[r], broken[r], outcome[r])
  BY <1>1, <1>2, RunStarted DEF RunOK
<1>5. \A e \in Members(r, s) : /\ Verdict(r, e) \in {"passed", "failed"}
                               /\ Verdict(r, e) = "passed" <=> GoodFor(job[r], e)
  <2> SUFFICES ASSUME NEW e \in Members(r, s)
               PROVE  job[r].package.imports[e] \subseteq context[r]
    BY VerdictTrue
  <2>1. e \in Entries /\ e \in runnable[r]
    BY <1>3
  <2>2. job[r].package.imports[e] \subseteq Entries
    BY <1>4, <2>1 DEF Proper
  <2>3. \A d \in job[r].package.imports[e] : result[r][d] = "passed"
    BY <1>4, <2>1 DEF LayersOK
  <2> QED BY <1>4, <2>2, <2>3 DEF LayersOK
<1>6. /\ DOMAIN found = DOMAIN outcome[r] \cup Members(r, s)
      /\ DOMAIN found \subseteq Entries
      /\ found \in [DOMAIN found -> {"passed", "failed"}]
      /\ \A e \in DOMAIN found :
           found[e] = IF e \in Members(r, s) THEN Verdict(r, e) ELSE outcome[r][e]
  <2>1. DOMAIN outcome[r] \subseteq Entries
    BY <1>1, RunTyped
  <2>2. \A e \in DOMAIN outcome[r] : outcome[r][e] \in {"passed", "failed"}
    BY <1>1, RunTyped
  <2> QED BY <1>3, <1>5, <2>1, <2>2
<1> HIDE DEF found
<1>7. /\ outcome'[r] = found /\ DOMAIN outcome' = Runs
      /\ \A x \in Runs \ {r} : outcome'[x] = outcome[x]
      /\ working'[r] = working[r] \ {s}
      /\ \A x \in Runs \ {r} : working'[x] = working[x]
      /\ working' \in [Runs -> SUBSET (1..Jobs)]
  BY <1>1, <1>2 DEF TypeOK, Set
<1>8. TypeOK'
  <2>1. ASSUME NEW x \in Runs
        PROVE  /\ DOMAIN outcome'[x] \subseteq Entries
               /\ outcome'[x] \in [DOMAIN outcome'[x] -> {"passed", "failed"}]
    BY <1>1, <1>6, <1>7 DEF TypeOK
  <2> QED BY <1>1, <1>2, <1>7, <2>1 DEF TypeOK
<1>9. Others(r)
  BY <1>2, <1>7 DEF Others
<1>10. WorkersOK(job[r], "work", runnable[r], shard[r], working'[r], broken[r], found)
  <2>1. ASSUME NEW e \in runnable[r]
        PROVE  e \in DOMAIN found \/ shard[r][e] \in working'[r] \cup broken[r]
    <3>1. e \in DOMAIN outcome[r] \/ shard[r][e] \in working[r] \cup broken[r]
      BY <1>4 DEF WorkersOK
    <3>2. shard[r][e] = s => e \in Members(r, s)
      BY <1>3
    <3> QED BY <1>6, <1>7, <3>1, <3>2
  <2>2. ASSUME NEW e \in runnable[r] \cap DOMAIN found
        PROVE  found[e] = "passed" <=> GoodFor(job[r], e)
    <3>1. CASE e \in Members(r, s)
      BY <1>5, <1>6, <3>1
    <3>2. CASE e \notin Members(r, s)
      <4>1. e \in DOMAIN outcome[r] /\ found[e] = outcome[r][e]
        BY <1>6, <3>2
      <4> QED BY <1>4, <4>1 DEF WorkersOK
    <3> QED BY <3>1, <3>2
  <2> QED BY <1>4, <2>1, <2>2 DEF WorkersOK
<1>11. RunOK(r)'
  BY <1>1, <1>2, <1>7, <1>10 DEF RunOK
<1>12. MemoOK'
  BY <1>1, <1>2 DEF MemoOK
<1> QED BY <1>1, <1>8, <1>9, <1>11, <1>12, Frame DEF IInv

\* A panic keeps the invariant: the shard counts as broken.
LEMMA PanicIInv == ASSUME IInv, NEW r \in Runs, NEW s \in 1..Jobs, Panic(r, s) PROVE IInv'
<1>1. TypeOK /\ MemoOK /\ RunOK(r) /\ \A x \in Runs : RunOK(x)
  BY DEF IInv
<1>2. /\ phase[r] = "work"
      /\ working' = Set(working, r, working[r] \ {s})
      /\ broken' = Set(broken, r, broken[r] \cup {s})
      /\ UNCHANGED <<memo, job, phase, at, pending, runnable, shard, outcome, result,
                     context, uses>>
  BY DEF Panic
<1>3. /\ working'[r] = working[r] \ {s} /\ broken'[r] = broken[r] \cup {s}
      /\ \A x \in Runs \ {r} : working'[x] = working[x] /\ broken'[x] = broken[x]
      /\ working' \in [Runs -> SUBSET (1..Jobs)] /\ broken' \in [Runs -> SUBSET (1..Jobs)]
  BY <1>1, <1>2 DEF TypeOK, Set
<1>4. TypeOK' /\ Others(r)
  BY <1>1, <1>2, <1>3 DEF TypeOK, Others
<1>5. WorkersOK(job[r], "work", runnable[r], shard[r], working'[r], broken'[r], outcome[r])
  <2>1. working'[r] \cup broken'[r] = (working[r] \cup broken[r]) \cup {s}
    BY <1>3
  <2> QED BY <1>1, <1>2, <2>1 DEF RunOK, WorkersOK
<1>6. RunOK(r)'
  BY <1>1, <1>2, <1>5 DEF RunOK
<1>7. MemoOK'
  BY <1>1, <1>2 DEF MemoOK
<1> QED BY <1>1, <1>4, <1>6, <1>7, Frame DEF IInv

\* Joining the threads keeps the invariant: when none was lost every module of
\* the layer has an outcome.
LEMMA JoinIInv == ASSUME IInv, NEW r \in Runs, Join(r) PROVE IInv'
<1>1. TypeOK /\ MemoOK /\ RunOK(r) /\ \A x \in Runs : RunOK(x)
  BY DEF IInv
<1>2. /\ phase[r] = "work" /\ working[r] = {}
      /\ UNCHANGED <<memo, job, at, pending, runnable, working, broken, result, context,
                     uses>>
  BY DEF Join
<1>3. /\ job[r] \in Requests /\ AllRight(job[r], result[r])
      /\ LayersOK(job[r], "work", at[r], pending[r], runnable[r], result[r], context[r])
      /\ WorkersOK(job[r], "work", runnable[r], shard[r], working[r], broken[r], outcome[r])
  BY <1>1, <1>2, RunStarted DEF RunOK
<1>4. MemoOK'
  BY <1>1, <1>2 DEF MemoOK
<1>5. CASE broken[r] = {} /\ phase' = Set(phase, r, "merge") /\ UNCHANGED <<shard, outcome>>
  <2>1. phase'[r] = "merge" /\ phase' \in [Runs -> Phases]
        /\ \A x \in Runs \ {r} : phase'[x] = phase[x]
    BY <1>1, <1>5 DEF TypeOK, Set, Phases
  <2>2. TypeOK' /\ Others(r)
    BY <1>1, <1>2, <1>5, <2>1 DEF TypeOK, Others
  <2>3. LayersOK(job[r], "merge", at[r], pending[r], runnable[r], result[r], context[r])
    BY <1>3 DEF LayersOK
  <2>4. WorkersOK(job[r], "merge", runnable[r], shard[r], working[r], broken[r], outcome[r])
    BY <1>2, <1>3, <1>5 DEF WorkersOK
  <2>5. /\ InOrderOK(job[r], "merge", at[r], result[r], context[r], uses[r])
        /\ EndsOK(job[r], "merge", pending[r], runnable[r], result[r], context[r])
    BY <1>3 DEF InOrderOK, EndsOK
  <2>6. RunOK(r)'
    BY <1>2, <1>5, <2>1, <2>3, <2>4, <2>5 DEF RunOK
  <2> QED BY <1>1, <1>4, <2>2, <2>6, Frame DEF IInv
<1>6. CASE /\ phase' = Set(phase, r, "worker_lost")
           /\ shard' = Set(shard, r, NoShards)
           /\ outcome' = Set(outcome, r, NoOutcome)
  <2>1. /\ phase'[r] = "worker_lost" /\ phase' \in [Runs -> Phases]
        /\ \A x \in Runs \ {r} : phase'[x] = phase[x]
    BY <1>1, <1>6 DEF TypeOK, Set, Phases
  <2>2. /\ DOMAIN shard' = Runs /\ DOMAIN outcome' = Runs
        /\ shard'[r] = NoShards /\ outcome'[r] = NoOutcome
        /\ \A x \in Runs \ {r} : shard'[x] = shard[x] /\ outcome'[x] = outcome[x]
    BY <1>1, <1>6 DEF TypeOK, Set
  <2>3. /\ DOMAIN NoShards = {} /\ NoShards \in [DOMAIN NoShards -> 1..Jobs]
        /\ DOMAIN NoOutcome = {} /\ NoOutcome \in [DOMAIN NoOutcome -> {"passed", "failed"}]
    BY DEF NoShards, NoOutcome
  <2>4. \A x \in Runs : /\ DOMAIN shard'[x] \subseteq Entries
                        /\ shard'[x] \in [DOMAIN shard'[x] -> 1..Jobs]
                        /\ DOMAIN outcome'[x] \subseteq Entries
                        /\ outcome'[x] \in [DOMAIN outcome'[x] -> {"passed", "failed"}]
    BY <1>1, <2>2, <2>3 DEF TypeOK
  <2>5. TypeOK' /\ Others(r)
    BY <1>1, <1>2, <2>1, <2>2, <2>4 DEF TypeOK, Others
  <2>6. RunOK(r)'
    BY <1>2, <1>3, <2>1 DEF RunOK, LayersOK, WorkersOK, InOrderOK, EndsOK
  <2> QED BY <1>1, <1>4, <2>5, <2>6, Frame DEF IInv
<1> QED BY <1>5, <1>6 DEF Join

\* Taking over a worker's result keeps the invariant.
LEMMA MergeIInv == ASSUME IInv, NEW r \in Runs, Merge(r) PROVE IInv'
<1>1. TypeOK /\ MemoOK /\ RunOK(r) /\ \A x \in Runs : RunOK(x)
  BY DEF IInv
<1>2. PICK e \in runnable[r] :
        /\ runnable' = Set(runnable, r, runnable[r] \ {e})
        /\ Insert(r, e, outcome[r][e])
        /\ \/ outcome[r][e] = "passed" /\ Admit(r, e)
           \/ /\ outcome[r][e] = "failed"
              /\ Report(r, e, "failed")
              /\ UNCHANGED <<phase, context>>
  BY DEF Merge
<1>3. phase[r] = "merge" /\ UNCHANGED <<job, at, pending, shard, working, broken, outcome, uses>>
  BY DEF Merge
<1>4. /\ job[r] \in Requests /\ Proper(job[r])
      /\ LayersOK(job[r], "merge", at[r], pending[r], runnable[r], result[r], context[r])
      /\ WorkersOK(job[r], "merge", runnable[r], shard[r], working[r], broken[r], outcome[r])
  BY <1>1, <1>3, RunStarted DEF RunOK
<1>5. /\ e \in Entries /\ e \in job[r].selected /\ e \notin pending[r]
      /\ \A d \in job[r].package.imports[e] : result[r][d] = "passed"
  BY <1>4 DEF LayersOK, Proper
<1>6. outcome[r][e] = "passed" <=> GoodFor(job[r], e)
  BY <1>4 DEF WorkersOK
<1>7. \E s \in {"passed", "failed", "skipped"} :
        /\ Right(job[r], result[r], e, s)
        /\ phase' = phase /\ Report(r, e, s)
        /\ context' = IF s = "passed" THEN Set(context, r, context[r] \cup {e}) ELSE context
  <2>1. CASE outcome[r][e] = "passed" /\ Admit(r, e)
    <3>1. /\ phase' = phase /\ Report(r, e, "passed")
          /\ context' = Set(context, r, context[r] \cup {e})
      BY <1>1, <1>3, <1>6, <2>1, AdmitSucceeds
    <3>2. Right(job[r], result[r], e, "passed")
      BY <1>5, <1>6, <2>1 DEF Right
    <3> QED BY <3>1, <3>2
  <2>2. CASE outcome[r][e] = "failed" /\ Report(r, e, "failed") /\ UNCHANGED <<phase, context>>
    <3>1. Right(job[r], result[r], e, "failed")
      BY <1>5, <1>6, <2>2 DEF Right
    <3> QED BY <2>2, <3>1
  <2> QED BY <1>2, <2>1, <2>2
<1>8. pending'[r] = pending[r] \ {e} /\ runnable'[r] = runnable[r] \ {e}
  BY <1>1, <1>2, <1>3, <1>5 DEF TypeOK, Set
<1>9. RunOK(r)'
  BY <1>1, <1>3, <1>7, <1>8, LayerStatus
<1>10. MemoOK' /\ memo' \subseteq Keys \X {"passed", "failed"}
  BY <1>1, <1>2, <1>4, <1>5, <1>6, InsertTrue
<1>11. TypeOK' /\ Others(r)
  BY <1>1, <1>2, <1>3, <1>5, <1>7, <1>10, LayerStatusTyped
<1> QED BY <1>1, <1>9, <1>10, <1>11, Frame DEF IInv

\* Going on to the next layer, or to the report, keeps the invariant.
LEMMA EndLayerIInv == ASSUME IInv, NEW r \in Runs, EndLayer(r) PROVE IInv'
<1>1. TypeOK /\ MemoOK /\ RunOK(r) /\ \A x \in Runs : RunOK(x)
  BY DEF IInv
<1> DEFINE ph == IF at[r] + 1 < N THEN "classify" ELSE "done"
<1>2. /\ phase[r] \in {"classify", "merge"} /\ runnable[r] = {}
      /\ phase[r] = "classify" => pending[r] = {}
      /\ at' = Set(at, r, at[r] + 1)
      /\ pending' = Set(pending, r, Layer(r, at[r] + 1))
      /\ phase' = Set(phase, r, ph)
      /\ shard' = Set(shard, r, NoShards)
      /\ outcome' = Set(outcome, r, NoOutcome)
      /\ UNCHANGED <<memo, job, runnable, working, broken, result, context, uses>>
  BY DEF EndLayer
<1>3. /\ job[r] \in Requests /\ Proper(job[r]) /\ AllRight(job[r], result[r])
      /\ result[r] \in [Entries -> Statuses]
      /\ LayersOK(job[r], phase[r], at[r], pending[r], runnable[r], result[r], context[r])
  BY <1>1, <1>2, RunStarted, RunTyped DEF RunOK
<1>4. pending[r] = {} /\ at[r] \in 0..(N - 1)
  BY <1>2, <1>3 DEF LayersOK
<1>5. Layer(r, at[r] + 1) = InLayer(job[r], at[r] + 1)
  BY DEF Layer, Selected, InLayer
<1>6. /\ at[r] + 1 < N => LayersOK(job[r], "classify", at[r] + 1, Layer(r, at[r] + 1),
                                   {}, result[r], context[r])
      /\ ~ (at[r] + 1 < N) => \A e \in job[r].selected : result[r][e] # "none"
  <2>1. LayersOK(job[r], phase[r], at[r], {}, {}, result[r], context[r])
    BY <1>2, <1>3, <1>4
  <2> QED BY <1>2, <1>3, <1>5, <2>1, LayerNext, SMT
<1>7. Layer(r, at[r] + 1) \subseteq Entries /\ at[r] + 1 \in 0..(N + 1)
      /\ ph \in {"classify", "done"}
  BY <1>3, <1>4, <1>5, VerifierAssumption, SMT DEF Proper, InLayer
<1> HIDE DEF ph
<1>8. /\ phase'[r] = ph /\ phase' \in [Runs -> Phases]
      /\ at'[r] = at[r] + 1 /\ at' \in [Runs -> 0..(N + 1)]
      /\ pending'[r] = Layer(r, at[r] + 1) /\ pending' \in [Runs -> SUBSET Entries]
  BY <1>1, <1>2, <1>7 DEF TypeOK, Set, Phases
<1>9. /\ DOMAIN shard' = Runs /\ DOMAIN outcome' = Runs
      /\ shard'[r] = NoShards /\ outcome'[r] = NoOutcome
  BY <1>1, <1>2 DEF TypeOK, Set
<1>10. Others(r)
  <2> SUFFICES ASSUME NEW x \in Runs \ {r}
               PROVE  /\ phase'[x] = phase[x] /\ at'[x] = at[x] /\ pending'[x] = pending[x]
                      /\ shard'[x] = shard[x] /\ outcome'[x] = outcome[x]
    BY <1>2 DEF Others
  <2> QED BY <1>1, <1>2 DEF TypeOK, Set
<1>11. /\ DOMAIN NoShards = {} /\ NoShards \in [DOMAIN NoShards -> 1..Jobs]
       /\ DOMAIN NoOutcome = {} /\ NoOutcome \in [DOMAIN NoOutcome -> {"passed", "failed"}]
  BY DEF NoShards, NoOutcome
<1>12. \A x \in Runs : /\ DOMAIN shard'[x] \subseteq Entries
                       /\ shard'[x] \in [DOMAIN shard'[x] -> 1..Jobs]
                       /\ DOMAIN outcome'[x] \subseteq Entries
                       /\ outcome'[x] \in [DOMAIN outcome'[x] -> {"passed", "failed"}]
  BY <1>1, <1>9, <1>10, <1>11 DEF TypeOK, Others
<1>13. TypeOK'
  BY <1>1, <1>2, <1>8, <1>9, <1>12 DEF TypeOK
<1>14. /\ LayersOK(job[r], ph, at[r] + 1, Layer(r, at[r] + 1), {}, result[r], context[r])
       /\ EndsOK(job[r], ph, Layer(r, at[r] + 1), {}, result[r], context[r])
  BY <1>3, <1>6 DEF ph, LayersOK, EndsOK
<1>15. /\ WorkersOK(job[r], ph, {}, shard'[r], working[r], broken[r], outcome'[r])
       /\ InOrderOK(job[r], ph, at[r] + 1, result[r], context[r], uses[r])
  BY <1>7, <1>9, <1>11 DEF WorkersOK, InOrderOK
<1>16. RunOK(r)'
  BY <1>2, <1>8, <1>14, <1>15 DEF RunOK
<1>17. MemoOK'
  BY <1>1, <1>2 DEF MemoOK
<1> QED BY <1>1, <1>10, <1>13, <1>16, <1>17, Frame DEF IInv

-----------------------------------------------------------------------------
(* The executions that go through the modules in order *)

\* The imports still to come are counted down by one at each module that has them.
LEMMA LaterStep ==
  ASSUME NEW q, Proper(q), NEW a \in 1..(N + 1), NEW d \in Entries
  PROVE  /\ Cardinality(Later(q, a, d)) \in Nat
         /\ Cardinality(Later(q, a, d)) = 0 <=> Later(q, a, d) = {}
         /\ (a \in q.selected /\ d \in q.package.imports[a]) =>
              /\ Later(q, a, d) # {}
              /\ Cardinality(Later(q, a, d)) = Cardinality(Later(q, a + 1, d)) + 1
         /\ ~ (a \in q.selected /\ d \in q.package.imports[a]) =>
              Later(q, a, d) = Later(q, a + 1, d)
<1>0. a \in Int /\ \A e \in Entries : e \in Int /\ (e >= a <=> (e >= a + 1 \/ e = a))
  BY SMT, VerifierAssumption DEF Entries
<1>1. IsFiniteSet(Entries) /\ q.selected \subseteq Entries /\ Entries \subseteq Int
  BY SMT, FS_Interval, VerifierAssumption DEF Entries, Proper
<1>2. IsFiniteSet(Later(q, a, d)) /\ IsFiniteSet(Later(q, a + 1, d))
  BY <1>1, FS_Subset DEF Later
<1>3. /\ Cardinality(Later(q, a, d)) \in Nat
      /\ Cardinality(Later(q, a, d)) = 0 <=> Later(q, a, d) = {}
  BY <1>2, FS_CardinalityType, FS_EmptySet
<1>4. ASSUME a \in q.selected, d \in q.package.imports[a]
      PROVE  /\ Later(q, a, d) # {}
             /\ Cardinality(Later(q, a, d)) = Cardinality(Later(q, a + 1, d)) + 1
  <2>1. Later(q, a, d) = Later(q, a + 1, d) \cup {a}
    BY <1>0, <1>1, <1>4 DEF Later
  <2>2. a \notin Later(q, a + 1, d)
    BY SMT DEF Later
  <2> QED BY <1>2, <2>1, <2>2, FS_AddElement
<1>5. ASSUME ~ (a \in q.selected /\ d \in q.package.imports[a])
      PROVE  Later(q, a, d) = Later(q, a + 1, d)
  <2>1. \A e \in q.selected : (e >= a /\ d \in q.package.imports[e]) <=>
                                (e >= a + 1 /\ d \in q.package.imports[e])
    BY <1>0, <1>1, <1>5
  <2> QED BY <2>1 DEF Later
<1> QED BY <1>3, <1>4, <1>5

\* A run without failures is at the live module a.
Reaches(q, ph, a, res, ctx, us) ==
  /\ Proper(q) /\ ph \in {"next", "check"} /\ a \in q.live
  /\ res \in [Entries -> Statuses] /\ AllRight(q, res) /\ NoFailure(res)
  /\ InOrderOK(q, ph, a, res, ctx, us)

\* The imports of that module have passed.
LEMMA LiveImports ==
  ASSUME NEW q, NEW ph, NEW a, NEW res, NEW ctx, NEW us, Reaches(q, ph, a, res, ctx, us)
  PROVE  \A d \in q.package.imports[a] : res[d] = "passed" /\ d \in ctx
<1> USE DEF Reaches
<1>1. a \in Entries /\ a \in q.selected /\ q.strategy # "layered" /\ a \in 1..(N + 1)
  BY DEF Proper, InOrderOK
<1> SUFFICES ASSUME NEW d \in q.package.imports[a] PROVE res[d] = "passed" /\ d \in ctx
  OBVIOUS
<1>2. d \in Entries /\ d < a /\ d \in q.selected /\ d \in q.live
  BY <1>1 DEF Proper
<1>3. res[d] # "none"
  BY <1>2 DEF InOrderOK
<1>4. res[d] # "skipped"
  BY <1>1, <1>2, NothingSkipped
<1>5. res[d] # "cached"
  BY <1>2 DEF AllRight, Right
<1>6. res[d] = "passed"
  BY <1>2, <1>3, <1>4, <1>5 DEF Statuses, NoFailure
<1>7. Later(q, a, d) # {}
  BY <1>1, <1>2, LaterStep
<1>8. CASE q.strategy = "serial"
  BY <1>2, <1>6, <1>8 DEF InOrderOK
<1>9. CASE q.strategy = "reference"
  BY <1>2, <1>6, <1>7, <1>9 DEF InOrderOK, Retained
<1> QED BY <1>1, <1>6, <1>8, <1>9 DEF Proper

\* Module a gets status s; the contexts become what they should be.
ReportsInOrder(q, ph, a, res, ctx, us, s, res2, ctx2, us2) ==
  /\ Proper(q) /\ ph \in {"next", "check"} /\ res \in [Entries -> Statuses]
  /\ InOrderOK(q, ph, a, res, ctx, us)
  /\ a \in q.selected /\ s \in Statuses \ {"none"} /\ Reported(res, a, s, res2)
  /\ q.strategy = "serial" => Grown(ctx, a, s, ctx2)
  /\ Retained(q, a + 1, res2, ctx2, us2)

\* The module at hand gets its result.
LEMMA InOrderReport ==
  ASSUME NEW q, NEW ph, NEW a, NEW res, NEW ctx, NEW us,
         NEW s, NEW res2, NEW ctx2, NEW us2,
         ReportsInOrder(q, ph, a, res, ctx, us, s, res2, ctx2, us2)
  PROVE  InOrderOK(q, "next", a + 1, res2, ctx2, us2)
<1> USE DEF ReportsInOrder
<1>1. a \in Entries /\ a \in 1..N /\ N \in Nat
  BY VerifierAssumption DEF Proper, Entries
<1>2. res[a] = "none"
  BY SMT, <1>1 DEF InOrderOK
<1>3. \A x \in Entries : res2[x] = IF x = a THEN s ELSE res[x]
  BY <1>1 DEF Reported
<1>4. \A x \in Entries : (res2[x] # "none") <=> (x \in q.selected /\ x < a + 1)
  <2> SUFFICES ASSUME NEW x \in Entries
               PROVE  (res2[x] # "none") <=> (x \in q.selected /\ x < a + 1)
    OBVIOUS
  <2>1. (res[x] # "none") <=> (x \in q.selected /\ x < a)
    BY DEF InOrderOK
  <2> QED BY SMT, <1>1, <1>3, <2>1 DEF Entries
<1>5. q.strategy = "serial" => \A x \in Entries : x \in ctx2 <=> res2[x] = "passed"
  <2> SUFFICES ASSUME q.strategy = "serial", NEW x \in Entries
               PROVE  x \in ctx2 <=> res2[x] = "passed"
    OBVIOUS
  <2>1. x \in ctx <=> res[x] = "passed"
    BY DEF InOrderOK
  <2> QED BY <1>2, <1>3, <2>1 DEF Grown
<1>6. a + 1 \in 1..(N + 1)
  BY SMT, <1>1
<1>7. q.strategy # "layered"
  BY DEF InOrderOK
<1> QED BY <1>4, <1>5, <1>6, <1>7 DEF InOrderOK

\* Module a passes the reference checker.
PassesReference(q, ph, a, res, ctx, us, res2, ctx2, us2) ==
  /\ Proper(q) /\ ph \in {"next", "check"} /\ res \in [Entries -> Statuses]
  /\ NoFailure(res) /\ InOrderOK(q, ph, a, res, ctx, us)
  /\ q.strategy = "reference" /\ a \in q.selected /\ Reported(res, a, "passed", res2)
  /\ ctx2 = (ctx \cup (IF us[a] > 0 THEN {a} ELSE {}))
              \ {d \in q.package.imports[a] : us[d] = 1}
  /\ us2 = [d \in Entries |-> IF d \in q.package.imports[a] /\ us[d] > 0
                              THEN us[d] - 1 ELSE us[d]]

\* A module that passes the reference checker is kept for the modules that import
\* it, and its imports are retired when it was the last to need them.
LEMMA InOrderRetire ==
  ASSUME NEW q, NEW ph, NEW a, NEW res, NEW ctx, NEW us,
         NEW res2, NEW ctx2, NEW us2,
         PassesReference(q, ph, a, res, ctx, us, res2, ctx2, us2)
  PROVE  InOrderOK(q, "next", a + 1, res2, ctx2, us2)
<1> USE DEF PassesReference
<1>1. a \in Entries /\ a \in 1..(N + 1)
  BY DEF Proper, InOrderOK
<1>2. ASSUME NEW d \in Entries
      PROVE  /\ d \in ctx2 <=> (res2[d] = "passed" /\ Later(q, a + 1, d) # {})
             /\ us2[d] = Cardinality(Later(q, a + 1, d))
  <2>1. /\ d \in ctx <=> (res[d] = "passed" /\ Later(q, a, d) # {})
        /\ us[d] = Cardinality(Later(q, a, d))
    BY DEF InOrderOK, Retained
  <2>2. res2[d] = IF d = a THEN "passed" ELSE res[d]
    BY <1>1 DEF Reported
  <2>3. a \notin q.package.imports[a]
    BY SMT, <1>1 DEF Proper, Entries
  <2>4. a + 1 \in 1..(N + 1)
    BY SMT, <1>1, VerifierAssumption DEF Entries
  <2>5. /\ Cardinality(Later(q, a + 1, d)) \in Nat
        /\ Cardinality(Later(q, a + 1, d)) = 0 <=> Later(q, a + 1, d) = {}
        /\ Cardinality(Later(q, a, d)) \in Nat
        /\ Cardinality(Later(q, a, d)) = 0 <=> Later(q, a, d) = {}
    BY <1>1, <2>4, LaterStep
  <2>6. CASE d \in q.package.imports[a]
    <3>1. /\ Later(q, a, d) # {} /\ d # a
          /\ Cardinality(Later(q, a, d)) = Cardinality(Later(q, a + 1, d)) + 1
      BY <1>1, <2>3, <2>6, LaterStep
    <3>2. us[d] = 1 <=> Later(q, a + 1, d) = {}
      BY SMT, <2>1, <2>5, <3>1
    <3>3. d \in ctx2 <=> (d \in ctx /\ us[d] # 1)
      BY <2>6, <3>1
    <3>4. us2[d] = us[d] - 1
      BY SMT, <2>1, <2>5, <2>6, <3>1
    <3> QED BY SMT, <2>1, <2>2, <2>5, <3>1, <3>2, <3>3, <3>4
  <2>7. CASE d \notin q.package.imports[a]
    <3>1. Later(q, a, d) = Later(q, a + 1, d)
      BY <1>1, <2>7, LaterStep
    <3>2. us2[d] = us[d]
      BY <2>7
    <3>3. d \in ctx2 <=> (d \in ctx \/ (d = a /\ us[a] > 0))
      BY <2>7
    <3>4. us[d] > 0 <=> Later(q, a, d) # {}
      BY SMT, <2>1, <2>5
    <3> QED BY <2>1, <2>2, <3>1, <3>2, <3>3, <3>4
  <2> QED BY <2>6, <2>7
<1>3. q.strategy # "serial" /\ "passed" \in Statuses \ {"none"}
  BY DEF Statuses
<1>4. Retained(q, a + 1, res2, ctx2, us2)
  BY <1>2 DEF Retained
<1>5. ReportsInOrder(q, ph, a, res, ctx, us, "passed", res2, ctx2, us2)
  BY <1>3, <1>4 DEF ReportsInOrder
<1> QED BY <1>5, InOrderReport

\* An entry that is not selected changes nothing.
LEMMA InOrderPassBy ==
  ASSUME NEW q, Proper(q), NEW a \in Entries \ q.selected, NEW res, NEW ctx, NEW us,
         InOrderOK(q, "next", a, res, ctx, us)
  PROVE  InOrderOK(q, "next", a + 1, res, ctx, us)
<1>1. a \in 1..(N + 1) /\ a + 1 \in 1..(N + 1)
  BY SMT, VerifierAssumption DEF Entries
<1>2. \A d \in Entries : Later(q, a, d) = Later(q, a + 1, d)
  BY <1>1, LaterStep
<1>3. \A e \in Entries : (e \in q.selected /\ e < a) <=> (e \in q.selected /\ e < a + 1)
  BY SMT, <1>1 DEF Entries
<1> QED BY <1>1, <1>2, <1>3 DEF InOrderOK, Retained

-----------------------------------------------------------------------------
(* The steps of these executions *)


\* The module at hand gets a right result and the run goes on to the next one.
LEMMA InOrderStatus ==
  ASSUME TypeOK, NEW r \in Runs, RunOK(r), phase[r] \in {"next", "check"},
         at[r] \in job[r].selected, NEW s \in Statuses \ {"none"},
         Right(job[r], result[r], at[r], s), Report(r, at[r], s),
         Advance(r), phase'[r] = "next", UNCHANGED <<job, layered>>,
         job[r].strategy = "serial" => Grown(context[r], at[r], s, context'[r]),
         Retained(job[r], at[r] + 1, result'[r], context'[r], uses'[r])
  PROVE  RunOK(r)'
<1> DEFINE q == job[r]
           res == result[r]
<1>1. Proper(q) /\ q \in Requests /\ AllRight(q, res)
  BY RunStarted
<1>2. /\ res \in [Entries -> Statuses] /\ at[r] \in Entries
      /\ InOrderOK(q, phase[r], at[r], res, context[r], uses[r])
  BY <1>1, RunTyped DEF RunOK, Proper
<1>3. at'[r] = at[r] + 1 /\ Reported(res, at[r], s, result'[r])
  BY DEF Report, Reported, Advance, Set, TypeOK
<1>4. /\ pending'[r] = pending[r] /\ runnable'[r] = runnable[r] /\ shard'[r] = shard[r]
      /\ working'[r] = working[r] /\ broken'[r] = broken[r] /\ outcome'[r] = outcome[r]
  BY DEF layered
<1> HIDE DEF q, res
<1>5. InOrderOK(q, "next", at[r] + 1, result'[r], context'[r], uses'[r])
  <2>1. ReportsInOrder(q, phase[r], at[r], res, context[r], uses[r], s, result'[r],
                       context'[r], uses'[r])
    BY <1>1, <1>2, <1>3 DEF ReportsInOrder, q
  <2> QED BY <2>1, InOrderReport
<1>6. res[at[r]] = "none"
  BY <1>2, SMT DEF InOrderOK
<1>7. AllRight(q, result'[r])
  BY <1>1, <1>2, <1>3, <1>6, ReportRight DEF q, res
<1>8. /\ LayersOK(q, "next", at'[r], pending[r], runnable[r], result'[r], context'[r])
      /\ WorkersOK(q, "next", runnable[r], shard[r], working[r], broken[r], outcome[r])
      /\ EndsOK(q, "next", pending[r], runnable[r], result'[r], context'[r])
  BY <1>1, <1>7 DEF LayersOK, WorkersOK, EndsOK
<1> QED BY <1>3, <1>4, <1>5, <1>8 DEF RunOK, q

\* The types after such a step.
LEMMA InOrderTyped ==
  ASSUME TypeOK, NEW r \in Runs, at[r] \in Entries, NEW s \in Statuses,
         Report(r, at[r], s), Advance(r), UNCHANGED <<job, layered>>,
         phase' = phase \/ phase' = Set(phase, r, "next"),
         memo' \subseteq Keys \X {"passed", "failed"},
         context' \in [Runs -> SUBSET Entries], uses' \in [Runs -> [Entries -> Nat]],
         \A x \in Runs \ {r} : context'[x] = context[x] /\ uses'[x] = uses[x]
  PROVE  TypeOK' /\ Others(r)
<1>1. /\ result' \in [Runs -> [Entries -> {"none", "passed", "failed", "skipped", "cached"}]]
      /\ \A x \in Runs \ {r} : result'[x] = result[x]
  BY DEF TypeOK, Report, Statuses
<1>2. at[r] + 1 \in 0..(N + 1)
  BY VerifierAssumption, SMT DEF Entries
<1>3. at' \in [Runs -> 0..(N + 1)] /\ \A x \in Runs \ {r} : at'[x] = at[x]
  BY <1>2 DEF TypeOK, Advance, Set
<1>4. phase' \in [Runs -> Phases] /\ \A x \in Runs \ {r} : phase'[x] = phase[x]
  <2>1. phase \in [Runs -> Phases] /\ "next" \in Phases
    BY DEF TypeOK, Phases
  <2>2. CASE phase' = phase
    BY <2>1, <2>2
  <2>3. CASE phase' = Set(phase, r, "next")
    BY <2>1, <2>3 DEF Set
  <2> QED BY <2>2, <2>3
<1>5. UNCHANGED <<job, pending, runnable, shard, working, broken, outcome>>
  BY DEF layered
<1>6. TypeOK'
  BY <1>1, <1>3, <1>4, <1>5 DEF TypeOK
<1> QED BY <1>1, <1>3, <1>4, <1>5, <1>6 DEF Others

\* What recording and retiring does to the contexts of run r.
LEMMA RetireTyped ==
  ASSUME TypeOK, NEW r \in Runs, NEW e \in Entries, RecordAndRetire(r, e)
  PROVE  /\ context' \in [Runs -> SUBSET Entries] /\ uses' \in [Runs -> [Entries -> Nat]]
         /\ \A x \in Runs \ {r} : context'[x] = context[x] /\ uses'[x] = uses[x]
         /\ context'[r] = (context[r] \cup (IF uses[r][e] > 0 THEN {e} ELSE {}))
                            \ {d \in job[r].package.imports[e] : uses[r][d] = 1}
         /\ uses'[r] = [d \in Entries |->
                          IF d \in job[r].package.imports[e] /\ uses[r][d] > 0
                          THEN uses[r][d] - 1 ELSE uses[r][d]]
<1> DEFINE C == (context[r] \cup (IF uses[r][e] > 0 THEN {e} ELSE {})) \ Retired(r, e)
           U == [d \in Entries |-> IF d \in Imports(r, e) /\ uses[r][d] > 0
                                   THEN uses[r][d] - 1 ELSE uses[r][d]]
<1>1. context' = Set(context, r, C) /\ uses' = Set(uses, r, U)
  BY DEF RecordAndRetire
<1>2. /\ context \in [Runs -> SUBSET Entries] /\ uses \in [Runs -> [Entries -> Nat]]
  BY DEF TypeOK
<1>3. C \in SUBSET Entries
  BY <1>2
<1>4. U \in [Entries -> Nat]
  BY <1>2, SMT
<1>5. /\ C = (context[r] \cup (IF uses[r][e] > 0 THEN {e} ELSE {}))
               \ {d \in job[r].package.imports[e] : uses[r][d] = 1}
      /\ U = [d \in Entries |-> IF d \in job[r].package.imports[e] /\ uses[r][d] > 0
                                THEN uses[r][d] - 1 ELSE uses[r][d]]
  BY DEF Retired, Imports
<1> HIDE DEF C, U
<1>6. /\ context' \in [Runs -> SUBSET Entries] /\ uses' \in [Runs -> [Entries -> Nat]]
      /\ \A x \in Runs \ {r} : context'[x] = context[x] /\ uses'[x] = uses[x]
      /\ context'[r] = C /\ uses'[r] = U
  BY <1>1, <1>2, <1>3, <1>4 DEF Set
<1> QED BY <1>5, <1>6

\* What dropping the contexts does to them.
LEMMA DropTyped ==
  ASSUME TypeOK, NEW r \in Runs, DropContexts(r)
  PROVE  /\ context' \in [Runs -> SUBSET Entries] /\ uses' \in [Runs -> [Entries -> Nat]]
         /\ \A x \in Runs \ {r} : context'[x] = context[x] /\ uses'[x] = uses[x]
<1>1. /\ context \in [Runs -> SUBSET Entries] /\ uses \in [Runs -> [Entries -> Nat]]
  BY DEF TypeOK
<1>2. {} \in SUBSET Entries /\ [d \in Entries |-> 0] \in [Entries -> Nat]
  OBVIOUS
<1> QED BY <1>1, <1>2 DEF DropContexts, Set

\* After a failure nothing has to be retained.
LEMMA FailureRetainsNothing ==
  ASSUME NEW q, NEW a, NEW res, NEW ctx, NEW us, NEW e \in Entries, res[e] = "failed"
  PROVE  Retained(q, a, res, ctx, us)
BY DEF Retained, NoFailure

\* Where a run that goes in order is.
LEMMA InOrderAt ==
  ASSUME IInv, NEW r \in Runs, phase[r] \in {"next", "check"}
  PROVE  /\ TypeOK /\ MemoOK /\ RunOK(r) /\ \A x \in Runs : RunOK(x)
         /\ job[r] \in Requests /\ Proper(job[r]) /\ AllRight(job[r], result[r])
         /\ result[r] \in [Entries -> Statuses]
         /\ InOrderOK(job[r], phase[r], at[r], result[r], context[r], uses[r])
         /\ job[r].strategy \in {"serial", "reference"}
         /\ Has(r, "failed") = {} <=> NoFailure(result[r])
         /\ \A e \in Entries : e \in job[r].selected /\ e >= at[r] => result[r][e] = "none"
<1>1. TypeOK /\ MemoOK /\ RunOK(r) /\ \A x \in Runs : RunOK(x)
  BY DEF IInv
<1>2. /\ job[r] \in Requests /\ Proper(job[r]) /\ AllRight(job[r], result[r])
      /\ result[r] \in [Entries -> Statuses]
      /\ InOrderOK(job[r], phase[r], at[r], result[r], context[r], uses[r])
  BY <1>1, RunStarted, RunTyped DEF RunOK
<1>3. job[r].strategy \in {"serial", "reference"}
  BY <1>2 DEF InOrderOK, Proper
<1>4. Has(r, "failed") = {} <=> NoFailure(result[r])
  BY DEF Has, NoFailure
<1>5. \A e \in Entries : e \in job[r].selected /\ e >= at[r] => result[r][e] = "none"
  BY <1>2, VerifierAssumption, SMT DEF InOrderOK, Entries
<1> QED BY <1>1, <1>2, <1>3, <1>4, <1>5

\* Passing by an entry that is not selected keeps the invariant.
LEMMA PassByIInv == ASSUME IInv, NEW r \in Runs, PassBy(r) PROVE IInv'
<1>1. /\ phase[r] = "next" /\ at[r] \in Entries \ job[r].selected /\ Advance(r)
      /\ UNCHANGED <<memo, job, phase, layered, result, context, uses>>
  BY DEF PassBy, Selected
<1>2. /\ TypeOK /\ MemoOK /\ RunOK(r) /\ \A x \in Runs : RunOK(x) /\ Proper(job[r])
  BY <1>1, InOrderAt
<1>3. UNCHANGED <<pending, runnable, shard, working, broken, outcome>>
  BY <1>1 DEF layered
<1>4. at[r] + 1 \in 0..(N + 1)
  BY <1>1, VerifierAssumption, SMT DEF Entries
<1>5. /\ at' \in [Runs -> 0..(N + 1)] /\ at'[r] = at[r] + 1
      /\ \A x \in Runs \ {r} : at'[x] = at[x]
  BY <1>1, <1>2, <1>4 DEF TypeOK, Advance, Set
<1>6. TypeOK' /\ Others(r)
  BY <1>1, <1>2, <1>3, <1>5 DEF TypeOK, Others
<1>7. InOrderOK(job[r], "next", at[r] + 1, result[r], context[r], uses[r])
  BY <1>1, <1>2, InOrderPassBy DEF RunOK
<1>8. LayersOK(job[r], "next", at[r] + 1, pending[r], runnable[r], result[r], context[r])
  BY DEF LayersOK
<1>9. RunOK(r)'
  BY <1>1, <1>2, <1>3, <1>5, <1>7, <1>8 DEF RunOK
<1>10. MemoOK'
  BY <1>1, <1>2 DEF MemoOK
<1> QED BY <1>2, <1>6, <1>9, <1>10, Frame DEF IInv

\* Skipping a module after a failure keeps the invariant.
LEMMA SkipIInv == ASSUME IInv, NEW r \in Runs, Skip(r) PROVE IInv'
<1>1. /\ phase[r] = "next" /\ at[r] \in job[r].selected /\ Has(r, "failed") # {}
      /\ Report(r, at[r], "skipped") /\ Advance(r)
      /\ UNCHANGED <<memo, job, phase, layered, context, uses>>
  BY DEF Skip, Selected
<1>2. /\ TypeOK /\ MemoOK /\ RunOK(r) /\ \A x \in Runs : RunOK(x) /\ Proper(job[r])
      /\ InOrderOK(job[r], "next", at[r], result[r], context[r], uses[r])
      /\ result[r] \in [Entries -> Statuses]
  BY <1>1, InOrderAt
<1>3. at[r] \in Entries /\ "skipped" \in Statuses \ {"none"}
  BY <1>1, <1>2 DEF Proper, Statuses
<1>4. PICK d \in Entries : result[r][d] = "failed"
  BY <1>1 DEF Has
<1>5. d < at[r] /\ job[r].strategy # "layered"
  BY <1>2, <1>4 DEF InOrderOK
<1>6. Right(job[r], result[r], at[r], "skipped")
  BY <1>1, <1>4, <1>5 DEF Right
<1>7. result'[r][d] = "failed"
  BY <1>1, <1>2, <1>3, <1>4, <1>5, SMT DEF Report, TypeOK, Entries
<1>8. Retained(job[r], at[r] + 1, result'[r], context'[r], uses'[r])
  BY <1>7, FailureRetainsNothing
<1>9. Grown(context[r], at[r], "skipped", context'[r])
  BY <1>1 DEF Grown
<1>10. RunOK(r)'
  BY <1>1, <1>2, <1>3, <1>6, <1>8, <1>9, InOrderStatus
<1>11. /\ memo' \subseteq Keys \X {"passed", "failed"}
       /\ context' \in [Runs -> SUBSET Entries] /\ uses' \in [Runs -> [Entries -> Nat]]
  BY <1>1, <1>2 DEF TypeOK
<1>12. TypeOK' /\ Others(r)
  BY <1>1, <1>2, <1>3, <1>11, InOrderTyped
<1>13. MemoOK'
  BY <1>1, <1>2 DEF MemoOK
<1> QED BY <1>2, <1>10, <1>12, <1>13, Frame DEF IInv

\* Taking a local cache hit keeps the invariant.
LEMMA TakeCachedIInv == ASSUME IInv, NEW r \in Runs, TakeCached(r) PROVE IInv'
<1>1. /\ phase[r] = "next" /\ at[r] \in job[r].selected \ job[r].live
      /\ Report(r, at[r], "cached") /\ Advance(r)
      /\ UNCHANGED <<memo, job, phase, layered, context, uses>>
  BY DEF TakeCached, Selected
<1>2. /\ TypeOK /\ MemoOK /\ RunOK(r) /\ \A x \in Runs : RunOK(x) /\ Proper(job[r])
  BY <1>1, InOrderAt
<1>3. at[r] \in Entries /\ "cached" \in Statuses \ {"none"} /\ job[r].strategy = "serial"
  BY <1>1, <1>2 DEF Proper, Statuses
<1>4. Right(job[r], result[r], at[r], "cached")
  BY <1>1 DEF Right
<1>5. /\ Retained(job[r], at[r] + 1, result'[r], context'[r], uses'[r])
      /\ Grown(context[r], at[r], "cached", context'[r])
  BY <1>1, <1>3 DEF Retained, Grown
<1>6. RunOK(r)'
  BY <1>1, <1>2, <1>3, <1>4, <1>5, InOrderStatus
<1>7. /\ memo' \subseteq Keys \X {"passed", "failed"}
      /\ context' \in [Runs -> SUBSET Entries] /\ uses' \in [Runs -> [Entries -> Nat]]
  BY <1>1, <1>2 DEF TypeOK
<1>8. TypeOK' /\ Others(r)
  BY <1>1, <1>2, <1>3, <1>7, InOrderTyped
<1>9. MemoOK'
  BY <1>1, <1>2 DEF MemoOK
<1> QED BY <1>2, <1>6, <1>8, <1>9, Frame DEF IInv

\* A module that is good, by the memo or by the checker, keeps the invariant of the
\* reference execution.
LEMMA ReferencePass ==
  ASSUME IInv, NEW r \in Runs, phase[r] \in {"next", "check"},
         job[r].strategy = "reference", at[r] \in job[r].live,
         NoFailure(result[r]), GoodFor(job[r], at[r]),
         RecordAndRetire(r, at[r]), Report(r, at[r], "passed"), Advance(r),
         phase' = phase \/ phase' = Set(phase, r, "next"), phase'[r] = "next",
         UNCHANGED <<job, layered>>,
         memo' \subseteq Keys \X {"passed", "failed"}, MemoOK'
  PROVE  IInv'
<1>1. /\ TypeOK /\ MemoOK /\ RunOK(r) /\ \A x \in Runs : RunOK(x)
      /\ Proper(job[r]) /\ AllRight(job[r], result[r])
      /\ result[r] \in [Entries -> Statuses]
      /\ InOrderOK(job[r], phase[r], at[r], result[r], context[r], uses[r])
  BY InOrderAt
<1>2. /\ at[r] \in Entries /\ at[r] \in job[r].selected
      /\ "passed" \in Statuses \ {"none"} /\ "passed" \in Statuses
  BY <1>1 DEF Proper, Statuses
<1>3. Right(job[r], result[r], at[r], "passed")
  <2>1. Reaches(job[r], phase[r], at[r], result[r], context[r], uses[r])
    BY <1>1, <1>2 DEF Reaches
  <2>2. \A d \in job[r].package.imports[at[r]] : result[r][d] = "passed"
    BY <2>1, LiveImports, SMT
  <2> QED BY <1>1, <1>2, <2>2 DEF Right
<1>4. Reported(result[r], at[r], "passed", result'[r])
  BY <1>1 DEF Report, Reported, TypeOK
<1>5. /\ context' \in [Runs -> SUBSET Entries] /\ uses' \in [Runs -> [Entries -> Nat]]
      /\ \A x \in Runs \ {r} : context'[x] = context[x] /\ uses'[x] = uses[x]
  BY <1>1, <1>2, RetireTyped
<1>6. Retained(job[r], at[r] + 1, result'[r], context'[r], uses'[r])
  <2>1. /\ context'[r] = (context[r] \cup (IF uses[r][at[r]] > 0 THEN {at[r]} ELSE {}))
                           \ {d \in job[r].package.imports[at[r]] : uses[r][d] = 1}
        /\ uses'[r] = [d \in Entries |->
                         IF d \in job[r].package.imports[at[r]] /\ uses[r][d] > 0
                         THEN uses[r][d] - 1 ELSE uses[r][d]]
    BY <1>1, <1>2, RetireTyped
  <2>2. PassesReference(job[r], phase[r], at[r], result[r], context[r], uses[r],
                        result'[r], context'[r], uses'[r])
    BY <1>1, <1>2, <1>4, <2>1 DEF PassesReference
  <2>3. InOrderOK(job[r], "next", at[r] + 1, result'[r], context'[r], uses'[r])
    BY <2>2, InOrderRetire
  <2> QED BY <2>3 DEF InOrderOK
<1>7. RunOK(r)'
  BY <1>1, <1>2, <1>3, <1>6, InOrderStatus
<1>8. TypeOK' /\ Others(r)
  BY <1>1, <1>2, <1>5, InOrderTyped
<1> QED BY <1>1, <1>7, <1>8, Frame DEF IInv

\* So does one that is not.
LEMMA ReferenceFail ==
  ASSUME IInv, NEW r \in Runs, phase[r] \in {"next", "check"},
         job[r].strategy = "reference", at[r] \in job[r].live,
         NoFailure(result[r]), ~ GoodFor(job[r], at[r]),
         DropContexts(r), Report(r, at[r], "failed"), Advance(r),
         phase' = phase \/ phase' = Set(phase, r, "next"), phase'[r] = "next",
         UNCHANGED <<job, layered>>,
         memo' \subseteq Keys \X {"passed", "failed"}, MemoOK'
  PROVE  IInv'
<1>1. /\ TypeOK /\ MemoOK /\ RunOK(r) /\ \A x \in Runs : RunOK(x)
      /\ Proper(job[r]) /\ AllRight(job[r], result[r])
      /\ result[r] \in [Entries -> Statuses]
      /\ InOrderOK(job[r], phase[r], at[r], result[r], context[r], uses[r])
  BY InOrderAt
<1>2. /\ at[r] \in Entries /\ at[r] \in job[r].selected
      /\ "failed" \in Statuses \ {"none"} /\ "failed" \in Statuses
  BY <1>1 DEF Proper, Statuses
<1>3. Right(job[r], result[r], at[r], "failed")
  <2>1. Reaches(job[r], phase[r], at[r], result[r], context[r], uses[r])
    BY <1>1, <1>2 DEF Reaches
  <2>2. \A d \in job[r].package.imports[at[r]] : result[r][d] = "passed"
    BY <2>1, LiveImports, SMT
  <2> QED BY <1>1, <1>2, <2>2 DEF Right
<1>4. result'[r][at[r]] = "failed"
  BY <1>1, <1>2 DEF Report, TypeOK
<1>5. Retained(job[r], at[r] + 1, result'[r], context'[r], uses'[r])
  BY <1>2, <1>4, FailureRetainsNothing
<1>6. RunOK(r)'
  BY <1>1, <1>2, <1>3, <1>5, InOrderStatus
<1>7. /\ context' \in [Runs -> SUBSET Entries] /\ uses' \in [Runs -> [Entries -> Nat]]
      /\ \A x \in Runs \ {r} : context'[x] = context[x] /\ uses'[x] = uses[x]
  BY <1>1, DropTyped
<1>8. TypeOK' /\ Others(r)
  BY <1>1, <1>2, <1>7, InOrderTyped
<1> QED BY <1>1, <1>6, <1>8, Frame DEF IInv

\* Asking the memo keeps the invariant.
LEMMA ConsultIInv == ASSUME IInv, NEW r \in Runs, Consult(r) PROVE IInv'
<1>1. /\ phase[r] = "next" /\ at[r] \in job[r].live /\ Has(r, "failed") = {}
      /\ UNCHANGED <<memo, job, layered>>
  BY DEF Consult
<1>2. /\ TypeOK /\ MemoOK /\ RunOK(r) /\ \A x \in Runs : RunOK(x)
      /\ InOrderOK(job[r], "next", at[r], result[r], context[r], uses[r])
      /\ NoFailure(result[r]) /\ job[r] \in Requests /\ AllRight(job[r], result[r])
  BY <1>1, InOrderAt
<1>3. memo' \subseteq Keys \X {"passed", "failed"} /\ MemoOK'
  BY <1>1, <1>2 DEF TypeOK, MemoOK
<1>4. CASE phase' = Set(phase, r, "check") /\ UNCHANGED <<at, result, context, uses>>
  <2>1. /\ phase' \in [Runs -> Phases] /\ phase'[r] = "check"
        /\ \A x \in Runs \ {r} : phase'[x] = phase[x]
    BY <1>2, <1>4 DEF TypeOK, Set, Phases
  <2>2. UNCHANGED <<pending, runnable, shard, working, broken, outcome>>
    BY <1>1 DEF layered
  <2>3. TypeOK' /\ Others(r)
    BY <1>1, <1>2, <1>4, <2>1, <2>2 DEF TypeOK, Others
  <2>4. InOrderOK(job[r], "check", at[r], result[r], context[r], uses[r])
    BY <1>1, <1>2 DEF InOrderOK
  <2>5. /\ LayersOK(job[r], "check", at[r], pending[r], runnable[r], result[r], context[r])
        /\ WorkersOK(job[r], "check", runnable[r], shard[r], working[r], broken[r], outcome[r])
        /\ EndsOK(job[r], "check", pending[r], runnable[r], result[r], context[r])
    BY <1>2 DEF LayersOK, WorkersOK, EndsOK
  <2>6. RunOK(r)'
    BY <1>1, <1>4, <2>1, <2>2, <2>4, <2>5 DEF RunOK
  <2> QED BY <1>2, <1>3, <2>3, <2>6, Frame DEF IInv
<1>5. CASE /\ job[r].strategy = "reference" /\ Lookup(r, at[r], "passed")
           /\ RecordAndRetire(r, at[r]) /\ Report(r, at[r], "passed")
           /\ Advance(r) /\ UNCHANGED phase
  <2>1. GoodFor(job[r], at[r])
    BY <1>2, <1>5, LookupTrue
  <2> QED BY <1>1, <1>2, <1>3, <1>5, <2>1, ReferencePass
<1>6. CASE /\ job[r].strategy = "reference" /\ Lookup(r, at[r], "failed")
           /\ DropContexts(r) /\ Report(r, at[r], "failed")
           /\ Advance(r) /\ UNCHANGED phase
  <2>1. ~ GoodFor(job[r], at[r])
    BY <1>2, <1>6, LookupTrue
  <2> QED BY <1>1, <1>2, <1>3, <1>6, <2>1, ReferenceFail
<1> QED BY <1>4, <1>5, <1>6 DEF Consult

\* Checking a certificate keeps the invariant.
LEMMA CheckIInv == ASSUME IInv, NEW r \in Runs, Check(r) PROVE IInv'
<1> DEFINE e == at[r]
           verdict == Verdict(r, e)
<1>1. /\ phase[r] = "check" /\ Report(r, e, verdict) /\ Advance(r)
      /\ phase' = Set(phase, r, "next") /\ UNCHANGED <<job, layered>>
  BY DEF Check
<1>2. /\ TypeOK /\ MemoOK /\ RunOK(r) /\ \A x \in Runs : RunOK(x)
      /\ InOrderOK(job[r], "check", e, result[r], context[r], uses[r])
      /\ job[r] \in Requests /\ Proper(job[r]) /\ AllRight(job[r], result[r])
      /\ result[r] \in [Entries -> Statuses]
      /\ job[r].strategy \in {"serial", "reference"}
  BY <1>1, InOrderAt
<1>3. e \in job[r].live /\ NoFailure(result[r])
  BY <1>2 DEF InOrderOK
<1>4. e \in Entries /\ e \in job[r].selected
  BY <1>2, <1>3 DEF Proper
<1>5. \A d \in job[r].package.imports[e] : result[r][d] = "passed" /\ d \in context[r]
  <2>1. Reaches(job[r], "check", e, result[r], context[r], uses[r])
    BY <1>2, <1>3 DEF Reaches
  <2> QED BY <2>1, LiveImports
<1>6. verdict \in {"passed", "failed"} /\ (verdict = "passed" <=> GoodFor(job[r], e))
  BY <1>5, VerdictTrue
<1>7. phase'[r] = "next"
  BY <1>1, <1>2 DEF TypeOK, Set
<1>8. CASE job[r].strategy = "reference"
  <2>1. /\ Insert(r, e, verdict)
        /\ \/ verdict = "passed" /\ RecordAndRetire(r, e)
           \/ verdict = "failed" /\ DropContexts(r)
    BY <1>8 DEF Check
  <2>2. MemoOK' /\ memo' \subseteq Keys \X {"passed", "failed"}
    BY <1>2, <1>4, <1>6, <2>1, InsertTrue
  <2>3. CASE verdict = "passed" /\ RecordAndRetire(r, e)
    BY <1>1, <1>3, <1>6, <1>7, <1>8, <2>2, <2>3, ReferencePass
  <2>4. CASE verdict = "failed" /\ DropContexts(r)
    BY <1>1, <1>3, <1>6, <1>7, <1>8, <2>2, <2>4, ReferenceFail
  <2> QED BY <2>1, <2>3, <2>4
<1>9. CASE job[r].strategy # "reference"
  <2>1. /\ UNCHANGED <<memo, uses>>
        /\ context' = Set(context, r,
                          IF verdict = "passed" THEN context[r] \cup {e} ELSE context[r])
    BY <1>9 DEF Check
  <2>2. Right(job[r], result[r], e, verdict)
    BY <1>4, <1>5, <1>6 DEF Right
  <2> HIDE DEF verdict
  <2>3. /\ context' \in [Runs -> SUBSET Entries]
        /\ context'[r] = IF verdict = "passed" THEN context[r] \cup {e} ELSE context[r]
        /\ \A x \in Runs \ {r} : context'[x] = context[x]
    BY SMT, <1>2, <1>4, <2>1 DEF TypeOK, Set
  <2>4. /\ Retained(job[r], e + 1, result'[r], context'[r], uses'[r])
        /\ Grown(context[r], e, verdict, context'[r])
    BY <1>9, <2>3 DEF Retained, Grown
  <2>5. verdict \in Statuses \ {"none"} /\ verdict \in Statuses
    BY <1>6 DEF Statuses
  <2>6. RunOK(r)'
    BY <1>1, <1>2, <1>4, <1>7, <2>2, <2>4, <2>5, InOrderStatus
  <2>7. memo' \subseteq Keys \X {"passed", "failed"} /\ uses' \in [Runs -> [Entries -> Nat]]
    BY <1>2, <2>1 DEF TypeOK
  <2>8. TypeOK' /\ Others(r)
    BY <1>1, <1>2, <1>4, <2>1, <2>3, <2>5, <2>7, InOrderTyped
  <2>9. MemoOK'
    BY <1>2, <2>1 DEF MemoOK
  <2> QED BY <1>2, <2>6, <2>8, <2>9, Frame DEF IInv
<1> QED BY <1>8, <1>9

\* The end of the loop keeps the invariant.
LEMMA FinishIInv == ASSUME IInv, NEW r \in Runs, Finish(r) PROVE IInv'
<1>1. /\ phase[r] = "next" /\ at[r] > N /\ phase' = Set(phase, r, "done")
      /\ UNCHANGED <<memo, job, at, layered, result, context, uses>>
  BY DEF Finish
<1>2. /\ TypeOK /\ MemoOK /\ RunOK(r) /\ \A x \in Runs : RunOK(x)
      /\ InOrderOK(job[r], "next", at[r], result[r], context[r], uses[r])
      /\ job[r] \in Requests /\ Proper(job[r]) /\ AllRight(job[r], result[r])
  BY <1>1, InOrderAt
<1>3. /\ phase' \in [Runs -> Phases] /\ phase'[r] = "done"
      /\ \A x \in Runs \ {r} : phase'[x] = phase[x]
  BY <1>1, <1>2 DEF TypeOK, Set, Phases
<1>4. UNCHANGED <<pending, runnable, shard, working, broken, outcome>>
  BY <1>1 DEF layered
<1>5. TypeOK' /\ Others(r)
  BY <1>1, <1>2, <1>3, <1>4 DEF TypeOK, Others
<1>6. \A e \in job[r].selected : result[r][e] # "none"
  <2> SUFFICES ASSUME NEW e \in job[r].selected PROVE result[r][e] # "none"
    OBVIOUS
  <2>1. e \in Entries
    BY <1>2 DEF Proper
  <2>2. e < at[r]
    BY <1>1, <1>2, <2>1, VerifierAssumption, SMT DEF InOrderOK, Entries
  <2> QED BY <1>2, <2>1, <2>2 DEF InOrderOK
<1>7. /\ LayersOK(job[r], "done", at[r], pending[r], runnable[r], result[r], context[r])
      /\ WorkersOK(job[r], "done", runnable[r], shard[r], working[r], broken[r], outcome[r])
      /\ InOrderOK(job[r], "done", at[r], result[r], context[r], uses[r])
      /\ EndsOK(job[r], "done", pending[r], runnable[r], result[r], context[r])
  BY <1>2, <1>6 DEF LayersOK, WorkersOK, InOrderOK, EndsOK
<1>8. RunOK(r)'
  BY <1>1, <1>3, <1>4, <1>7 DEF RunOK
<1>9. MemoOK'
  BY <1>1, <1>2 DEF MemoOK
<1> QED BY <1>2, <1>5, <1>8, <1>9, Frame DEF IInv

-----------------------------------------------------------------------------
(* The start of a run *)

\* At the start of a run the use counts are the imports still to come.
LEMMA FirstUses ==
  ASSUME NEW q \in Requests, NEW d \in Entries
  PROVE  UseCount(q, d) = Cardinality(Later(q, 1, d)) /\ UseCount(q, d) \in Nat
<1>1. Proper(q) /\ 1 \in 1..(N + 1)
  BY RequestProper, VerifierAssumption, SMT
<1>2. \A e \in q.selected : e >= 1
  BY <1>1, SMT DEF Proper, Entries
<1>3. {e \in q.selected : d \in q.package.imports[e]} = Later(q, 1, d)
  BY <1>2 DEF Later
<1> QED BY <1>1, <1>3, LaterStep DEF UseCount

\* Without results there is nothing wrong with them.
LEMMA NoResultsRight ==
  ASSUME NEW q, NEW res, \A e \in Entries : res[e] = "none"
  PROVE  AllRight(q, res)
BY DEF AllRight, Right

\* Starting a run keeps the invariant.
LEMMA StartIInv ==
  ASSUME IInv, NEW r \in Runs, NEW q \in Requests, Start(r, q)
  PROVE  IInv'
<1>1. TypeOK /\ MemoOK /\ RunOK(r) /\ \A x \in Runs : RunOK(x)
  BY DEF IInv
<1>2. /\ phase[r] = "idle" /\ job' = Set(job, r, q)
      /\ UNCHANGED <<memo, runnable, shard, working, broken, outcome, result, context>>
  BY DEF Start
<1>3. /\ \A e \in Entries : result[r][e] = "none"
      /\ at[r] = 0 /\ pending[r] = {} /\ runnable[r] = {} /\ context[r] = {}
      /\ DOMAIN outcome[r] = {}
  BY <1>1, <1>2 DEF RunOK, EndsOK, LayersOK, WorkersOK
<1>4. Proper(q) /\ AllRight(q, result[r])
  BY <1>3, RequestProper, NoResultsRight
<1>5. /\ job' \in [Runs -> Requests \cup {NoRequest}] /\ job'[r] = q
      /\ \A x \in Runs \ {r} : job'[x] = job[x]
  BY <1>1, <1>2 DEF TypeOK, Set
<1>6. MemoOK'
  BY <1>1, <1>2 DEF MemoOK
<1>7. phase \in [Runs -> Phases] /\ {"done", "classify", "next"} \subseteq Phases
  BY <1>1 DEF TypeOK, Phases
<1>8. CASE q.selected = {} /\ phase' = Set(phase, r, "done") /\ UNCHANGED <<at, pending, uses>>
  <2>1. /\ phase' \in [Runs -> Phases] /\ phase'[r] = "done"
        /\ \A x \in Runs \ {r} : phase'[x] = phase[x]
    BY <1>7, <1>8 DEF Set
  <2>2. TypeOK' /\ Others(r)
    BY <1>1, <1>2, <1>5, <1>8, <2>1 DEF TypeOK, Others
  <2>3. RunOK(r)'
    BY <1>2, <1>4, <1>5, <1>8, <2>1 DEF RunOK, LayersOK, WorkersOK, InOrderOK, EndsOK
  <2> QED BY <1>1, <1>6, <2>2, <2>3, Frame DEF IInv
<1>9. CASE /\ q.selected # {} /\ q.strategy = "layered"
           /\ phase' = Set(phase, r, "classify")
           /\ pending' = Set(pending, r, {e \in q.selected : q.package.layer[e] = 0})
           /\ UNCHANGED <<at, uses>>
  <2>1. /\ phase' \in [Runs -> Phases] /\ phase'[r] = "classify"
        /\ \A x \in Runs \ {r} : phase'[x] = phase[x]
    BY <1>7, <1>9 DEF Set
  <2>2. InLayer(q, 0) \in SUBSET Entries /\ pending' = Set(pending, r, InLayer(q, 0))
    BY <1>4, <1>9 DEF InLayer, Proper
  <2>3. /\ pending' \in [Runs -> SUBSET Entries] /\ pending'[r] = InLayer(q, 0)
        /\ \A x \in Runs \ {r} : pending'[x] = pending[x]
    BY <1>1, <2>2 DEF TypeOK, Set
  <2>4. TypeOK' /\ Others(r)
    BY <1>1, <1>2, <1>5, <1>9, <2>1, <2>3 DEF TypeOK, Others
  <2>5. LayersOK(q, "classify", 0, InLayer(q, 0), {}, result[r], {})
    <3>1. 0 \in 0..(N - 1)
      BY <1>4, <1>9, VerifierAssumption, SMT DEF Proper, Entries
    <3>2. \A e \in Entries : q.package.layer[e] \in 0..(N - 1)
      BY <1>4 DEF Proper
    <3>3. \A e \in Entries : ~ (e \in q.selected /\ q.package.layer[e] <= 0
                                /\ e \notin InLayer(q, 0) \cup {})
      BY <3>2, SMT DEF InLayer
    <3>4. \A e \in InLayer(q, 0) : e \in q.selected /\ q.package.layer[e] = 0
      BY DEF InLayer
    <3> QED BY <1>3, <1>9, <3>1, <3>3, <3>4 DEF LayersOK
  <2>6. /\ WorkersOK(q, "classify", {}, shard[r], working[r], broken[r], outcome[r])
        /\ InOrderOK(q, "classify", 0, result[r], {}, uses[r])
        /\ EndsOK(q, "classify", InLayer(q, 0), {}, result[r], {})
    BY <1>3, <1>4 DEF WorkersOK, InOrderOK, EndsOK
  <2>7. RunOK(r)'
    BY <1>2, <1>3, <1>5, <1>9, <2>1, <2>3, <2>5, <2>6 DEF RunOK
  <2> QED BY <1>1, <1>6, <2>4, <2>7, Frame DEF IInv
<1>10. CASE /\ q.selected # {} /\ q.strategy # "layered"
            /\ phase' = Set(phase, r, "next")
            /\ at' = Set(at, r, 1)
            /\ uses' = Set(uses, r, IF q.strategy = "reference"
                                    THEN [d \in Entries |-> UseCount(q, d)]
                                    ELSE uses[r])
            /\ UNCHANGED pending
  <2> DEFINE us == IF q.strategy = "reference" THEN [d \in Entries |-> UseCount(q, d)]
                   ELSE uses[r]
  <2>1. /\ phase' \in [Runs -> Phases] /\ phase'[r] = "next"
        /\ \A x \in Runs \ {r} : phase'[x] = phase[x]
    BY <1>7, <1>10 DEF Set
  <2>2. us \in [Entries -> Nat]
    BY <1>1, FirstUses, RunTyped
  <2>3. q.strategy = "reference" => \A d \in Entries : us[d] = Cardinality(Later(q, 1, d))
    BY FirstUses
  <2>4. 1 \in 0..(N + 1) /\ 1 \in 1..(N + 1)
    BY VerifierAssumption, SMT
  <2>5. uses' = Set(uses, r, us)
    BY <1>10
  <2> HIDE DEF us
  <2>6. /\ uses' \in [Runs -> [Entries -> Nat]] /\ uses'[r] = us
        /\ \A x \in Runs \ {r} : uses'[x] = uses[x]
    BY <1>1, <2>2, <2>5 DEF TypeOK, Set
  <2>7. /\ at' \in [Runs -> 0..(N + 1)] /\ at'[r] = 1
        /\ \A x \in Runs \ {r} : at'[x] = at[x]
    BY <1>1, <1>10, <2>4 DEF TypeOK, Set
  <2>8. TypeOK' /\ Others(r)
    BY <1>1, <1>2, <1>5, <1>10, <2>1, <2>6, <2>7 DEF TypeOK, Others
  <2>9. InOrderOK(q, "next", 1, result[r], {}, us)
    <3>1. \A e \in Entries : ~ (e < 1)
      BY SMT DEF Entries
    <3>2. Retained(q, 1, result[r], {}, us)
      BY <1>3, <2>3 DEF Retained
    <3> QED BY <1>3, <1>10, <2>4, <3>1, <3>2 DEF InOrderOK
  <2>10. /\ LayersOK(q, "next", 1, {}, {}, result[r], {})
         /\ WorkersOK(q, "next", {}, shard[r], working[r], broken[r], outcome[r])
         /\ EndsOK(q, "next", {}, {}, result[r], {})
    BY <1>4 DEF LayersOK, WorkersOK, EndsOK
  <2>11. RunOK(r)'
    BY <1>2, <1>3, <1>5, <1>10, <2>1, <2>6, <2>7, <2>9, <2>10 DEF RunOK
  <2> QED BY <1>1, <1>6, <2>8, <2>11, Frame DEF IInv
<1> QED BY <1>8, <1>9, <1>10 DEF Start

-----------------------------------------------------------------------------
(* The invariant *)

\* Before the first run the invariant holds.
LEMMA InitIInv == Init => IInv
<1> SUFFICES ASSUME Init PROVE IInv
  OBVIOUS
<1>1. MemoOK
  BY DEF Init, MemoOK
<1>2. TypeOK
  <2>1. 0 \in 0..(N + 1)
    BY VerifierAssumption, SMT
  <2>2. \A r \in Runs : shard[r] = NoShards /\ outcome[r] = NoOutcome
    BY DEF Init
  <2>3. /\ DOMAIN NoShards = {} /\ NoShards \in [{} -> 1..Jobs]
        /\ DOMAIN NoOutcome = {} /\ NoOutcome \in [{} -> {"passed", "failed"}]
    BY DEF NoShards, NoOutcome
  <2>4. \A r \in Runs : /\ DOMAIN shard[r] \subseteq Entries
                        /\ shard[r] \in [DOMAIN shard[r] -> 1..Jobs]
                        /\ DOMAIN outcome[r] \subseteq Entries
                        /\ outcome[r] \in [DOMAIN outcome[r] -> {"passed", "failed"}]
    BY <2>2, <2>3
  <2> QED BY <2>1, <2>4 DEF Init, TypeOK, Phases
<1>3. ASSUME NEW r \in Runs PROVE RunOK(r)
  <2>1. /\ phase[r] = "idle" /\ at[r] = 0 /\ pending[r] = {} /\ runnable[r] = {}
        /\ outcome[r] = NoOutcome /\ context[r] = {}
        /\ \A e \in Entries : result[r][e] = "none"
    BY DEF Init
  <2>2. DOMAIN NoOutcome = {}
    BY DEF NoOutcome
  <2> QED BY <2>1, <2>2 DEF RunOK, LayersOK, WorkersOK, InOrderOK, EndsOK
<1> QED BY <1>1, <1>2, <1>3 DEF IInv

\* So does it after a step that changes nothing.
LEMMA StutterIInv == ASSUME IInv, UNCHANGED vars PROVE IInv'
<1>1. TypeOK' /\ MemoOK'
  BY DEF IInv, vars, TypeOK, MemoOK
<1>2. ASSUME NEW r \in Runs PROVE RunOK(r)'
  BY DEF IInv, vars, RunOK
<1> QED BY <1>1, <1>2 DEF IInv

\* Every step keeps the invariant.
LEMMA NextIInv == IInv /\ [Next]_vars => IInv'
<1> SUFFICES ASSUME IInv, [Next]_vars PROVE IInv'
  OBVIOUS
<1>1. CASE UNCHANGED vars
  BY <1>1, StutterIInv
<1>2. CASE Next
  <2>1. PICK r \in Runs : \/ \E q \in Requests : Start(r, q)
                          \/ Coordinate(r)
                          \/ \E s \in 1..Jobs : Work(r, s) \/ Panic(r, s)
    BY <1>2 DEF Next
  <2>2. CASE \E q \in Requests : Start(r, q)
    BY <2>2, StartIInv
  <2>3. CASE Coordinate(r)
    BY <2>3, ClassifyIInv, StartLayerIInv, JoinIInv, MergeIInv, EndLayerIInv,
       PassByIInv, SkipIInv, TakeCachedIInv, ConsultIInv, CheckIInv, FinishIInv
       DEF Coordinate
  <2>4. CASE \E s \in 1..Jobs : Work(r, s) \/ Panic(r, s)
    BY <2>4, WorkIInv, PanicIInv
  <2> QED BY <2>1, <2>2, <2>3, <2>4
<1> QED BY <1>1, <1>2

\* The invariant holds of every execution of any number of runs of the package
\* verifier that share one process memo.
THEOREM Invariance == Spec => []IInv
BY InitIInv, NextIInv, PTL DEF Spec

-----------------------------------------------------------------------------
(* The properties *)

\* The state of the three executions is well typed: in particular only supplied
\* bytes enter the process memo, and remaining_import_uses never underflows.
THEOREM TypeCorrect == Spec => []TypeOK
<1>1. IInv => TypeOK
  BY DEF IInv
<1> QED BY <1>1, Invariance, PTL

\* record_verified never meets a module that was verified before or one without
\* bytes, however memo hits and worker results are interleaved.
THEOREM NoInternalErrorHolds == Spec => []NoInternalError
<1>1. IInv => NoInternalError
  BY DEF IInv, RunOK, EndsOK, NoInternalError
<1> QED BY <1>1, Invariance, PTL

\* What the invariant says of the results of a run.
LEMMA ResultsOfRun ==
  ASSUME IInv, NEW r \in Runs
  PROVE  /\ result[r] \in [Entries -> Statuses]
         /\ phase[r] = "idle" => \A e \in Entries : result[r][e] = "none"
         /\ phase[r] # "idle" => Proper(job[r]) /\ AllRight(job[r], result[r])
BY RequestProper DEF IInv, TypeOK, RunOK, EndsOK, Statuses

\* A module passes only on its own merits and those of its imports, whatever other
\* runs left in the memo; the blame for a failure is on a module at fault; and
\* only modules behind a failure are skipped.
THEOREM VerdictsHold == Spec => []VerdictsAreExact
<1>1. ASSUME IInv PROVE VerdictsAreExact
  <2> SUFFICES ASSUME NEW r \in Runs, NEW e \in Entries
               PROVE  /\ result[r][e] = "passed" =>
                           Good(r, e) /\ Imports(r, e) \subseteq Has(r, "passed")
                      /\ result[r][e] = "failed" =>
                           ~ Good(r, e) /\ Imports(r, e) \subseteq Has(r, "passed")
                      /\ result[r][e] = "skipped" =>
                           IF job[r].strategy = "layered" THEN Blocked(r, e)
                           ELSE \E d \in Has(r, "failed") : d < e
    BY DEF VerdictsAreExact
  <2>1. CASE phase[r] = "idle"
    BY <1>1, <2>1, ResultsOfRun
  <2>2. CASE phase[r] # "idle"
    <3>1. Proper(job[r]) /\ Right(job[r], result[r], e, result[r][e])
      BY <1>1, <2>2, ResultsOfRun DEF AllRight
    <3>2. Imports(r, e) \subseteq Entries
      BY <3>1 DEF Proper, Imports
    <3>3. CASE result[r][e] \in {"passed", "failed"}
      BY <3>1, <3>2, <3>3 DEF Right, Good, GoodFor, Has, Imports
    <3>4. CASE result[r][e] = "skipped"
      BY <3>1, <3>2, <3>4 DEF Right, Blocked, Has, Imports
    <3> QED BY <3>3, <3>4
  <2> QED BY <2>1, <2>2
<1> QED BY <1>1, Invariance, PTL

\* A run of the reference checker that has not failed holds exactly
\* the import contexts that it still needs: retire_reference_imports_after_module
\* drops none too early and forgets none.
THEOREM RetainedHolds == Spec => []RetainedExactly
<1>1. ASSUME IInv PROVE RetainedExactly
  <2> SUFFICES ASSUME NEW r \in Runs, job[r].strategy = "reference",
                      phase[r] \in {"next", "check"}, Has(r, "failed") = {}
               PROVE  context[r] = {d \in Has(r, "passed") :
                        \E e \in Selected(r) : e >= at[r] /\ d \in Imports(r, e)}
    BY DEF RetainedExactly
  <2>1. /\ InOrderOK(job[r], phase[r], at[r], result[r], context[r], uses[r])
        /\ context[r] \subseteq Entries
    BY <1>1 DEF IInv, RunOK, TypeOK
  <2>2. NoFailure(result[r])
    BY DEF NoFailure, Has
  <2>3. \A d \in Entries : d \in context[r] <=>
          (result[r][d] = "passed" /\ Later(job[r], at[r], d) # {})
    BY <2>1, <2>2 DEF InOrderOK, Retained
  <2>4. \A d : Later(job[r], at[r], d) # {} <=>
          \E e \in Selected(r) : e >= at[r] /\ d \in Imports(r, e)
    BY DEF Later, Selected, Imports
  <2> QED BY <2>1, <2>3, <2>4 DEF Has
<1> QED BY <1>1, Invariance, PTL

\* A set of naturals has a least element.
LEMMA LeastNatural ==
  ASSUME NEW T, T \subseteq Nat, T # {}
  PROVE  \E x \in T : \A y \in T : x <= y
<1>1. PICK R : /\ IsWellFoundedOn(R, Nat)
               /\ \A x, y \in Nat : <<y, x>> \in R <=> y < x
  <2>1. IsWellFoundedOn(OpToRel(<, Nat), Nat)
    BY NatLessThanWellFounded
  <2>2. \A x, y \in Nat : <<y, x>> \in OpToRel(<, Nat) <=> y < x
    BY DEF OpToRel
  <2> WITNESS OpToRel(<, Nat)
  <2> QED BY <2>1, <2>2
<1>2. PICK x \in T : \A y \in T : ~ (<<y, x>> \in R)
  BY <1>1, WFMin
<1>3. ASSUME NEW y \in T PROVE x <= y
  <2>1. x \in Nat /\ y \in Nat
    OBVIOUS
  <2>2. ~ (y < x)
    BY <1>1, <1>2, <2>1
  <2> QED BY <2>1, <2>2, SMT
<1> QED BY <1>3

\* Where all certificates are good, a run layer by layer passes all of them: the
\* first module that does not could only be blamed on an earlier one.
LEMMA LayeredPasses ==
  ASSUME NEW q, Proper(q), q.strategy = "layered",
         NEW res \in [Entries -> Statuses], AllRight(q, res),
         \A e \in q.selected : res[e] # "none" /\ GoodFor(q, e)
  PROVE  \A e \in q.selected : res[e] = "passed"
<1> DEFINE T == {e \in q.selected : res[e] # "passed"}
<1> SUFFICES ASSUME T # {} PROVE FALSE
  OBVIOUS
<1>1. T \subseteq Nat
  BY SMT DEF Proper, Entries
<1>2. PICK e \in T : \A y \in T : e <= y
  BY <1>1, LeastNatural
<1>3. e \in Entries /\ e \in q.live /\ Right(q, res, e, res[e])
  BY DEF Proper, AllRight
<1>4. res[e] = "skipped"
  BY <1>3 DEF Right, Statuses
<1>5. PICK d \in q.package.imports[e] : res[d] \in {"failed", "skipped"}
  BY <1>3, <1>4 DEF Right
<1>6. d \in T /\ d < e
  BY <1>3, <1>5 DEF Proper
<1>7. d \in Nat /\ e \in Nat /\ e <= d
  BY <1>1, <1>2, <1>6
<1> QED BY <1>6, <1>7, SMT

\* A finished run has reported on every selected module, and it reports success
\* exactly when all their certificates are good; neither the memo, local cache
\* hits, worker threads nor the retirement of contexts make a difference.
THEOREM ReportHolds == Spec => []ReportIsTrue
<1>1. ASSUME IInv PROVE ReportIsTrue
  <2> SUFFICES ASSUME NEW r \in Runs, phase[r] = "done"
               PROVE  /\ \A e \in Selected(r) : result[r][e] # "none"
                      /\ Passed(r) <=> \A e \in Selected(r) : Good(r, e)
    BY DEF ReportIsTrue
  <2> DEFINE q == job[r]
             res == result[r]
  <2>1. /\ Proper(q) /\ AllRight(q, res) /\ res \in [Entries -> Statuses]
        /\ \A e \in q.selected : res[e] # "none"
    BY <1>1, ResultsOfRun DEF IInv, RunOK, EndsOK
  <2>2. \A e : Good(r, e) <=> GoodFor(q, e)
    BY DEF Good, GoodFor
  <2>3. \A e \in Entries : Right(q, res, e, res[e])
    BY <2>1 DEF AllRight
  <2>4. q.selected \subseteq Entries
    BY <2>1 DEF Proper
  <2>5. CASE q.strategy = "layered"
    <3>1. Passed(r) <=> \A e \in q.selected : res[e] = "passed"
      BY <2>4, <2>5 DEF Passed, Selected, Has
    <3>2. (\A e \in q.selected : res[e] = "passed") => \A e \in q.selected : GoodFor(q, e)
      BY <2>3, <2>4 DEF Right
    <3>3. (\A e \in q.selected : GoodFor(q, e)) => \A e \in q.selected : res[e] = "passed"
      BY <2>1, <2>5, LayeredPasses
    <3> QED BY <2>1, <2>2, <3>1, <3>2, <3>3 DEF Selected
  <2>6. CASE q.strategy # "layered"
    <3>1. Passed(r) <=> NoFailure(res)
      BY <2>6 DEF Passed, Has, NoFailure
    <3>2. ASSUME NoFailure(res), NEW e \in q.selected PROVE GoodFor(q, e)
      <4>1. res[e] \in {"passed", "cached", "skipped"} /\ Right(q, res, e, res[e])
        BY <2>1, <2>3, <2>4, <3>2 DEF NoFailure, Statuses
      <4>2. res[e] # "skipped"
        BY <2>6, <3>2, <4>1 DEF Right, NoFailure
      <4>3. CASE res[e] = "passed"
        BY <4>1, <4>3 DEF Right
      <4>4. CASE res[e] = "cached"
        BY <2>1, <3>2, <4>1, <4>4 DEF Right, Proper
      <4> QED BY <4>1, <4>2, <4>3, <4>4
    <3>3. (\A e \in q.selected : GoodFor(q, e)) => NoFailure(res)
      BY <2>3 DEF Right, NoFailure
    <3> QED BY <2>1, <2>2, <3>1, <3>2, <3>3 DEF Selected
  <2> QED BY <2>5, <2>6
<1> QED BY <1>1, Invariance, PTL
=============================================================================
