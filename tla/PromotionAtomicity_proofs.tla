----------------------- MODULE PromotionAtomicity_proofs -----------------------
(***************************************************************************)
(* Proofs that PromotionTransaction implements AtomicPromotion, for every  *)
(* set of promotions and any number of deaths, power losses, I/O errors    *)
(* and foreign writes.                                                     *)
(***************************************************************************)
EXTENDS PromotionAtomicity, PromotionTransaction_proofs

-----------------------------------------------------------------------------
(* The refinement mapping. *)

\* The package when promotion p, which can be rolled back, is.
Restored(p) ==
  [f \in Files |-> IF f \in {p, Shared} /\ target[f] = New(p)[f] THEN Old(p)[f] ELSE target[f]]

Answered == [p \in Promotions |-> answer[p]]

\* A step of AtomicPromotion, or none.
Mapped == [Atomic!Next]_<<Tree, Stage, Answered>>

\* At most one promotion can be rolled back.
TreeOK ==
  /\ (\A p \in Promotions : ~ CanRollBack(p)) => Tree = target
  /\ \A p \in Promotions : CanRollBack(p) =>
       /\ Tree = Restored(p)
       /\ \A q \in Promotions : CanRollBack(q) => q = p

USE Zenon

LEMMA TreeForm == IInv => TreeOK
<1> SUFFICES ASSUME IInv PROVE TreeOK
  OBVIOUS
<1>1. target \in [Files -> Contents]
  BY DEF IInv, DiskOK, FileType, Trees
<1>2. ASSUME \A p \in Promotions : ~ CanRollBack(p) PROVE Tree = target
  <2>1. \A f : ~ \E p \in Promotions : Tentative(p, f)
    BY <1>2 DEF Tentative
  <2>2. Tree = [f \in Files |-> target[f]]
    BY <2>1 DEF Tree
  <2> QED BY <1>1, <2>2
<1>3. ASSUME NEW p \in Promotions, CanRollBack(p)
      PROVE  Tree = Restored(p) /\ \A q \in Promotions : CanRollBack(q) => q = p
  <2>1. \A q \in Promotions : CanRollBack(q) => q = p
    BY <1>3 DEF IInv, DiskOK, DiskInv, FilesOK, ParentType
  <2>2. \A q \in Promotions, f \in Files :
          Tentative(q, f) <=> q = p /\ f \in {p, Shared} /\ target[f] = New(p)[f]
    BY <1>3, <2>1 DEF Tentative, Bytes, New
  <2>3. ASSUME NEW f \in Files PROVE Tree[f] = Restored(p)[f]
    <3>1. CASE f \in {p, Shared} /\ target[f] = New(p)[f]
      <4>1. \E q \in Promotions : Tentative(q, f)
        BY <2>2, <3>1
      <4>2. (CHOOSE q \in Promotions : Tentative(q, f)) = p
        BY <2>2, <4>1
      <4> QED BY <3>1, <4>1, <4>2 DEF Tree, Restored, Old
    <3>2. CASE ~ (f \in {p, Shared} /\ target[f] = New(p)[f])
      <4>1. ~ \E q \in Promotions : Tentative(q, f)
        BY <2>2, <3>2
      <4> QED BY <3>2, <4>1 DEF Tree, Restored
    <3> QED BY <3>1, <3>2
  <2>4. Tree = [f \in Files |-> Tree[f]] /\ Restored(p) = [f \in Files |-> Restored(p)[f]]
    BY DEF Tree, Restored
  <2>5. Tree = Restored(p)
    <3> HIDE DEF Restored
    <3> QED BY <2>3, <2>4
  <2> QED BY <2>1, <2>5
<1> QED BY <1>2, <1>3 DEF TreeOK

LEMMA TreeFormNext == IInv' => TreeOK'
BY TreeForm, PTL

\* The stage of each promotion.
LEMMA StageForm ==
  /\ Stage = [p \in Promotions |-> Stage[p]] /\ Stage' = [p \in Promotions |-> Stage'[p]]
  /\ \A p \in Promotions :
       Stage[p] = IF holder = p
                  THEN IF run.mode = "finish" /\ ~ CanRollBack(p) THEN "committed" ELSE "in"
                  ELSE IF phase[p] # "idle" THEN "in"
                  ELSE IF CanRollBack(p) THEN "open" ELSE "out"
  /\ \A p \in Promotions :
       Stage'[p] = IF holder' = p
                   THEN IF run'.mode = "finish" /\ ~ CanRollBack(p)' THEN "committed" ELSE "in"
                   ELSE IF phase'[p] # "idle" THEN "in"
                   ELSE IF CanRollBack(p)' THEN "open" ELSE "out"
BY DEF Stage

LEMMA StageChanges ==
  ASSUME NEW p \in Promotions, \A q \in Promotions \ {p} : Stage'[q] = Stage[q]
  PROVE  Stage' = [Stage EXCEPT ![p] = Stage'[p]]
<1>1. DOMAIN Stage = Promotions /\ DOMAIN Stage' = Promotions
  BY DEF Stage
<1>2. Stage = [q \in Promotions |-> Stage[q]] /\ Stage' = [q \in Promotions |-> Stage'[q]]
  BY StageForm
<1>3. [Stage EXCEPT ![p] = Stage'[p]]
        = [q \in Promotions |-> IF q = p THEN Stage'[p] ELSE Stage[q]]
  BY <1>1, <1>2
<1>4. \A q \in Promotions : (IF q = p THEN Stage'[p] ELSE Stage[q]) = Stage'[q]
  OBVIOUS
<1> QED BY <1>2, <1>3, <1>4

LEMMA AnswerChanges ==
  ASSUME IInv, NEW p \in Promotions, NEW a, answer' = [answer EXCEPT ![p] = a]
  PROVE  Answered' = [Answered EXCEPT ![p] = a]
<1>1. Promotions \subseteq Commands /\ answer \in [Commands -> Answers]
  BY DEF IInv, ControlType, Commands
<1>2. \A q \in Promotions : answer'[q] = IF q = p THEN a ELSE answer[q]
  BY <1>1
<1> QED BY <1>2 DEF Answered

\* Nothing changes that AtomicPromotion tells apart.
LEMMA NothingHappens ==
  ASSUME Tree' = Tree, \A p \in Promotions : Stage'[p] = Stage[p], UNCHANGED answer
  PROVE  Mapped
<1>1. Stage' = Stage
  BY StageForm
<1> QED BY <1>1 DEF Mapped, Answered

\* The transaction directories stay as they are.
LEMMA SameTransactions ==
  ASSUME UNCHANGED <<txn, rootImg, storeImg, parentImg>>
  PROVE  /\ \A p \in Promotions : CanRollBack(p)' <=> CanRollBack(p)
         /\ \A p \in Promotions : Old(p)' = Old(p) /\ New(p)' = New(p)
<1>1. \A p \in Promotions : Old(p)' = Old(p) /\ New(p)' = New(p) /\ Logged(p)' = Logged(p)
  BY DEF Old, New, Promoted, Logged
<1> QED BY <1>1, RollBackDef

\* A file of a promotion that can be rolled back is replaced, or put back.
LEMMA TreeKept ==
  ASSUME IInv, IInv', NEW p \in Promotions, CanRollBack(p), CanRollBack(p)',
         Old(p)' = Old(p), New(p)' = New(p),
         \A f \in Files : \/ target'[f] = target[f]
                          \/ /\ f \in {p, Shared} /\ Old(p)[f] # New(p)[f]
                             /\ {target[f], target'[f]} \subseteq {Old(p)[f], New(p)[f]}
  PROVE  Tree' = Tree
<1>1. Tree = Restored(p) /\ Tree' = Restored(p)'
  BY TreeForm, TreeFormNext DEF TreeOK
<1>2. \A f \in Files :
        (IF f \in {p, Shared} /\ target[f] = New(p)[f] THEN Old(p)[f] ELSE target[f])
          = IF f \in {p, Shared} /\ target'[f] = New(p)'[f] THEN Old(p)'[f] ELSE target'[f]
  OBVIOUS
<1> QED BY <1>1, <1>2 DEF Restored, Files

\* The files stay as they are, and so does which promotion can be rolled back.
LEMMA TreeUnchanged ==
  ASSUME IInv, IInv', UNCHANGED target,
         \A p \in Promotions : CanRollBack(p)' <=> CanRollBack(p),
         \A p \in Promotions : Old(p)' = Old(p) /\ New(p)' = New(p)
  PROVE  Tree' = Tree
<1>1. CASE \A p \in Promotions : ~ CanRollBack(p)
  BY <1>1, TreeForm, TreeFormNext DEF TreeOK
<1>2. CASE \E p \in Promotions : CanRollBack(p)
  BY <1>2, TreeKept
<1> QED BY <1>1, <1>2

\* The lock holder goes on; the transactions and the package stay as they are.
LEMMA HolderGoesOn ==
  ASSUME IInv, IInv', Tree' = Tree, UNCHANGED <<holder, phase, answer>>,
         \A p \in Promotions : CanRollBack(p)' <=> CanRollBack(p),
         \A p \in Promotions :
           p = holder => CanRollBack(p) \/ (run'.mode = "finish" <=> run.mode = "finish")
  PROVE  Mapped
<1>1. \A p \in Promotions : Stage'[p] = Stage[p]
  BY SMT, StageForm
<1> QED BY <1>1, NothingHappens

\* The lock holder answers its user.  What --recover answers is not a promotion's.
LEMMA HolderAnswers ==
  ASSUME IInv, IInv', holder # Nobody, NEW a, Release(a), Tree' = Tree,
         \A p \in Promotions : CanRollBack(p)' <=> CanRollBack(p),
         \A p \in Promotions : p = holder =>
           /\ a \in Atomic!Answers \ {"none"}
           /\ a = "passed" => run.mode = "finish" /\ ~ CanRollBack(p)
           /\ run.mode = "finish" /\ ~ CanRollBack(p) => a \in {"passed", "recovery_required"}
           /\ CanRollBack(p) => a \in {"recovery_required", "concurrent_update"}
  PROVE  Mapped
<1>1. /\ holder' = Nobody /\ Nobody \notin Promotions /\ answer' = [answer EXCEPT ![holder] = a]
      /\ phase' = [p \in Promotions |-> IF p = holder THEN "idle" ELSE phase[p]]
      /\ holder \in Commands /\ answer \in [Commands -> Answers]
  BY DistinctAssumption DEF Release, IInv, ControlType
<1>2. \A p \in Promotions : p # holder => Stage'[p] = Stage[p]
  BY SMT, <1>1, StageForm
<1>3. CASE holder \in Promotions
  <2> PICK p \in Promotions : p = holder
    BY <1>3
  <2>1. /\ Stage[p] = IF run.mode = "finish" /\ ~ CanRollBack(p) THEN "committed" ELSE "in"
        /\ Stage'[p] = IF CanRollBack(p) THEN "open" ELSE "out"
    BY <1>1, StageForm
  <2>2. Stage' = [Stage EXCEPT ![p] = Stage'[p]]
    BY <1>2, StageChanges
  <2>3. Answered' = [Answered EXCEPT ![p] = a]
    BY <1>1, AnswerChanges
  <2>4. Atomic!Answer(p)
    BY <2>1, <2>2, <2>3 DEF Atomic!Answer, Answered
  <2> QED BY <2>4 DEF Mapped, Atomic!Next
<1>4. CASE holder \notin Promotions
  <2>1. \A p \in Promotions : answer'[p] = answer[p]
    BY <1>1, <1>4 DEF Commands
  <2>2. Answered' = Answered
    BY <2>1 DEF Answered
  <2>3. Stage' = Stage
    BY <1>2, <1>4, StageForm
  <2> QED BY <2>2, <2>3 DEF Mapped
<1> QED BY <1>3, <1>4

\* What the commands answer when they fail.
LEMMA FailureAnswers ==
  /\ {"recovery_required", "concurrent_update"} \subseteq Atomic!Answers \ {"none", "passed"}
  /\ \A p \in Promotions : p = holder => Unsettled = "recovery_required"
BY DistinctAssumption DEF Atomic!Answers, Unsettled

-----------------------------------------------------------------------------
(* The steps before the lock. *)

LEMMA CheckPendingMapped ==
  ASSUME IInv, IInv', NEW p \in Promotions, CheckPending(p)
  PROVE  Mapped
<1>1. /\ UNCHANGED disk /\ UNCHANGED <<holder, run>> /\ phase[p] = "idle" /\ holder # p
      /\ \A q \in Promotions : CanRollBack(q)' <=> CanRollBack(q)
      /\ \A q \in Promotions : Old(q)' = Old(q) /\ New(q)' = New(q)
  BY SameTransactions DEF CheckPending, disk, IInv, ControlType
<1>2. Tree' = Tree
  BY <1>1, TreeUnchanged DEF disk
<1>3. CASE /\ visible = {} /\ phase' = [phase EXCEPT ![p] = "checked"]
           /\ answer' = [answer EXCEPT ![p] = "none"]
  <2>1. ~ CanRollBack(p)
    BY <1>3 DEF IInv, DiskOK, DiskInv, FilesOK
  <2>2. phase'[p] = "checked" /\ \A q \in Promotions \ {p} : phase'[q] = phase[q]
    BY <1>3 DEF IInv, ControlType
  <2>3. Stage[p] = "out" /\ Stage'[p] = "in" /\ \A q \in Promotions \ {p} : Stage'[q] = Stage[q]
    BY SMT, <1>1, <2>1, <2>2, StageForm
  <2>4. Atomic!Enter(p)
    BY <1>2, <1>3, <2>3, StageChanges, AnswerChanges DEF Atomic!Enter, Answered
  <2> QED BY <2>4 DEF Mapped, Atomic!Next
<1>4. CASE answer' = [answer EXCEPT ![p] = "recovery_required"] /\ UNCHANGED phase
  <2>1. Stage[p] \in {"out", "open"} /\ \A q \in Promotions : Stage'[q] = Stage[q]
    BY SMT, <1>1, <1>4, StageForm
  <2>2. Stage' = Stage
    BY <2>1, StageForm
  <2>3. Atomic!Refuse(p)
    BY <1>2, <1>4, <2>1, <2>2, AnswerChanges, FailureAnswers DEF Atomic!Refuse, Answered
  <2> QED BY <2>3 DEF Mapped, Atomic!Next
<1> QED BY <1>3, <1>4 DEF CheckPending

LEMMA CaptureMapped ==
  ASSUME IInv, IInv', NEW p \in Promotions, Capture(p)
  PROVE  Mapped
<1>1. /\ UNCHANGED disk /\ UNCHANGED <<holder, run>> /\ phase[p] = "checked" /\ holder # p
      /\ \A q \in Promotions : CanRollBack(q)' <=> CanRollBack(q)
      /\ \A q \in Promotions : Old(q)' = Old(q) /\ New(q)' = New(q)
  BY SameTransactions DEF Capture, disk, IInv, ControlType
<1>2. Tree' = Tree /\ ~ CanRollBack(p)
  BY <1>1, TreeUnchanged DEF disk, IInv, Waiting
<1>3. CASE phase' = [phase EXCEPT ![p] = "captured"] /\ UNCHANGED answer
  <2>1. phase'[p] = "captured" /\ \A q \in Promotions \ {p} : phase'[q] = phase[q]
    BY <1>3 DEF IInv, ControlType
  <2>2. \A q \in Promotions : Stage'[q] = Stage[q]
    BY SMT, <1>1, <2>1, StageForm
  <2> QED BY <1>2, <1>3, <2>2, NothingHappens
<1>4. CASE /\ phase' = [phase EXCEPT ![p] = "idle"]
           /\ answer' = [answer EXCEPT ![p] = "target_not_clean"]
  <2>1. phase'[p] = "idle" /\ \A q \in Promotions \ {p} : phase'[q] = phase[q]
    BY <1>4 DEF IInv, ControlType
  <2>2. Stage[p] = "in" /\ Stage'[p] = "out" /\ \A q \in Promotions \ {p} : Stage'[q] = Stage[q]
    BY SMT, <1>1, <1>2, <2>1, StageForm
  <2>3. "target_not_clean" \in Atomic!Answers \ {"none"}
    BY DEF Atomic!Answers
  <2>4. Atomic!Answer(p)
    BY <1>2, <1>4, <2>2, <2>3, StageChanges, AnswerChanges DEF Atomic!Answer, Answered
  <2> QED BY <2>4 DEF Mapped, Atomic!Next
<1> QED BY <1>3, <1>4 DEF Capture

LEMMA LockMapped ==
  ASSUME IInv, IInv', NEW p \in Promotions, Lock(p)
  PROVE  Mapped
<1>1. /\ UNCHANGED disk /\ phase[p] = "captured" /\ holder # p
      /\ \A q \in Promotions : CanRollBack(q)' <=> CanRollBack(q)
      /\ \A q \in Promotions : Old(q)' = Old(q) /\ New(q)' = New(q)
  BY SameTransactions DEF Lock, disk, IInv, ControlType
<1>2. Tree' = Tree /\ ~ CanRollBack(p)
  BY <1>1, TreeUnchanged DEF disk, IInv, Waiting
<1>3. CASE holder = Nobody
  <2>1. /\ holder' = p /\ UNCHANGED answer /\ run'.mode = "apply"
        /\ phase' = [phase EXCEPT ![p] = "locked"] /\ Nobody \notin Promotions
    BY SMT, <1>3, DistinctAssumption DEF Lock
  <2>2. \A q \in Promotions \ {p} : phase'[q] = phase[q]
    BY <2>1 DEF IInv, ControlType
  <2>3. \A q \in Promotions : Stage'[q] = Stage[q]
    BY SMT, <1>1, <1>3, <2>1, <2>2, StageForm
  <2> QED BY <1>2, <2>1, <2>3, NothingHappens
<1>4. CASE holder # Nobody
  <2>1. /\ UNCHANGED <<holder, run>>
        /\ phase' = [phase EXCEPT ![p] = "idle"]
        /\ answer' = [answer EXCEPT ![p] = "concurrent_update"]
    BY <1>4 DEF Lock
  <2>2. phase'[p] = "idle" /\ \A q \in Promotions \ {p} : phase'[q] = phase[q]
    BY <2>1 DEF IInv, ControlType
  <2>3. Stage[p] = "in" /\ Stage'[p] = "out" /\ \A q \in Promotions \ {p} : Stage'[q] = Stage[q]
    BY SMT, <1>1, <1>2, <2>1, <2>2, StageForm
  <2>4. Atomic!Answer(p)
    BY <1>2, <2>1, <2>3, StageChanges, AnswerChanges, FailureAnswers DEF Atomic!Answer, Answered
  <2> QED BY <2>4 DEF Mapped, Atomic!Next
<1> QED BY <1>3, <1>4

-----------------------------------------------------------------------------
(* The steps of the lock holder that leave the transaction directories alone. *)

LEMMA PreflightMapped ==
  ASSUME IInv, IInv', Preflight
  PROVE  Mapped
<1>1. /\ UNCHANGED disk /\ holder # Nobody /\ run.step = "preflight"
      /\ \A q \in Promotions : CanRollBack(q)' <=> CanRollBack(q)
      /\ \A q \in Promotions : Old(q)' = Old(q) /\ New(q)' = New(q)
  BY SameTransactions, AtStep DEF Preflight, At, disk
<1>2. Tree' = Tree
  BY <1>1, TreeUnchanged DEF disk
<1>3. run.mode = "apply"
  BY <1>1, AtStep DEF IInv, RunOK, ControlOK, Undoing, Writing, Journalling, Cleaning
<1>4. CASE \E a \in {"recovery_required", "concurrent_update"} : Release(a)
  BY <1>1, <1>2, <1>3, <1>4, HolderAnswers, FailureAnswers
<1>5. CASE GoTo("prepare") /\ UNCHANGED <<holder, phase, base, answer>>
  <2>1. run'.mode = run.mode
    BY <1>1, <1>5 DEF GoTo, IInv, ControlType, Runs
  <2> QED BY <1>1, <1>2, <1>5, <2>1, HolderGoesOn
<1> QED BY <1>4, <1>5 DEF Preflight

\* replace_target_file, and the rollback of a row.
LEMMA RowMapped ==
  ASSUME IInv, IInv', CreateTmp \/ WriteTmp \/ Rename \/ SyncRow \/ UndoTmp \/ UndoSync \/ UndoFile
  PROVE  Mapped
<1>1. run.step \in Writing \cup Undoing
  BY DEF CreateTmp, WriteTmp, Rename, SyncRow, UndoTmp, UndoSync, UndoFile, At, Writing, Undoing
<1> PICK p \in Promotions : p = run.txn
  BY <1>1, BothDirections, RollingBackFacts
<1> PICK f \in Files : f = File
  BY <1>1, BothDirections, RollingBackFacts
<1>2. /\ holder # Nobody /\ f \in {p, Shared} /\ run.mode \in {"apply", "rollback"}
      /\ visible = {p} /\ Intact(p) /\ run \in Runs
      /\ run.mode = "apply" => ApplyingOK(p)
      /\ run.mode = "rollback" => UndoingOK(p)
  BY <1>1, BothDirections, RollingBackFacts DEF IInv, ControlType
<1>3. UNCHANGED <<txn, rootImg, storeImg, parentImg>>
  BY DEF CreateTmp, WriteTmp, Rename, SyncRow, UndoTmp, UndoSync, UndoFile, NoRootCall,
         NoStoreCall, NoParentCall
<1>4. /\ \A q \in Promotions : CanRollBack(q)' <=> CanRollBack(q)
      /\ \A q \in Promotions : Old(q)' = Old(q) /\ New(q)' = New(q)
  BY <1>3, SameTransactions
<1>5. CanRollBack(p) /\ \A g \in {p, Shared} : Old(p)[g] # New(p)[g] /\ target[g] \in Seen(g)
  BY <1>2, IntactIsOpen DEF IInv
<1>6. \A g \in Files : \/ target'[g] = target[g]
                       \/ g = f /\ {target[g], target'[g]} \subseteq {Old(p)[g], New(p)[g]}
  <2>0. target \in [Files -> Contents]
    BY DEF IInv, DiskOK, FileType, Trees
  <2>1. CASE CreateTmp \/ UndoTmp
    BY <2>0, <2>1 DEF CreateTmp, UndoTmp, PutFile, NoFileCall
  <2>2. CASE WriteTmp \/ SyncRow \/ UndoSync
    BY <2>2 DEF WriteTmp, SyncRow, UndoSync, SyncFile
  <2>3. CASE Rename
    <3>1. target' = [target EXCEPT ![f] = tmp[f]] /\ run.step = "rename"
      BY <2>3 DEF Rename, PutFile, At
    <3>2. tmp[f] = Bytes(run.mode, p, f)
      BY <1>2, <3>1 DEF IInv, RunOK
    <3>3. tmp[f] \in {Old(p)[f], New(p)[f]}
      BY <3>2 DEF Bytes, Old, New
    <3>4. target[f] \in {Old(p)[f], New(p)[f]}
      BY <1>2, <1>5, <3>1 DEF ApplyingOK, UndoingOK, Only
    <3> QED BY <2>0, <3>1, <3>3, <3>4
  <2>4. CASE UndoFile
    <3>1. \/ target' = target
          \/ /\ target' = [target EXCEPT ![f] = NoFile]
             /\ Old(p)[f] = NoFile /\ target[f] \in {Old(p)[f], New(p)[f]}
      BY <2>4 DEF UndoFile, PutFile, NoFileCall, IsOurs, Bytes, Old, New
    <3> QED BY <2>0, <3>1
  <2> QED BY <2>1, <2>2, <2>3, <2>4
<1>7. Tree' = Tree
  BY SMT, <1>2, <1>4, <1>5, <1>6, TreeKept
<1>8. CASE run.mode = "rollback" /\ Release(Unsettled)
  BY <1>2, <1>4, <1>7, <1>8, HolderAnswers, FailureAnswers
<1>9. CASE UNCHANGED <<holder, phase, answer>>
  <2>1. ControlOK(p)
    BY <1>1, BothDirections, RollingBackFacts
  <2>2. \A q \in Promotions : q = holder => q = p
    BY <1>2, <2>1, DistinctAssumption DEF ControlOK
  <2> QED BY <1>4, <1>5, <1>7, <1>9, <2>2, HolderGoesOn
<1>10. run.step \in Undoing => run.mode = "rollback"
  BY RollingBackFacts
<1>11. (run.mode = "rollback" /\ Release(Unsettled)) \/ UNCHANGED <<holder, phase, answer>>
  <2>1. CASE CreateTmp \/ WriteTmp \/ Rename \/ SyncRow
    BY <1>2, <2>1 DEF CreateTmp, WriteTmp, Rename, SyncRow, StillRunning, StartRollback
  <2>2. CASE UndoTmp \/ UndoSync \/ UndoFile
    BY <1>10, <2>2 DEF UndoTmp, UndoSync, UndoFile, StillRunning, At, Undoing
  <2> QED BY <2>1, <2>2
<1> QED BY <1>8, <1>9, <1>11

LEMMA ControlMapped ==
  ASSUME IInv, IInv', Attach \/ Validate \/ Inspect
  PROVE  Mapped
<1>1. /\ UNCHANGED disk /\ run.step \in {"attach", "validate", "inspect"}
      /\ \A q \in Promotions : CanRollBack(q)' <=> CanRollBack(q)
      /\ \A q \in Promotions : Old(q)' = Old(q) /\ New(q)' = New(q)
  BY SameTransactions DEF Attach, Validate, Inspect, At, disk
<1>2. Tree' = Tree /\ holder # Nobody
  BY <1>1, TreeUnchanged, AtStep DEF disk
<1>3. CASE run.step = "inspect"
  <2>1. holder = Recoverer /\ Recoverer \notin Promotions
    BY <1>2, <1>3, DistinctAssumption DEF IInv, RunOK
  <2>2. CASE UNCHANGED <<holder, phase, answer>>
    BY <1>1, <1>2, <2>1, <2>2, HolderGoesOn
  <2>3. CASE Release("recovery_conflict")
    BY <1>1, <1>2, <2>1, <2>3, HolderAnswers
  <2> QED BY <1>3, <2>2, <2>3 DEF Attach, Validate, Inspect, At, StillRunning
<1>4. CASE run.step \in {"attach", "validate"}
  <2>1. /\ run.txn \in Promotions /\ holder = run.txn /\ run.mode = "apply"
        /\ visible = {run.txn} /\ Intact(run.txn)
    BY <1>4, Applying
  <2>2. CanRollBack(run.txn)
    BY <2>1, IntactIsOpen DEF IInv
  <2>3. CASE UNCHANGED <<holder, phase, answer>>
    BY <1>1, <1>2, <2>1, <2>2, <2>3, HolderGoesOn
  <2>4. CASE Release("recovery_required")
    BY <1>1, <1>2, <2>1, <2>4, HolderAnswers, FailureAnswers
  <2> QED BY <1>4, <2>3, <2>4 DEF Attach, Validate, Inspect, At, StillRunning, StartRollback
<1> QED BY <1>1, <1>3, <1>4

-----------------------------------------------------------------------------
(* The steps on the transaction directory. *)

LEMMA PublicationMapped ==
  ASSUME IInv, IInv', Prepare \/ SyncPrepared \/ Publish
  PROVE  Mapped
<1>1. run.step \in Preparing \ {"preflight"}
  BY DEF Prepare, SyncPrepared, Publish, At, Preparing
<1> PICK p \in Promotions : p = run.txn
  BY <1>1, NotPublished
<1>2. /\ holder # Nobody /\ run.mode = "apply" /\ holder = p /\ run \in Runs
      /\ visible = {} /\ parentImg = {{}} /\ target = base[p] /\ BaseOK(p, base[p])
      /\ \A q \in Promotions : ~ CanRollBack(q)
  BY <1>1, NotPublished DEF ControlOK, IInv, ControlType
<1>3. /\ UNCHANGED <<target, holder, phase, answer>> /\ run'.mode = "apply"
      /\ \A names \in parentImg' : names \subseteq {p}
  BY <1>2 DEF Prepare, SyncPrepared, Publish, StillRunning, NoFileCall, NoParentCall, PutParent,
              GoTo, Runs
<1>4. \A q \in Promotions : CanRollBack(q)' => q = p
  BY <1>3, RollBackDef
<1>5. Tree' = Tree
  <2>1. Tree = target
    BY <1>2, TreeForm DEF TreeOK
  <2>2. CASE ~ CanRollBack(p)'
    BY <1>3, <1>4, <2>1, <2>2, TreeFormNext DEF TreeOK
  <2>3. CASE CanRollBack(p)'
    <3>1. run.step = "publish" /\ UNCHANGED <<txn, rootImg>>
      <4>1. CASE Publish
        BY <4>1 DEF Publish, At, NoRootCall
      <4>2. CASE Prepare \/ SyncPrepared
        <5>1. parentImg' = {{}}
          BY <1>2, <4>2 DEF Prepare, SyncPrepared, NoParentCall
        <5> QED BY <2>3, <5>1, RollBackDef
      <4> QED BY <4>1, <4>2
    <3>2. Old(p) = base[p] /\ Old(p)' = Old(p) /\ New(p)' = New(p)
      BY <1>1, <3>1, NotPublished DEF PreparingOK, Old, New, Promoted
    <3>3. \A f \in {p, Shared} : target[f] # New(p)[f]
      BY SMT, <1>2, <3>2, PromotedDiffers DEF New, Old
    <3>4. Tree' = Restored(p)'
      BY <2>3, TreeFormNext DEF TreeOK
    <3>5. Restored(p)' = [f \in Files |-> target[f]]
      BY <1>3, <3>2, <3>3 DEF Restored, Files
    <3>6. target = [f \in Files |-> target[f]]
      BY DEF IInv, DiskOK, FileType, Trees
    <3> QED BY <2>1, <3>4, <3>5, <3>6
  <2> QED BY <2>2, <2>3
<1>6. \A q \in Promotions : Stage'[q] = Stage[q]
  BY SMT, <1>2, <1>3, <1>4, StageForm
<1> QED BY <1>3, <1>5, <1>6, NothingHappens

LEMMA SyncPublishedMapped ==
  ASSUME IInv, IInv', SyncPublished
  PROVE  Mapped
<1>1. run.step = "sync_parent"
  BY DEF SyncPublished, At
<1> PICK p \in Promotions : p = run.txn
  BY <1>1, Applying
<1>2. /\ UNCHANGED <<target, txn, rootImg, storeImg, holder, phase, answer>>
      /\ parentImg' = {{p}} /\ visible = {p} /\ holder = p /\ Intact(p)
  BY <1>1, Applying
     DEF SyncPublished, PublishDurably, SyncParent, NoFileCall, NoRootCall, NoStoreCall, StillRunning
<1>3. \A q \in Promotions : Old(q)' = Old(q) /\ New(q)' = New(q) /\ Logged(q)' = Logged(q)
  BY <1>2 DEF Old, New, Promoted, Logged
<1>4. CanRollBack(p) /\ \A q \in Promotions : CanRollBack(q)' <=> CanRollBack(q)
  <2>1. CanRollBack(p) /\ \A q \in Promotions : CanRollBack(q) => q = p
    BY <1>2, IntactIsOpen DEF IInv
  <2>2. CanRollBack(p)'
    <3>1. "applying" \in Logged(p)' /\ TRUE \in storeImg'[p]
      BY <1>2, <1>3, <2>1, RollBackDef
    <3> QED BY <1>2, <3>1, RollBackDef
  <2>3. \A q \in Promotions : CanRollBack(q)' => q = p
    <3>1. \A names \in parentImg' : names \subseteq {p}
      BY <1>2
    <3> QED BY <3>1, RollBackDef
  <2> QED BY <2>1, <2>2, <2>3
<1>5. Tree' = Tree
  BY <1>2, <1>3, <1>4, TreeUnchanged
<1> QED BY <1>2, <1>4, <1>5, HolderGoesOn

LEMMA JournalMapped ==
  ASSUME IInv, IInv', JournalNext \/ JournalRename
  PROVE  Mapped
<1>1. run.step \in Journalling /\ run.step # "journal_sync"
  BY DEF JournalNext, JournalRename, At, Journalling
<1> PICK p \in Promotions : p = run.txn
  BY <1>1, WritingJournal
<1>2. /\ UNCHANGED <<target, storeImg, parentImg, holder, phase, answer>>
      /\ holder = p /\ visible = {p} /\ Intact(p) /\ run.mode \in {"apply", "finish"}
  BY <1>1, WritingJournal
     DEF JournalNext, JournalRename, NoFileCall, NoStoreCall, NoParentCall, StillRunning
<1>3. CanRollBack(p)
  BY <1>2, IntactIsOpen DEF IInv
<1>4. \E j \in Journals, n \in BOOLEAN : PutRoot(p, j, n)
  <2>1. CASE JournalNext
    <3>1. PutRoot(p, txn[p].journal, TRUE) /\ txn[p].journal \in Journals
      BY <2>1 DEF JournalNext, IInv, DiskOK, TxnType
    <3> QED BY <3>1
  <2>2. CASE JournalRename
    <3> DEFINE j == IF run.mode = "apply" THEN Journal("applying", run.row)
                    ELSE Journal("validated", txn[p].journal.replaced)
    <3>1. PutRoot(p, j, FALSE)
      BY <2>2 DEF JournalRename
    <3>2. run.mode = "finish" => txn[p].journal.replaced = 2
      BY <1>1, <2>2, WritingJournal DEF FinishingOK, JournalRename, At
    <3>3. run.row \in 1..2
      BY <1>1, WritingJournal
    <3>4. j \in Journals
      BY SMT, <1>2, <3>2, <3>3 DEF Journals
    <3> HIDE DEF j
    <3> QED BY <3>1, <3>4
  <2> QED BY <2>1, <2>2
<1> PICK j \in Journals, n \in BOOLEAN : PutRoot(p, j, n)
  BY <1>4
<1>5. /\ Logged(p)' = Logged(p) \cup {j.state}
      /\ \A q \in Promotions \ {p} : Logged(q)' = Logged(q)
      /\ \A q \in Promotions : Old(q)' = Old(q) /\ New(q)' = New(q)
  BY SMT, <1>2, PutRootEffect DEF IInv, DiskOK
<1>6. \A q \in Promotions : CanRollBack(q)' <=> CanRollBack(q)
  BY <1>2, <1>3, <1>5, RollBackDef
<1>7. Tree' = Tree
  BY <1>2, <1>5, <1>6, TreeUnchanged
<1> QED BY <1>2, <1>3, <1>6, <1>7, HolderGoesOn

\* The package with the files of a promotion that are all new is the promoted one.
LEMMA AllNew ==
  ASSUME IInv, NEW p \in Promotions, CanRollBack(p), \A f \in {p, Shared} : Only(f, New(p)[f])
  PROVE  Tree[p] = NoFile /\ target = Promoted(p, Tree)
<1>1. Tree = Restored(p)
  BY TreeForm DEF TreeOK
<1>2. BaseOK(p, Old(p)) /\ p # Shared /\ p \in Files /\ Shared \in Files
  BY DistinctAssumption DEF IInv, DiskOK, DiskInv, FilesOK, Files
<1>3. \A f \in {p, Shared} : target[f] = New(p)[f]
  BY <1>2, CurrentSeen DEF IInv, DiskOK, Only
<1>4. Tree[p] = Old(p)[p] /\ Tree[Shared] = Old(p)[Shared]
      /\ \A f \in Files \ {p, Shared} : Tree[f] = target[f]
  BY <1>1, <1>2, <1>3 DEF Restored
<1>5. New(p)[p] = <<p>> /\ New(p)[Shared] = Append(Old(p)[Shared], p)
  BY <1>2 DEF New, Old, Promoted, BaseOK, Trees
<1>6. Tree \in [Files -> {Tree[f] : f \in Files}] /\ target = [f \in Files |-> target[f]]
  BY <1>1 DEF Restored, IInv, DiskOK, FileType, Trees
<1>7. Promoted(p, Tree) = [f \in Files |-> IF f = Shared THEN Append(Tree[Shared], p)
                                            ELSE IF f = p THEN <<p>> ELSE Tree[f]]
  BY <1>2, <1>6 DEF Promoted
<1>8. \A f \in Files : (IF f = Shared THEN Append(Tree[Shared], p)
                        ELSE IF f = p THEN <<p>> ELSE Tree[f]) = target[f]
  BY <1>3, <1>4, <1>5
<1>9. target = Promoted(p, Tree)
  BY <1>6, <1>7, <1>8
<1> QED BY <1>2, <1>4, <1>9 DEF BaseOK

\* A promotion's files are all new, and its journal can no longer be another than
\* the validated one: the package takes the promotion's step.
LEMMA Commits ==
  ASSUME IInv, IInv', NEW p \in Promotions, CanRollBack(p), ~ CanRollBack(p)', UNCHANGED target,
         \A q \in Promotions : CanRollBack(q)' => CanRollBack(q),
         \A f \in {p, Shared} : Only(f, New(p)[f])
  PROVE  Tree[p] = NoFile /\ Tree' = Promoted(p, Tree)
<1>1. \A q \in Promotions : CanRollBack(q) => q = p
  BY TreeForm DEF TreeOK
<1>2. Tree' = target
  BY <1>1, TreeFormNext DEF TreeOK
<1> QED BY <1>2, AllNew

LEMMA JournalSyncMapped ==
  ASSUME IInv, IInv', JournalSync
  PROVE  Mapped
<1>1. run.step \in Journalling /\ run.step = "journal_sync"
  BY DEF JournalSync, At, Journalling
<1> PICK p \in Promotions : p = run.txn
  BY <1>1, WritingJournal
<1>2. /\ UNCHANGED <<target, storeImg, parentImg, holder, phase, answer>>
      /\ holder = p /\ visible = {p} /\ run.mode \in {"apply", "finish"} /\ parentImg = {{p}}
      /\ holder # Nobody /\ run \in Runs
      /\ run.mode = "apply" => ApplyingOK(p)
      /\ run.mode = "finish" => FinishingOK(p)
  BY <1>1, WritingJournal
     DEF JournalSync, NoFileCall, NoStoreCall, NoParentCall, StillRunning, IInv, ControlType
<1>3. /\ Logged(p)' = {txn[p].journal.state} /\ txn[p].journal.state \in Logged(p)
      /\ \A q \in Promotions \ {p} : Logged(q)' = Logged(q)
      /\ \A q \in Promotions : Old(q)' = Old(q) /\ New(q)' = New(q)
  BY <1>2, SyncRootEffect, CurrentSeen DEF JournalSync, IInv, DiskOK
<1>4. \A q \in Promotions : CanRollBack(q)' => CanRollBack(q)
  <2>1. storeImg' = storeImg /\ parentImg' = parentImg /\ \A q \in Promotions : Logged(q)' \subseteq Logged(q)
    BY <1>2, <1>3
  <2> QED BY <2>1, RollBackDef
<1>5. \A q \in Promotions \ {p} : ~ CanRollBack(q) /\ Stage'[q] = Stage[q]
  <2>1. \A q \in Promotions \ {p} : ~ CanRollBack(q) /\ ~ CanRollBack(q)'
    <3>1. \A names \in parentImg : names \subseteq {p}
      BY <1>2
    <3> QED BY <1>4, <3>1, RollBackDef
  <2> QED BY SMT, <1>2, <2>1, StageForm
<1>6. run.mode = "finish" => run'.mode = "finish"
  BY <1>2 DEF JournalSync, Runs
<1>7. CASE CanRollBack(p) /\ CanRollBack(p)'
  <2>1. \A q \in Promotions : CanRollBack(q)' <=> CanRollBack(q)
    BY <1>4, <1>5, <1>7
  <2>2. Tree' = Tree
    BY <1>2, <1>3, <2>1, TreeUnchanged
  <2> QED BY <1>2, <1>7, <2>1, <2>2, HolderGoesOn
<1>8. CASE ~ CanRollBack(p)'
  <2>1. run.mode = "finish"
    <3>1. run.mode = "apply" => CanRollBack(p)'
      <4> SUFFICES ASSUME run.mode = "apply" PROVE CanRollBack(p)'
        OBVIOUS
      <4>1. Intact(p) /\ CanRollBack(p)
        BY <1>2, IntactIsOpen DEF ApplyingOK, IInv
      <4>2. Logged(p)' = {"applying"} /\ TRUE \in storeImg'[p]
        BY <1>2, <1>3, <4>1, RollBackDef DEF Intact
      <4> QED BY <1>2, <4>2, RollBackDef
    <3> QED BY <1>2, <1>8, <3>1
  <2>2. CASE CanRollBack(p)
    <3>1. Tree[p] = NoFile /\ Tree' = Promoted(p, Tree)
      BY <1>2, <1>4, <1>8, <2>1, <2>2, Commits DEF FinishingOK
    <3>2. Stage[p] = "in" /\ Stage'[p] = "committed"
      BY <1>2, <1>6, <1>8, <2>1, <2>2, StageForm
    <3>3. Atomic!Commit(p)
      BY <1>2, <1>5, <3>1, <3>2, StageChanges DEF Atomic!Commit, Atomic!Promoted, Promoted
    <3> QED BY <3>3 DEF Mapped, Atomic!Next
  <2>3. CASE ~ CanRollBack(p)
    <3>1. \A q \in Promotions : CanRollBack(q)' <=> CanRollBack(q)
      BY <1>4, <1>5, <2>3
    <3>2. Tree' = Tree
      BY <1>2, <1>3, <3>1, TreeUnchanged
    <3> QED BY <1>2, <1>6, <2>1, <3>1, <3>2, HolderGoesOn
  <2> QED BY <2>2, <2>3
<1> QED BY <1>4, <1>7, <1>8

\* cleanup_transaction: every file has settled, so the package stays as it is.
LEMMA CleanupMapped ==
  ASSUME IInv, IInv', CleanStores \/ UnlinkJournal \/ SyncEmpty \/ Rmdir \/ SyncRemoved
  PROVE  Mapped
<1>1. run.step \in Cleaning /\ run.step # "sync_stores"
  BY DEF CleanStores, UnlinkJournal, SyncEmpty, Rmdir, SyncRemoved, At, Cleaning
<1> PICK p \in Promotions : p = run.txn
  BY <1>1, CleaningFacts
<1>2. /\ holder # Nobody /\ run.mode \in {"rollback", "finish"} /\ run \in Runs
      /\ ControlOK(p) /\ CleaningOK(p)
      /\ run.mode = "finish" \/ run.step # "clean_stores" => \A q \in Promotions : ~ CanRollBack(q)
  BY <1>1, CleaningFacts DEF IInv, ControlType
<1>3. target' = target
  BY DEF CleanStores, UnlinkJournal, SyncEmpty, Rmdir, SyncRemoved, NoFileCall
<1>4. /\ \A q \in Promotions : CanRollBack(q)' <=> CanRollBack(q)
      /\ \A q \in Promotions : Old(q)' = Old(q) /\ New(q)' = New(q)
  <2>1. CASE CleanStores
    <3>1. UNCHANGED <<rootImg, parentImg>>
      BY <2>1 DEF CleanStores, NoParentCall
    <3>2. CASE UNCHANGED <<txn, storeImg>>
      BY <3>1, <3>2, SameTransactions
    <3>3. CASE /\ txn' = [txn EXCEPT ![p].stored = FALSE]
               /\ storeImg' = [storeImg EXCEPT ![p] = @ \cup {FALSE}]
      <4>1. /\ storeImg'[p] = storeImg[p] \cup {FALSE}
            /\ \A q \in Promotions \ {p} : storeImg'[q] = storeImg[q]
            /\ \A q \in Promotions :
                 Old(q)' = Old(q) /\ New(q)' = New(q) /\ Logged(q)' = Logged(q)
        BY <3>1, <3>3, StoreEffect DEF IInv, DiskOK
      <4>2. parentImg' = parentImg /\ \A q \in Promotions : TRUE \in storeImg'[q] <=> TRUE \in storeImg[q]
        BY <3>1, <4>1
      <4> QED BY <4>1, <4>2, RollBackDef
    <3> QED BY <2>1, <3>2, <3>3 DEF CleanStores
  <2>2. CASE UnlinkJournal \/ SyncEmpty \/ Rmdir \/ SyncRemoved
    <3>1. run.step # "clean_stores" /\ UNCHANGED storeImg
      BY <2>2 DEF UnlinkJournal, SyncEmpty, Rmdir, SyncRemoved, At, NoStoreCall
    <3>2. TRUE \notin storeImg'[p]
      BY <1>1, <1>2, <3>1 DEF CleaningOK
    <3>3. \A names \in parentImg' : names \subseteq {p}
      <4>1. \A names \in parentImg : names \subseteq {p}
        BY <1>2 DEF CleaningOK
      <4>2. visible \in parentImg
        BY DEF IInv, DiskOK, ParentType
      <4>3. \/ parentImg' = parentImg \/ parentImg' = {visible}
            \/ parentImg' = parentImg \cup {visible \ {p}}
        BY <2>2 DEF UnlinkJournal, SyncEmpty, Rmdir, SyncRemoved, NoParentCall, PutParent, SyncParent
      <4>4. visible \subseteq {p} /\ visible \ {p} \subseteq {p}
        BY <4>1, <4>2
      <4>5. CASE parentImg' = parentImg
        BY <4>1, <4>5
      <4>6. CASE parentImg' = {visible}
        BY <4>4, <4>6
      <4>7. CASE parentImg' = parentImg \cup {visible \ {p}}
        BY <4>1, <4>4, <4>7
      <4> QED BY <4>3, <4>5, <4>6, <4>7
    <3>4. \A q \in Promotions : ~ CanRollBack(q)'
      BY <3>2, <3>3, RollBackDef
    <3>5. \A q \in Promotions : Old(q)' = Old(q) /\ New(q)' = New(q)
      <4>1. CASE UnlinkJournal
        <5>1. \E j \in Journals : PutRoot(p, j, FALSE)
          <6>1. \E j \in {txn[p].journal, NoJournal} : PutRoot(p, j, FALSE)
            BY <4>1 DEF UnlinkJournal
          <6>2. {txn[p].journal, NoJournal} \subseteq Journals
            BY SMT DEF Journals, IInv, DiskOK, TxnType
          <6> QED BY <6>1, <6>2
        <5> QED BY <3>1, <5>1, PutRootEffect DEF IInv, DiskOK
      <4>2. CASE SyncEmpty \/ Rmdir \/ SyncRemoved
        BY <4>2 DEF SyncEmpty, Rmdir, SyncRemoved, SyncRoot, NoRootCall, Old, New, Promoted
      <4> QED BY <2>2, <4>1, <4>2
    <3> QED BY <1>2, <3>1, <3>4, <3>5
  <2> QED BY <2>1, <2>2
<1>5. Tree' = Tree
  BY <1>3, <1>4, TreeUnchanged
<1>6. CASE UNCHANGED <<holder, phase, answer>> /\ (UNCHANGED run \/ \E s \in Steps : GoTo(s))
  <2>1. run'.mode = run.mode
    BY <1>2, <1>6 DEF GoTo, Runs
  <2> QED BY <1>4, <1>5, <1>6, <2>1, HolderGoesOn
<1>7. CASE CleanStores /\ Release(Unsettled)
  BY <1>2, <1>4, <1>5, <1>7, HolderAnswers, FailureAnswers
<1>8. CASE SyncRemoved
  <2>1. Release(run.code) /\ \A q \in Promotions : ~ CanRollBack(q)
    BY <1>2, <1>8 DEF SyncRemoved, At
  <2>2. \A q \in Promotions : q = holder =>
          /\ run.mode = "finish" => run.code = "passed"
          /\ run.mode = "rollback" => run.code \in {"concurrent_update", "identity_mismatch"}
    BY <1>2, DistinctAssumption DEF ControlOK
  <2>3. {"passed", "concurrent_update", "identity_mismatch"} \subseteq Atomic!Answers \ {"none"}
    BY DEF Atomic!Answers
  <2>4. \A q \in Promotions : q = holder =>
          /\ run.code \in Atomic!Answers \ {"none"}
          /\ run.code = "passed" => run.mode = "finish"
          /\ run.mode = "finish" => run.code \in {"passed", "recovery_required"}
    BY <1>2, <2>2, <2>3
  <2> QED BY <1>2, <1>4, <1>5, <2>1, <2>4, HolderAnswers
<1>9. \/ UNCHANGED <<holder, phase, answer>> /\ (UNCHANGED run \/ \E s \in Steps : GoTo(s))
      \/ CleanStores /\ Release(Unsettled)
      \/ SyncRemoved
  BY DEF CleanStores, UnlinkJournal, SyncEmpty, Rmdir, StillRunning, Steps
<1> QED BY <1>6, <1>7, <1>8, <1>9

\* The fsync that takes away the old files of a promotion that was rolled back
\* settles it.
LEMMA SyncStoresMapped ==
  ASSUME IInv, IInv', SyncStores
  PROVE  Mapped
<1>1. run.step \in Cleaning /\ run.step = "sync_stores"
  BY DEF SyncStores, At, Cleaning
<1> PICK p \in Promotions : p = run.txn
  BY <1>1, CleaningFacts
<1>2. /\ holder # Nobody /\ run.mode \in {"rollback", "finish"} /\ run \in Runs
      /\ ControlOK(p) /\ CleaningOK(p) /\ p \in Files /\ Shared \in Files
      /\ \A q \in Promotions : CanRollBack(q) => q = p
      /\ run.mode = "finish" => \A q \in Promotions : ~ CanRollBack(q)
  BY <1>1, CleaningFacts DEF IInv, ControlType
<1>3. /\ UNCHANGED <<target, txn, rootImg, parentImg, holder, phase, answer>> /\ run'.mode = run.mode
      /\ storeImg' = [storeImg EXCEPT ![p] = {FALSE}]
  BY <1>2 DEF SyncStores, NoFileCall, NoRootCall, NoParentCall, StillRunning, GoTo, Runs
<1>4. /\ \A q \in Promotions : Old(q)' = Old(q) /\ New(q)' = New(q) /\ Logged(q)' = Logged(q)
      /\ \A q \in Promotions : ~ CanRollBack(q)'
  <2>1. \A q \in Promotions : Old(q)' = Old(q) /\ New(q)' = New(q) /\ Logged(q)' = Logged(q)
    BY <1>3 DEF Old, New, Promoted, Logged
  <2>2. TRUE \notin storeImg'[p]
    BY <1>3 DEF IInv, DiskOK, TxnType
  <2>3. \A names \in parentImg' : names \subseteq {p}
    BY <1>2, <1>3 DEF CleaningOK
  <2> QED BY <2>1, <2>2, <2>3, RollBackDef
<1>5. CASE ~ CanRollBack(p)
  <2>1. \A q \in Promotions : CanRollBack(q)' <=> CanRollBack(q)
    BY <1>2, <1>4, <1>5
  <2>2. Tree' = Tree
    BY <1>3, <1>4, <2>1, TreeUnchanged
  <2> QED BY <1>3, <2>1, <2>2, HolderGoesOn
<1>6. CASE CanRollBack(p)
  <2>1. Tree' = target /\ Tree = Restored(p)
    BY <1>3, <1>4, <1>6, TreeForm, TreeFormNext DEF TreeOK
  <2>2. \A f \in {p, Shared} : target[f] # New(p)[f]
    <3>1. /\ BaseOK(p, Old(p)) /\ run.mode = "rollback"
          /\ \A f \in {p, Shared} : Only(f, Old(p)[f]) /\ target[f] \in Seen(f)
      <4>1. FilesOK(p) /\ p \in Files /\ Shared \in Files
        BY <1>2, <1>6 DEF IInv, DiskOK, DiskInv
      <4>2. run.mode = "rollback"
        BY <1>2, <1>6
      <4>3. \A f \in {p, Shared} : Only(f, Old(p)[f])
        BY <1>1, <1>2, <4>2 DEF CleaningOK
      <4>4. \A f \in {p, Shared} : target[f] \in Seen(f)
        BY <4>1, CurrentSeen DEF IInv, DiskOK
      <4> QED BY <4>1, <4>2, <4>3, <4>4 DEF FilesOK
    <3>2. \A f \in {p, Shared} : New(p)[f] # Old(p)[f]
      BY SMT, <3>1, PromotedDiffers DEF New, Old
    <3> QED BY <3>1, <3>2 DEF Only
  <2>3. Tree' = Tree
    <3>1. Restored(p) = [f \in Files |-> target[f]]
      BY <2>2 DEF Restored
    <3>2. target = [f \in Files |-> target[f]]
      BY DEF IInv, DiskOK, FileType, Trees
    <3> QED BY <2>1, <3>1, <3>2
  <2>4. \A q \in Promotions \ {p} : Stage'[q] = Stage[q]
    BY SMT, <1>2, <1>3, <1>4, StageForm
  <2>5. CASE holder = p
    <3>1. Stage'[p] = Stage[p]
      BY SMT, <1>2, <1>3, <1>4, <1>6, <2>5, StageForm
    <3> QED BY <1>3, <2>3, <2>4, <3>1, NothingHappens
  <2>6. CASE holder # p
    <3>1. phase[p] = "idle"
      BY <1>6, <2>6 DEF IInv, ControlType, Waiting
    <3>2. Stage[p] = "open" /\ Stage'[p] = "out"
      BY <1>3, <1>4, <1>6, <2>6, <3>1, StageForm
    <3>3. Atomic!Settle(p)
      BY <1>3, <2>3, <2>4, <3>2, StageChanges DEF Atomic!Settle
    <3> QED BY <3>3 DEF Mapped, Atomic!Next
  <2> QED BY <2>5, <2>6
<1> QED BY <1>5, <1>6

-----------------------------------------------------------------------------
(* recover_transaction and the environment. *)

LEMMA RecoverMapped ==
  ASSUME IInv, IInv', NEW p \in Promotions, Recover(p)
  PROVE  Mapped
<1>1. /\ UNCHANGED <<target, txn, rootImg, storeImg, parentImg, phase>> /\ holder = Nobody
      /\ holder' = Recoverer /\ answer' = [answer EXCEPT ![Recoverer] = "none"]
  BY DEF Recover, disk
<1>2. Nobody \notin Promotions /\ Recoverer \notin Promotions /\ answer \in [Commands -> Answers]
  BY DistinctAssumption DEF IInv, ControlType
<1>3. /\ \A q \in Promotions : CanRollBack(q)' <=> CanRollBack(q)
      /\ \A q \in Promotions : Old(q)' = Old(q) /\ New(q)' = New(q)
  BY <1>1, SameTransactions
<1>4. Tree' = Tree
  BY <1>1, <1>3, TreeUnchanged
<1>5. \A q \in Promotions : Stage'[q] = Stage[q] /\ answer'[q] = answer[q]
  BY <1>1, <1>2, <1>3, StageForm DEF Commands
<1>6. Stage' = Stage /\ Answered' = Answered
  BY <1>5, StageForm DEF Answered
<1> QED BY <1>4, <1>6 DEF Mapped

LEMMA FaultMapped ==
  ASSUME IInv, IInv', Fault
  PROVE  Mapped
<1>1. /\ holder # Nobody /\ DiscardTmp
      /\ UNCHANGED <<txn, rootImg, storeImg, visible, parentImg>>
  BY DEF Fault, NoRootCall, NoStoreCall, NoParentCall, DiscardTmp
<1>2. /\ target' = target
      /\ \A q \in Promotions : CanRollBack(q)' <=> CanRollBack(q)
      /\ \A q \in Promotions : Old(q)' = Old(q) /\ New(q)' = New(q)
  BY <1>1, TmpDiscarded
<1>3. Tree' = Tree
  BY <1>2, TreeUnchanged
<1>4. CASE /\ run.step \in {"preflight", "prepare", "sync_prepared", "publish", "attach"}
           /\ Release("concurrent_update")
  <2>1. run.mode # "finish"
    BY <1>1, <1>4 DEF IInv, RunOK, ControlOK, Journalling, Cleaning
  <2> QED BY <1>1, <1>2, <1>3, <1>4, <2>1, HolderAnswers, FailureAnswers
<1>5. CASE /\ run.mode = "apply" /\ \E c : run' = RollingBack(c)
           /\ UNCHANGED <<holder, phase, answer>>
  <2>1. run'.mode = "rollback"
    BY SMT, <1>5 DEF RollingBack
  <2> QED BY <1>2, <1>3, <1>5, <2>1, HolderGoesOn
<1>6. CASE run.mode # "apply" /\ Release(Unsettled)
  BY <1>1, <1>2, <1>3, <1>6, HolderAnswers, FailureAnswers
<1> QED BY <1>4, <1>5, <1>6 DEF Fault

LEMMA CrashMapped ==
  ASSUME IInv, IInv', Crash
  PROVE  Mapped
<1>1. /\ UNCHANGED <<target, txn, rootImg, storeImg, parentImg, answer>> /\ holder' = Nobody
      /\ phase' = [p \in Promotions |-> IF p = holder THEN "idle" ELSE phase[p]]
  BY DEF Crash, disk
<1>2. /\ Nobody \notin Promotions
      /\ \A q \in Promotions : CanRollBack(q)' <=> CanRollBack(q)
      /\ \A q \in Promotions : Old(q)' = Old(q) /\ New(q)' = New(q)
  BY <1>1, DistinctAssumption, SameTransactions
<1>3. Tree' = Tree
  BY <1>1, <1>2, TreeUnchanged
<1>4. \A q \in Promotions : q # holder => Stage'[q] = Stage[q]
  BY SMT, <1>1, <1>2, StageForm
<1>5. CASE holder \in Promotions
  <2> PICK p \in Promotions : p = holder
    BY <1>5
  <2>1. Stage[p] # "out" /\ Stage'[p] \in {"out", "open"}
    BY <1>1, <1>2, StageForm
  <2>2. PICK S \in [{p} -> {"out", "open"}] : S[p] = Stage'[p]
    <3>1. [q \in {p} |-> Stage'[p]] \in [{p} -> {"out", "open"}]
      BY <2>1
    <3> QED BY <3>1
  <2>3. Stage' = [q \in Promotions |-> IF q \in {p} THEN S[q] ELSE Stage[q]]
    BY SMT, <1>4, <2>2, StageForm
  <2>4. Atomic!Interrupt({p})
    BY <1>1, <1>3, <2>1, <2>3 DEF Atomic!Interrupt, Answered
  <2>5. {p} \in SUBSET Promotions
    OBVIOUS
  <2> QED BY <2>4, <2>5 DEF Mapped, Atomic!Next
<1>6. CASE holder \notin Promotions
  BY <1>1, <1>3, <1>4, <1>6, NothingHappens
<1> QED BY <1>5, <1>6

\* Every directory has come back as one of its images: the package is what it
\* was, or the promotion whose files were all new has taken its step.
LEMMA ComesBack ==
  ASSUME IInv, IInv', WrittenBack',
         \A f \in Files : target'[f] \in Seen(f),
         \A p \in Promotions : /\ Old(p)' = Old(p) /\ New(p)' = New(p)
                               /\ txn'[p].journal.state \in Logged(p)
                               /\ txn'[p].stored \in storeImg[p],
         visible' \in parentImg,
         \A p \in Promotions : CanRollBack(p)' => CanRollBack(p)
  PROVE  \/ Tree' = Tree
         \/ \E p \in Promotions : /\ CanRollBack(p) /\ ~ CanRollBack(p)'
                                  /\ Tree[p] = NoFile /\ Tree' = Promoted(p, Tree)
<1>1. /\ \A p \in Promotions : Logged(p)' = {txn'[p].journal.state} /\ storeImg'[p] = {txn'[p].stored}
      /\ parentImg' = {visible'} /\ DiskInv
      /\ target \in [Files -> Contents] /\ target' \in [Files -> Contents]
      /\ \A f \in Files : target[f] \in Seen(f)
  BY CaughtUp, CurrentSeen DEF IInv, DiskOK, FileType, Trees, Files, Contents
<1>2. CASE \A p \in Promotions : ~ CanRollBack(p)
  <2>1. \A f \in Files : target'[f] = target[f]
    BY <1>1, <1>2 DEF DiskInv, Only
  <2>2. target' = target
    BY SMT, <1>1, <2>1
  <2> QED BY <1>2, <2>2, TreeForm, TreeFormNext DEF TreeOK
<1>3. ASSUME NEW p \in Promotions, CanRollBack(p)
      PROVE  Tree' = Tree \/ (~ CanRollBack(p)' /\ Tree[p] = NoFile /\ Tree' = Promoted(p, Tree))
  <2>1. /\ FilesOK(p) /\ BaseOK(p, Old(p)) /\ p \in Files /\ Shared \in Files
        /\ Tree = Restored(p) /\ \A q \in Promotions : CanRollBack(q) => q = p
    BY <1>1, <1>3, TreeForm DEF DiskInv, FilesOK, TreeOK, Files
  <2>2. \A f \in Files \ {p, Shared} : target'[f] = target[f]
    BY <1>1, <2>1 DEF DiskInv, Only
  <2>3. \A f \in {p, Shared} : Old(p)[f] # New(p)[f]
    BY SMT, <2>1, PromotedDiffers DEF New, Old
  <2>4. CASE CanRollBack(p)'
    <3>1. \A f \in {p, Shared} : \/ target'[f] = target[f]
                                 \/ {target[f], target'[f]} \subseteq {Old(p)[f], New(p)[f]}
      BY <1>1, <2>1 DEF FilesOK, Only
    <3> QED BY <1>3, <2>2, <2>3, <2>4, <3>1, TreeKept
  <2>5. CASE ~ CanRollBack(p)' /\ (p \notin visible' \/ ~ txn'[p].stored)
    <3>1. (\E names \in parentImg : p \notin names) \/ FALSE \in storeImg[p]
      BY <2>5 DEF IInv, DiskOK, TxnType
    <3>2. \A f \in {p, Shared} : target'[f] = target[f] /\ target[f] # New(p)[f]
      BY <2>1, <3>1 DEF FilesOK, Only
    <3>3. target' = target
      BY SMT, <1>1, <2>2, <3>2
    <3>4. Tree' = target'
      BY <2>1, <2>5, TreeFormNext DEF TreeOK
    <3>5. Restored(p) = [f \in Files |-> target[f]]
      BY <3>2 DEF Restored
    <3> QED BY <1>1, <2>1, <3>3, <3>4, <3>5
  <2>6. CASE ~ CanRollBack(p)' /\ p \in visible' /\ txn'[p].stored
    <3>1. TRUE \in storeImg'[p] /\ \E names \in parentImg' : p \in names
      <4>1. txn'[p].stored = TRUE
        BY <2>6 DEF IInv, DiskOK, TxnType
      <4> QED BY <1>1, <2>6, <4>1
    <3>2. txn'[p].journal.state # "applying"
      BY <1>1, <2>6, <3>1, RollBackDef
    <3>3. \A f \in {p, Shared} : Only(f, New(p)[f])
      BY <2>1, <3>2 DEF FilesOK
    <3>4. \A f \in {p, Shared} : target'[f] = target[f]
      BY <1>1, <2>1, <3>3 DEF Only
    <3>5. target' = target
      BY SMT, <1>1, <2>2, <3>4
    <3> QED BY <1>3, <2>6, <3>3, <3>5, Commits
  <2> QED BY <2>4, <2>5, <2>6
<1>4. CASE \E p \in Promotions : CanRollBack(p) /\ Tree' # Tree
  <2> PICK p \in Promotions : CanRollBack(p) /\ Tree' # Tree
    BY <1>4
  <2> QED BY <1>3
<1> QED BY <1>2, <1>4

LEMMA PowerLossMapped ==
  ASSUME IInv, IInv', PowerLoss
  PROVE  Mapped
<1>1. \/ Tree' = Tree
      \/ \E p \in Promotions : /\ CanRollBack(p) /\ ~ CanRollBack(p)'
                               /\ Tree[p] = NoFile /\ Tree' = Promoted(p, Tree)
  BY PowerLossEffect, PowerLossStep, ComesBack
<1>2. /\ holder' = Nobody /\ Nobody \notin Promotions /\ UNCHANGED answer
      /\ phase' = [p \in Promotions |-> "idle"]
      /\ \A p \in Promotions : CanRollBack(p)' => CanRollBack(p)
  BY DistinctAssumption, PowerLossStep DEF PowerLoss
<1> DEFINE P == {p \in Promotions : Stage[p] # "out"}
           S == [p \in P |-> Stage'[p]]
<1>3. \A p \in Promotions : /\ Stage'[p] \in {"out", "open"}
                            /\ Stage[p] = "out" => Stage'[p] = "out"
                            /\ CanRollBack(p) => Stage[p] \in {"in", "open"}
  BY <1>2, StageForm
<1>4. S \in [P -> {"out", "open"}]
  BY <1>3
<1>5. Stage' = [p \in Promotions |-> IF p \in P THEN S[p] ELSE Stage[p]]
  BY SMT, <1>3, StageForm
<1>6. \/ Tree' = Tree
      \/ \E p \in P : Stage[p] \in {"in", "open"} /\ Tree[p] = NoFile /\ Tree' = Promoted(p, Tree)
  BY <1>1, <1>3
<1>7. P \in SUBSET Promotions /\ \A p \in P : Stage[p] # "out"
  OBVIOUS
<1>8. Answered' = Answered
  BY <1>2 DEF Answered
<1> HIDE DEF P, S
<1>9. Atomic!Interrupt(P)
  BY <1>4, <1>5, <1>6, <1>7, <1>8 DEF Atomic!Interrupt, Atomic!Promoted, Promoted, Answered
<1> QED BY <1>7, <1>9 DEF Mapped, Atomic!Next

LEMMA WriteBackMapped ==
  ASSUME IInv, IInv', WriteBack
  PROVE  Mapped
<1>1. /\ WrittenBack' /\ \A p \in Promotions : CanRollBack(p)' => CanRollBack(p)
      /\ UNCHANGED <<target, txn, visible, holder, run, phase, answer>> /\ holder = Nobody
  BY WriteBackStep DEF WriteBack
<1>2. \/ Tree' = Tree
      \/ \E p \in Promotions : /\ CanRollBack(p) /\ ~ CanRollBack(p)'
                               /\ Tree[p] = NoFile /\ Tree' = Promoted(p, Tree)
  <2>1. /\ \A f \in Files : target'[f] \in Seen(f)
        /\ \A p \in Promotions : txn'[p].journal.state \in Logged(p) /\ txn'[p].stored \in storeImg[p]
        /\ visible' \in parentImg
    BY <1>1, CurrentSeen DEF IInv, DiskOK, TxnType, ParentType
  <2>2. \A p \in Promotions : Old(p)' = Old(p) /\ New(p)' = New(p)
    BY <1>1 DEF Old, New, Promoted
  <2> QED BY <1>1, <2>1, <2>2, ComesBack
<1>3. CASE \A p \in Promotions : CanRollBack(p)' <=> CanRollBack(p)
  <2>1. \A p \in Promotions : Stage'[p] = Stage[p]
    BY SMT, <1>1, <1>3, StageForm
  <2> QED BY <1>1, <1>2, <1>3, <2>1, NothingHappens
<1>4. ASSUME NEW p \in Promotions, CanRollBack(p), ~ CanRollBack(p)'
      PROVE  Atomic!Settle(p)
  <2>1. \A q \in Promotions : CanRollBack(q) => q = p
    BY <1>4, TreeForm DEF TreeOK
  <2>2. phase[p] = "idle" /\ holder # p
    BY <1>1, <1>4, DistinctAssumption DEF IInv, ControlType, Waiting
  <2>3. Stage[p] = "open" /\ Stage'[p] = "out" /\ \A q \in Promotions \ {p} : Stage'[q] = Stage[q]
    BY SMT, <1>1, <1>4, <2>1, <2>2, StageForm
  <2>4. Stage' = [Stage EXCEPT ![p] = "out"]
    BY <2>3, StageChanges
  <2>5. Tree' = Tree \/ (Tree[p] = NoFile /\ Tree' = Promoted(p, Tree))
    BY <1>2, <2>1
  <2> QED BY <1>1, <2>3, <2>4, <2>5 DEF Atomic!Settle, Atomic!Promoted, Promoted, Answered
<1>5. CASE \E p \in Promotions : CanRollBack(p) /\ ~ CanRollBack(p)'
  BY <1>4, <1>5 DEF Mapped, Atomic!Next
<1> QED BY <1>1, <1>3, <1>5

LEMMA Appended ==
  ASSUME NEW s \in Seq(Promotions \cup {Foreign}), NEW e \in Promotions
  PROVE  /\ \A a : Append(s, e) = <<a>> => e = a
         /\ Range(Append(s, e)) = Range(s) \cup {e}
<1> PICK S : S = Promotions \cup {Foreign}
  OBVIOUS
<1>0. s \in Seq(S) /\ e \in S
  OBVIOUS
<1>1. /\ Len(Append(s, e)) = Len(s) + 1 /\ Len(s) \in Nat
      /\ DOMAIN s = 1..Len(s) /\ DOMAIN Append(s, e) = 1..(Len(s) + 1)
      /\ \A i \in 1..Len(s) : Append(s, e)[i] = s[i]
      /\ Append(s, e)[Len(s) + 1] = e
  BY SMT, <1>0
<1>2. \A a : Append(s, e) = <<a>> => e = a
  <2> TAKE a
  <2> HAVE Append(s, e) = <<a>>
  <2>1. Len(<<a>>) = 1 /\ <<a>>[1] = a
    OBVIOUS
  <2> QED BY <1>1, <2>1
<1>3. Range(Append(s, e)) = Range(s) \cup {e}
  BY SMT, <1>1 DEF Range
<1> QED BY <1>1, <1>2, <1>3

LEMMA ForeignWriteMapped ==
  ASSUME IInv, IInv', ForeignWrite
  PROVE  Mapped
<1>1. /\ \A p \in Promotions : CanRollBack(p)' <=> CanRollBack(p)
      /\ \A p \in Promotions : Old(p)' = Old(p) /\ New(p)' = New(p)
      /\ target' = [target EXCEPT ![Shared] = <<Foreign>>]
      /\ UNCHANGED <<holder, run, phase, answer>>
  BY ForeignWriteStep DEF ForeignWrite
<1>2. target \in [Files -> Contents] /\ Shared \in Files
  BY DEF IInv, DiskOK, FileType, Trees, Files
<1>3. Tree' = [Tree EXCEPT ![Shared] = <<Foreign>>]
  <2>1. CASE \A p \in Promotions : ~ CanRollBack(p)
    BY <1>1, <2>1, TreeForm, TreeFormNext DEF TreeOK
  <2>2. ASSUME NEW p \in Promotions, CanRollBack(p) PROVE Tree' = [Tree EXCEPT ![Shared] = <<Foreign>>]
    <3>1. Tree = Restored(p) /\ Tree' = Restored(p)' /\ BaseOK(p, Old(p))
      BY <1>1, <2>2, TreeForm, TreeFormNext DEF TreeOK, IInv, DiskOK, DiskInv, FilesOK
    <3>2. <<Foreign>> # New(p)[Shared]
      <4>1. New(p)[Shared] = Append(Old(p)[Shared], p) /\ Old(p)[Shared] \in Seq(Promotions \cup {Foreign})
        BY <1>2, <3>1, DistinctAssumption DEF New, Old, Promoted, BaseOK, Trees, Contents
      <4>2. Append(Old(p)[Shared], p) = <<Foreign>> => p = Foreign
        BY <4>1, Appended
      <4> QED BY <4>1, <4>2, DistinctAssumption
    <3>3. p # Shared /\ \A f \in Files : target'[f] = IF f = Shared THEN <<Foreign>> ELSE target[f]
      BY <1>1, <1>2, DistinctAssumption
    <3>4. \A f \in Files :
            (IF f \in {p, Shared} /\ target'[f] = New(p)'[f] THEN Old(p)'[f] ELSE target'[f])
              = IF f = Shared THEN <<Foreign>>
                ELSE IF f \in {p, Shared} /\ target[f] = New(p)[f] THEN Old(p)[f] ELSE target[f]
      BY <1>1, <3>2, <3>3
    <3>5. Restored(p)' = [f \in Files |-> IF f = Shared THEN <<Foreign>> ELSE Restored(p)[f]]
      BY <3>4 DEF Restored, Files
    <3>6. [Restored(p) EXCEPT ![Shared] = <<Foreign>>]
            = [f \in Files |-> IF f = Shared THEN <<Foreign>> ELSE Restored(p)[f]]
      BY DEF Restored
    <3> QED BY <3>1, <3>5, <3>6
  <2> QED BY <2>1, <2>2
<1>4. \A p \in Promotions : Stage'[p] = Stage[p]
  BY SMT, <1>1, StageForm
<1>5. Stage' = Stage
  BY <1>4, StageForm
<1>6. Atomic!ForeignWrite
  BY <1>1, <1>3, <1>5 DEF Atomic!ForeignWrite, Answered
<1> QED BY <1>6 DEF Mapped, Atomic!Next

-----------------------------------------------------------------------------
(* The refinement. *)

LEMMA InitialMapped == Init => Atomic!Init
<1> SUFFICES ASSUME Init PROVE Atomic!Init
  OBVIOUS
<1>1. \A p \in Promotions : ~ CanRollBack(p)
  BY DEF Init, CanRollBack
<1>2. Tree = target
  BY <1>1, InitialState, TreeForm DEF TreeOK
<1>3. Stage = [p \in Promotions |-> "out"]
  BY <1>1, DistinctAssumption DEF Init, Stage
<1>4. [p \in Promotions |-> answer[p]] = [p \in Promotions |-> "none"]
  BY DEF Init, Commands
<1> QED BY <1>2, <1>3, <1>4 DEF Atomic!Init, Init, Atomic!Files, Files

\* Every step of the code is a step of the promised behaviour, or no step of it.
LEMMA StepMapped ==
  ASSUME IInv, IInv', [Next]_vars
  PROVE  Mapped
<1>1. CASE UNCHANGED vars
  <2>1. UNCHANGED <<target, txn, rootImg, storeImg, parentImg, holder, run, phase, answer>>
    BY <1>1 DEF vars, disk
  <2> QED BY <2>1, SameTransactions, TreeUnchanged, HolderGoesOn
<1>2. ASSUME NEW p \in Promotions, CheckPending(p) \/ Capture(p) \/ Lock(p) \/ Recover(p)
      PROVE  Mapped
  BY <1>2, CheckPendingMapped, CaptureMapped, LockMapped, RecoverMapped
<1>3. CASE Step
  BY <1>3, PreflightMapped, PublicationMapped, SyncPublishedMapped, RowMapped, JournalMapped,
     JournalSyncMapped, ControlMapped, CleanupMapped, SyncStoresMapped DEF Step
<1>4. CASE Fault \/ Crash \/ PowerLoss \/ WriteBack \/ ForeignWrite
  BY <1>4, FaultMapped, CrashMapped, PowerLossMapped, WriteBackMapped, ForeignWriteMapped
<1> QED BY <1>1, <1>2, <1>3, <1>4 DEF Next

\* The journalled apply, rollback and recovery of materialize-promotion implement
\* AtomicPromotion: in spite of deaths, power losses, I/O errors, competing
\* promotions and other package commands between any two system calls, the
\* recoverable package changes in one step per promotion, on the tree it was
\* computed from, and "passed" is answered only after that step.
THEOREM PromotionIsAtomic == Spec => ImplementsAtomicPromotion
<1>1. IInv /\ IInv' /\ [Next]_vars => [Atomic!Next]_<<Tree, Stage, [p \in Promotions |-> answer[p]]>>
  BY StepMapped DEF Mapped, Answered
<1> QED BY <1>1, Invariance, InitialMapped, PTL DEF Spec, ImplementsAtomicPromotion, Atomic!Spec

-----------------------------------------------------------------------------
(* No promotion is half done in the recoverable package. *)

\* The shared file lists exactly the artifacts that are there, as long as no
\* other command has regenerated it.
Whole(t) ==
  /\ t \in Trees
  /\ t[Shared] # NoFile
  /\ Foreign \in Range(t[Shared]) \/ \A p \in Promotions : (t[p] # NoFile) <=> (p \in Range(t[Shared]))

LEMMA PromotedIsWhole ==
  ASSUME NEW p \in Promotions, NEW t, Whole(t), t[p] = NoFile
  PROVE  Whole(Promoted(p, t))
<1>1. BaseOK(p, t)
  BY DEF Whole, BaseOK
<1>2. /\ Promoted(p, t) \in Trees /\ Promoted(p, t)[Shared] # NoFile
      /\ \A f \in Files \ {p, Shared} : Promoted(p, t)[f] = t[f]
  BY SMT, <1>1, PromotedDiffers
<1>3. /\ p # Shared /\ p \in Files /\ Shared \in Files /\ t \in [Files -> Contents]
      /\ t[Shared] \in Seq(Promotions \cup {Foreign}) /\ p \in Promotions \cup {Foreign}
      /\ <<p>> # NoFile
  <2>1. \A S, x : x \in S => <<x>> \in Seq(S)
    BY SMT
  <2>2. <<p>> # NoFile
    BY <2>1, DistinctAssumption
  <2> QED BY <2>2, DistinctAssumption DEF Whole, Trees, Contents, Files
<1>4. Promoted(p, t)[p] = <<p>> /\ Promoted(p, t)[Shared] = Append(t[Shared], p)
  BY <1>3 DEF Promoted
<1>5. Range(Promoted(p, t)[Shared]) = Range(t[Shared]) \cup {p}
  BY <1>3, <1>4, Appended
<1>6. \A q \in Promotions \ {p} : Promoted(p, t)[q] = t[q]
  BY <1>2, DistinctAssumption DEF Files
<1> HIDE DEF Promoted
<1> QED BY <1>2, <1>3, <1>4, <1>5, <1>6 DEF Whole

LEMMA StaysWhole ==
  ASSUME Whole(Tree), Mapped
  PROVE  Whole(Tree')
<1>1. \/ Tree' = Tree
      \/ \E p \in Promotions : Tree[p] = NoFile /\ Tree' = Promoted(p, Tree)
      \/ Tree' = [Tree EXCEPT ![Shared] = <<Foreign>>]
  BY DEF Mapped, Atomic!Next, Atomic!Enter, Atomic!Commit, Atomic!Answer, Atomic!Refuse,
         Atomic!Settle, Atomic!Interrupt, Atomic!ForeignWrite, Atomic!Promoted, Promoted
<1>2. CASE Tree' = [Tree EXCEPT ![Shared] = <<Foreign>>]
  <2>1. <<Foreign>> \in Contents /\ <<Foreign>> # NoFile /\ Foreign \in Range(<<Foreign>>)
    <3>1. \A S, x : x \in S => <<x>> \in Seq(S)
      BY SMT
    <3>2. \A x : x \in Range(<<x>>)
      BY SMT DEF Range
    <3> QED BY <3>1, <3>2, DistinctAssumption DEF Contents
  <2>2. Tree \in [Files -> Contents] /\ Shared \in Files
    BY DEF Whole, Trees, Files
  <2>3. Tree' \in Trees /\ Tree'[Shared] = <<Foreign>>
    BY <1>2, <2>1, <2>2 DEF Trees
  <2> QED BY <2>1, <2>3 DEF Whole
<1>3. CASE \E p \in Promotions : Tree[p] = NoFile /\ Tree' = Promoted(p, Tree)
  BY <1>3, PromotedIsWhole
<1> QED BY <1>1, <1>2, <1>3

LEMMA InitialWhole == Init => Whole(Tree)
<1> SUFFICES ASSUME Init PROVE Whole(Tree)
  OBVIOUS
<1>1. Tree = target
  <2>1. \A p \in Promotions : ~ CanRollBack(p)
    BY DEF Init, CanRollBack
  <2> QED BY <2>1, InitialState, TreeForm DEF TreeOK
<1>2. target \in Trees
  BY InitialState DEF IInv, DiskOK, FileType
<1>3. target[Shared] = <<>> /\ \A p \in Promotions : target[p] = NoFile
  BY DistinctAssumption DEF Init, Files
<1>4. Range(<<>>) = {} /\ <<>> # NoFile
  <2>1. \A S : <<>> \in Seq(S)
    BY SMT
  <2>2. <<>> # NoFile
    BY <2>1, DistinctAssumption
  <2> QED BY SMT, <2>2 DEF Range
<1> QED BY <1>1, <1>2, <1>3, <1>4 DEF Whole

\* A directory that recovery refuses belongs to a promotion none of whose files
\* is new, or all of them are.
LEMMA WholeWhenRefused == IInv /\ Whole(Tree) => RefusedIsWhole
<1> SUFFICES ASSUME IInv, Whole(Tree), Foreign \notin Range(target[Shared]),
                    \A p \in visible : ~ LayoutIsExact(p)
             PROVE  \A p \in Promotions : (target[p] # NoFile) <=> (p \in Range(target[Shared]))
  BY DEF RefusedIsWhole
<1> SUFFICES Whole(target)
  BY DEF Whole
<1>1. CASE \A p \in Promotions : ~ CanRollBack(p)
  BY <1>1, TreeForm DEF TreeOK
<1>2. ASSUME NEW p \in Promotions, CanRollBack(p) PROVE Whole(target)
  <2>1. FilesOK(p) /\ p \in visible /\ Tree = Restored(p)
    BY <1>2, TreeForm DEF TreeOK, IInv, DiskOK, DiskInv, FilesOK
  <2>2. CASE txn[p].stored = FALSE
    <3>1. FALSE \in storeImg[p]
      BY <2>2 DEF IInv, DiskOK, TxnType
    <3>2. \A f \in {p, Shared} : target[f] # New(p)[f]
      BY <2>1, <3>1 DEF FilesOK
    <3>3. Restored(p) = [f \in Files |-> target[f]]
      BY <3>2 DEF Restored
    <3>4. target = [f \in Files |-> target[f]]
      BY DEF IInv, DiskOK, FileType, Trees
    <3> QED BY <2>1, <3>3, <3>4
  <2>3. CASE txn[p].journal = NoJournal
    <3>1. "absent" \in Logged(p)
      BY SMT, <2>3, CurrentSeen DEF IInv, DiskOK, NoJournal
    <3>2. \A f \in {p, Shared} : Only(f, New(p)[f])
      BY <2>1, <3>1 DEF FilesOK
    <3> QED BY <1>2, <3>2, AllNew, PromotedIsWhole
  <2> QED BY <2>1, <2>2, <2>3 DEF LayoutIsExact, IInv, DiskOK, TxnType
<1> QED BY <1>1, <1>2

\* When recovery refuses a transaction directory because its layout is not the
\* exact one, no promotion is half done in the target: the artifacts that exist
\* are the ones the generated file lists.
THEOREM RefusedDirectoriesAreWhole == Spec => []RefusedIsWhole
<1>1. Init => IInv /\ Whole(Tree)
  BY InitialState, InitialWhole
<1>2. IInv /\ Whole(Tree) /\ [Next]_vars => (IInv /\ Whole(Tree))'
  BY InvariantKept, StepMapped, StaysWhole
<1>3. IInv /\ Whole(Tree) => RefusedIsWhole
  BY WholeWhenRefused
<1> QED BY <1>1, <1>2, <1>3, PTL DEF Spec

=============================================================================
