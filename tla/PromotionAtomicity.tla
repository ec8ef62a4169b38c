-------------------------- MODULE PromotionAtomicity --------------------------
(***************************************************************************)
(* PromotionTransaction implements AtomicPromotion.  The abstract tree is  *)
(* what recovery leads to: while some image of the disk still holds an     *)
(* applying journal with its old files, a promotion's replaced files count *)
(* as not yet replaced.  The commit is the fsync that makes the validated  *)
(* journal the only one left.                                              *)
(***************************************************************************)
EXTENDS PromotionTransaction, Functions

\* File f holds the new bytes of a promotion that can be rolled back.
Tentative(p, f) ==
  /\ CanRollBack(p)
  /\ f \in {p, Shared}
  /\ target[f] = Bytes("apply", p, f)

Tree ==
  [f \in Files |->
     IF \E p \in Promotions : Tentative(p, f)
     THEN txn[CHOOSE p \in Promotions : Tentative(p, f)].old[f]
     ELSE target[f]]

Stage ==
  [p \in Promotions |->
     IF holder = p
     THEN IF run.mode = "finish" /\ ~ CanRollBack(p) THEN "committed" ELSE "in"
     ELSE IF phase[p] # "idle" THEN "in"
     ELSE IF CanRollBack(p) THEN "open" ELSE "out"]

Atomic == INSTANCE AtomicPromotion
            WITH tree <- Tree, stage <- Stage,
                 answer <- [p \in Promotions |-> answer[p]]

\* In spite of process deaths, power losses, I/O errors, competing promotions
\* and other package commands between any two system calls, the recoverable
\* package changes in one step per promotion, on the tree that promotion was
\* computed from, and "passed" is answered only after that step.
ImplementsAtomicPromotion == Atomic!Spec

\* When recovery refuses a transaction directory because its layout is not the
\* exact one, no promotion is half done in the target.
RefusedIsWhole ==
  (/\ holder = Nobody
   /\ Foreign \notin Range(target[Shared])
   /\ \A p \in visible : ~ LayoutIsExact(p)) =>
    \A p \in Promotions : (target[p] # NoFile) <=> (p \in Range(target[Shared]))

\* "It binds old and new file identities so the CLI can recover deterministically
\* after interruption" (npa-package/src/promotion_transaction.rs): when no other
\* command has written to the package, and at most one interruption came before
\* it (MaxEvents = 1), --recover is not refused.
RecoverySucceeds ==
  answer[Recoverer] = "recovery_conflict" => Foreign \in Range(target[Shared])

\* A command that holds the target lock comes to an end.
LockIsReleased == (holder # Nobody) ~> (holder = Nobody)
=============================================================================
