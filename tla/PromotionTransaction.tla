------------------------- MODULE PromotionTransaction -------------------------
(***************************************************************************)
(* package materialize-promotion --apply and --recover: the journalled     *)
(* replacement of several files of a target package under the target lock. *)
(*                                                                         *)
(* Every directory that matters has a current state, which every process   *)
(* sees and which survives the death of a process, and a set of images,    *)
(* the states it has had since its last fsync: after a power loss each     *)
(* directory comes back as one of its images.  File bytes are partial      *)
(* until the file's own fsync.                                             *)
(*                                                                         *)
(* A step of the lock holder is one system call, or several of which only  *)
(* one can be noticed.  An I/O error is a step of its own (Fault), so an   *)
(* error after the effect of a call is an error of the next call.          *)
(***************************************************************************)
EXTENDS Integers, Sequences, FiniteSets

CONSTANTS
  Promotions,   \* promotion plans; p is also the file that plan p adds
  Shared,       \* the generated file that every promotion replaces
  Foreign,      \* the content another package command gives that file
  NoFile,       \* the content of a file that does not exist
  Partial,      \* the content of a file that was not completely written
  Recoverer,    \* the process that runs --recover
  Nobody,       \* the holder of a free lock
  MaxEvents     \* bound on deaths, power losses, I/O errors, foreign writes

ASSUME BoundAssumption == MaxEvents \in Nat
\* The names are different names, and a file that does not exist is not one of
\* the contents.
ASSUME DistinctAssumption ==
  /\ Shared \notin Promotions
  /\ Recoverer \notin Promotions
  /\ Nobody \notin Promotions \cup {Recoverer}
  /\ Foreign \notin Promotions
  /\ NoFile \notin Seq(Promotions \cup {Foreign})

VARIABLES
  target,       \* the files of the target package
  tmp,          \* .npa-promotion-tmp-<path> beside each of them
  fileImg,      \* images of each file's directory: pairs <<file, tmp>>
  txn,          \* each promotion's transaction directory
  rootImg,      \* its images: pairs <<journal.json, journal.next exists>>
  storeImg,     \* images of its old/ and new/: complete or not
  visible,      \* the transaction directories that have their final name
  parentImg,    \* images of the directory that holds them
  holder,       \* who holds the exclusive target lock
  run,          \* where the holder is
  phase,        \* where each promotion's command is
  base,         \* captured_target of each promotion
  answer,       \* the last answer of each command
  events        \* how many such events there have been

disk == <<target, tmp, fileImg, txn, rootImg, storeImg, visible, parentImg>>
vars == <<disk, holder, run, phase, base, answer, events>>

Files == Promotions \cup {Shared}
Commands == Promotions \cup {Recoverer}

\* The staged tree of promotion p over tree t.
Promoted(p, t) == [t EXCEPT ![p] = <<p>>, ![Shared] = Append(t[Shared], p)]

\* change_order: new module files first, generated files and registry last.
Rows(p) == <<p, Shared>>

NoJournal == [state |-> "absent", replaced |-> 0]
Journal(s, n) == [state |-> s, replaced |-> n]
NoTree == [f \in Files |-> NoFile]
NoTxn == [journal |-> NoJournal, next |-> FALSE, stored |-> FALSE,
          old |-> NoTree]
Idle == [step |-> "idle", mode |-> "none", txn |-> Shared, row |-> 0,
         code |-> "none"]

\* The row the holder works on, and the bytes it puts there.
File == Rows(run.txn)[run.row]
Bytes(mode, p, f) ==
  IF mode = "apply" THEN Promoted(p, txn[p].old)[f] ELSE txn[p].old[f]

-----------------------------------------------------------------------------
(* System calls on the four kinds of directory. *)

\* The directory of file f gets a new entry state.
PutFile(f, content, temporary) ==
  /\ target' = [target EXCEPT ![f] = content]
  /\ tmp' = [tmp EXCEPT ![f] = temporary]
  /\ fileImg' = [fileImg EXCEPT ![f] = @ \cup {<<content, temporary>>}]

SyncFile(f) ==
  /\ fileImg' = [fileImg EXCEPT ![f] = {<<target[f], tmp[f]>>}]
  /\ UNCHANGED <<target, tmp>>

PutRoot(p, journal, next) ==
  /\ txn' = [txn EXCEPT ![p].journal = journal, ![p].next = next]
  /\ rootImg' = [rootImg EXCEPT ![p] = @ \cup {<<journal, next>>}]

SyncRoot(p) ==
  /\ rootImg' = [rootImg EXCEPT ![p] = {<<txn[p].journal, txn[p].next>>}]
  /\ UNCHANGED txn

PutParent(names) ==
  /\ visible' = names
  /\ parentImg' = parentImg \cup {names}

SyncParent == parentImg' = {visible} /\ UNCHANGED visible

NoFileCall == UNCHANGED <<target, tmp, fileImg>>
NoRootCall == UNCHANGED <<txn, rootImg>>
NoStoreCall == UNCHANGED storeImg
NoParentCall == UNCHANGED <<visible, parentImg>>

-----------------------------------------------------------------------------
(* Control of the lock holder. *)

\* The disk has caught up with every call made so far.  Nobody takes the lock
\* earlier: what a process leaves without an fsync when it dies or its fsync
\* fails is written back before the next process works on the package.
WrittenBack ==
  /\ fileImg = [f \in Files |-> {<<target[f], tmp[f]>>}]
  /\ rootImg = [p \in Promotions |-> {<<txn[p].journal, txn[p].next>>}]
  /\ storeImg = [p \in Promotions |-> {txn[p].stored}]
  /\ parentImg = {visible}

At(step) == run.step = step
GoTo(step) == run' = [run EXCEPT !.step = step]
StillRunning == UNCHANGED <<holder, phase, base, answer, events>>

\* Drop the lock and answer.
Release(a) ==
  /\ holder' = Nobody
  /\ run' = Idle
  /\ phase' = [p \in Promotions |-> IF p = holder THEN "idle" ELSE phase[p]]
  /\ base' = [p \in Promotions |-> IF p = holder THEN NoTree ELSE base[p]]
  /\ answer' = [answer EXCEPT ![holder] = a]

\* The answer when files may have been left in between.
Unsettled == IF holder = Recoverer THEN "recovery_conflict" ELSE "recovery_required"

\* Roll back, last row first; code is the answer once that has succeeded.
RollingBack(code) ==
  [step |-> "undo_tmp", mode |-> "rollback", txn |-> run.txn,
   row |-> Len(Rows(run.txn)), code |-> code]
StartRollback(code) == run' = RollingBack(code) /\ StillRunning
-----------------------------------------------------------------------------
(* Before the lock. *)

\* pending_transaction_exists: a look under the shared lock, which fails while
\* somebody holds the exclusive one.
CheckPending(p) ==
  /\ phase[p] = "idle"
  /\ IF holder = Nobody /\ visible = {}
     THEN /\ phase' = [phase EXCEPT ![p] = "checked"]
          /\ answer' = [answer EXCEPT ![p] = "none"]
     ELSE /\ answer' = [answer EXCEPT ![p] = "recovery_required"]
          /\ UNCHANGED phase
  /\ UNCHANGED <<disk, holder, run, base, events>>

\* The target is captured without a lock.  It has to equal the baseline, so it
\* holds no temporary, and not the file the plan adds.
Capture(p) ==
  /\ phase[p] = "checked"
  /\ IF target[p] = NoFile /\ \A f \in Files : tmp[f] = NoFile
     THEN /\ phase' = [phase EXCEPT ![p] = "captured"]
          /\ base' = [base EXCEPT ![p] = target]
          /\ UNCHANGED answer
     ELSE /\ phase' = [phase EXCEPT ![p] = "idle"]
          /\ answer' = [answer EXCEPT ![p] = "target_not_clean"]
          /\ UNCHANGED base
  /\ UNCHANGED <<disk, holder, run, events>>

\* TargetLock::acquire does not wait.
Lock(p) ==
  /\ phase[p] = "captured"
  /\ IF holder = Nobody
     THEN /\ WrittenBack
          /\ holder' = p
          /\ run' = [step |-> "preflight", mode |-> "apply", txn |-> p, row |-> 1,
                     code |-> "none"]
          /\ phase' = [phase EXCEPT ![p] = "locked"]
          /\ UNCHANGED <<base, answer>>
     ELSE /\ phase' = [phase EXCEPT ![p] = "idle"]
          /\ base' = [base EXCEPT ![p] = NoTree]
          /\ answer' = [answer EXCEPT ![p] = "concurrent_update"]
          /\ UNCHANGED <<holder, run>>
  /\ UNCHANGED <<disk, events>>

-----------------------------------------------------------------------------
(* apply_transaction *)

\* What the target lock's holder compares before it writes anything.
TargetUnchanged(p) ==
  target = base[p] /\ \A f \in Files : tmp[f] = NoFile

\* locked_apply_preflight.
Preflight ==
  /\ At("preflight")
  /\ IF visible # {} THEN Release("recovery_required")
     ELSE IF ~ TargetUnchanged(run.txn) THEN Release("concurrent_update")
     ELSE GoTo("prepare") /\ UNCHANGED <<holder, phase, base, answer>>
  /\ UNCHANGED <<disk, events>>

\* The preparing directory is filled: old/, new/ and a journal with every row
\* pending.  Nothing refers to it before it is renamed.
Prepare ==
  LET p == run.txn IN
  /\ At("prepare")
  /\ txn' = [txn EXCEPT ![p] = [journal |-> Journal("applying", 0), next |-> FALSE,
                               stored |-> TRUE, old |-> base[p]]]
  /\ rootImg' = [rootImg EXCEPT ![p] = {<<NoJournal, FALSE>>,
                                        <<Journal("applying", 0), FALSE>>}]
  /\ storeImg' = [storeImg EXCEPT ![p] = {FALSE, TRUE}]
  /\ GoTo("sync_prepared")
  /\ StillRunning /\ NoFileCall /\ NoParentCall

SyncPrepared ==
  LET p == run.txn IN
  /\ At("sync_prepared")
  /\ SyncRoot(p)
  /\ storeImg' = [storeImg EXCEPT ![p] = {TRUE}]
  /\ GoTo("publish")
  /\ StillRunning /\ NoFileCall /\ NoParentCall

\* The preparing directory gets its final name.
Publish ==
  /\ At("publish")
  /\ PutParent(visible \cup {run.txn})
  /\ GoTo("attach")
  /\ StillRunning /\ NoFileCall /\ NoRootCall /\ NoStoreCall

\* From here on an error means roll back (transaction_visible).
Attach ==
  /\ At("attach")
  /\ GoTo("sync_parent")
  /\ StillRunning /\ UNCHANGED disk

\* The name is made durable before any file is replaced.
PublishDurably_NoSync == UNCHANGED <<visible, parentImg>>
PublishDurably == SyncParent

SyncPublished ==
  /\ At("sync_parent")
  /\ PublishDurably
  /\ GoTo("create_tmp")
  /\ StillRunning /\ NoFileCall /\ NoRootCall /\ NoStoreCall

\* replace_target_file, in both directions: an empty temporary, its bytes and
\* their fsync, the rename, the fsync of the directory.
CreateTmp ==
  /\ At("create_tmp")
  /\ IF tmp[File] = NoFile
     THEN /\ PutFile(File, target[File], Partial)
          /\ GoTo("write_tmp") /\ StillRunning
     ELSE /\ NoFileCall
          /\ IF run.mode = "apply" THEN StartRollback("concurrent_update")
             ELSE Release(Unsettled) /\ UNCHANGED events
  /\ NoRootCall /\ NoStoreCall /\ NoParentCall

WriteTmp ==
  LET bytes == Bytes(run.mode, run.txn, File) IN
  /\ At("write_tmp")
  /\ tmp' = [tmp EXCEPT ![File] = bytes]
  /\ fileImg' = [fileImg EXCEPT ![File] =
                   {<<i[1], IF i[2] = Partial THEN bytes ELSE i[2]>> : i \in @}]
  /\ GoTo("rename")
  /\ StillRunning /\ UNCHANGED target /\ NoRootCall /\ NoStoreCall /\ NoParentCall

Rename ==
  /\ At("rename")
  /\ PutFile(File, tmp[File], NoFile)
  /\ GoTo("sync_file")
  /\ StillRunning /\ NoRootCall /\ NoStoreCall /\ NoParentCall

\* The end of one row of the rollback: the next row up, or clean up.
NextUndoneRow_Underflow ==
  run' = IF run.row = 0 THEN [run EXCEPT !.step = "clean_stores"]
         ELSE [run EXCEPT !.step = "undo_tmp", !.row = @ - 1]
NextUndoneRow_Once == run' = [run EXCEPT !.step = "clean_stores"]
NextUndoneRow_Again ==
  run' = IF run.row = 1 THEN [run EXCEPT !.step = "clean_stores"]
         ELSE [run EXCEPT !.step = "undo_tmp"]
NextUndoneRow ==
  run' = IF run.row = 1 THEN [run EXCEPT !.step = "clean_stores"]
         ELSE [run EXCEPT !.step = "undo_tmp", !.row = @ - 1]

SyncRow ==
  /\ At("sync_file")
  /\ SyncFile(File)
  /\ IF run.mode = "apply" THEN GoTo("journal_next") ELSE NextUndoneRow
  /\ StillRunning /\ NoRootCall /\ NoStoreCall /\ NoParentCall

\* write_journal_transition_at: journal.next with its fsync, the rename over
\* journal.json, the fsync of the transaction directory.
JournalNext ==
  /\ At("journal_next")
  /\ PutRoot(run.txn, txn[run.txn].journal, TRUE)
  /\ GoTo("journal_rename")
  /\ StillRunning /\ NoFileCall /\ NoStoreCall /\ NoParentCall

JournalRename ==
  LET new == IF run.mode = "apply" THEN Journal("applying", run.row)
             ELSE Journal("validated", txn[run.txn].journal.replaced)
  IN
  /\ At("journal_rename")
  /\ PutRoot(run.txn, new, FALSE)
  /\ GoTo("journal_sync")
  /\ StillRunning /\ NoFileCall /\ NoStoreCall /\ NoParentCall

\* After a row: the next row, or validation.  After Validated: clean up.
JournalSync ==
  /\ At("journal_sync")
  /\ SyncRoot(run.txn)
  /\ run' = CASE run.mode = "finish" -> [run EXCEPT !.step = "clean_stores"]
              [] run.mode = "apply" /\ run.row < Len(Rows(run.txn)) ->
                   [run EXCEPT !.step = "create_tmp", !.row = @ + 1]
              [] OTHER -> [run EXCEPT !.step = "validate"]
  /\ StillRunning /\ NoFileCall /\ NoStoreCall /\ NoParentCall

\* The written tree has to be the staged one, and pass the package and registry
\* validators (which may fail: Fault).  finalize_transaction reads the journal
\* again and needs every row replaced.
Validate ==
  LET p == run.txn IN
  /\ At("validate")
  /\ IF target = Promoted(p, base[p]) /\ \A f \in Files : tmp[f] = NoFile
     THEN /\ IF txn[p].journal.replaced = Len(Rows(p))
             THEN /\ run' = [run EXCEPT !.step = "journal_next", !.mode = "finish",
                                         !.code = "passed"]
                  /\ StillRunning
             ELSE Release("recovery_required") /\ UNCHANGED events
     ELSE StartRollback("identity_mismatch")
  /\ UNCHANGED disk
-----------------------------------------------------------------------------
(* rollback_transaction *)

\* A temporary goes only when its bytes are the new or the old ones.
UndoTmp ==
  LET p == run.txn IN
  /\ At("undo_tmp")
  /\ IF tmp[File] = NoFile
     THEN GoTo("undo_file") /\ StillRunning /\ NoFileCall
     ELSE IF tmp[File] \in {Bytes("apply", p, File), Bytes("rollback", p, File)}
          THEN PutFile(File, target[File], NoFile) /\ GoTo("undo_sync") /\ StillRunning
          ELSE Release(Unsettled) /\ UNCHANGED events /\ NoFileCall
  /\ NoRootCall /\ NoStoreCall /\ NoParentCall

UndoSync ==
  /\ At("undo_sync")
  /\ SyncFile(File)
  /\ GoTo("undo_file")
  /\ StillRunning /\ NoRootCall /\ NoStoreCall /\ NoParentCall

\* Bytes that are neither new nor old are somebody else's.
IsOurs(p, f) == target[f] \in {Bytes("apply", p, f), Bytes("rollback", p, f)}

\* A file that did not exist before is removed, any other is restored from old/.
UndoFile ==
  LET p == run.txn
      old == Bytes("rollback", p, File)
  IN
  /\ At("undo_file")
  /\ IF ~ IsOurs(p, File)
     THEN Release(Unsettled) /\ UNCHANGED events /\ NoFileCall
     ELSE /\ StillRunning
          /\ IF target[File] = old
             THEN NextUndoneRow /\ NoFileCall
             ELSE IF old = NoFile
                  THEN PutFile(File, NoFile, tmp[File]) /\ GoTo("sync_file")
                  ELSE GoTo("create_tmp") /\ NoFileCall
  /\ NoRootCall /\ NoStoreCall /\ NoParentCall

-----------------------------------------------------------------------------
(* cleanup_transaction *)

\* The closed layout of the transaction directory: journal.json, old/ and new/
\* complete, possibly journal.next.
LayoutIsExact(p) == txn[p].journal # NoJournal /\ txn[p].stored

\* The first unlink in old/ or new/; the others make no difference.
CleanStores ==
  /\ At("clean_stores")
  /\ IF LayoutIsExact(run.txn)
     THEN /\ txn' = [txn EXCEPT ![run.txn].stored = FALSE]
          /\ storeImg' = [storeImg EXCEPT ![run.txn] = @ \cup {FALSE}]
          /\ GoTo("sync_stores") /\ StillRunning
     ELSE Release(Unsettled) /\ UNCHANGED <<events, txn, storeImg>>
  /\ UNCHANGED rootImg /\ NoFileCall /\ NoParentCall

SyncStores ==
  /\ At("sync_stores")
  /\ storeImg' = [storeImg EXCEPT ![run.txn] = {FALSE}]
  /\ GoTo("unlink_journal")
  /\ StillRunning /\ NoFileCall /\ NoRootCall /\ NoParentCall

\* rmdir old and new, journal.next, then journal.json.
UnlinkJournal ==
  /\ At("unlink_journal")
  /\ \/ /\ txn[run.txn].next
        /\ PutRoot(run.txn, txn[run.txn].journal, FALSE)
        /\ UNCHANGED run
     \/ /\ ~ txn[run.txn].next
        /\ PutRoot(run.txn, NoJournal, FALSE)
        /\ GoTo("sync_empty")
  /\ StillRunning /\ NoFileCall /\ NoStoreCall /\ NoParentCall

SyncEmpty ==
  /\ At("sync_empty")
  /\ SyncRoot(run.txn)
  /\ GoTo("rmdir")
  /\ StillRunning /\ NoFileCall /\ NoStoreCall /\ NoParentCall

Rmdir ==
  /\ At("rmdir")
  /\ PutParent(visible \ {run.txn})
  /\ GoTo("sync_removed")
  /\ StillRunning /\ NoFileCall /\ NoRootCall /\ NoStoreCall

SyncRemoved ==
  /\ At("sync_removed")
  /\ SyncParent
  /\ Release(run.code)
  /\ UNCHANGED events /\ NoFileCall /\ NoRootCall /\ NoStoreCall

-----------------------------------------------------------------------------
(* recover_transaction *)

Recover(p) ==
  /\ holder = Nobody
  /\ WrittenBack
  /\ p \in visible
  /\ holder' = Recoverer
  /\ run' = [step |-> "inspect", mode |-> "rollback", txn |-> p,
             row |-> Len(Rows(p)), code |-> "passed"]
  /\ answer' = [answer EXCEPT ![Recoverer] = "none"]
  /\ UNCHANGED <<disk, phase, base, events>>

\* Without the exact layout there is no recovery.  An applying transaction is
\* rolled back; a validated one is cleaned up when every file is the new one.
Inspect ==
  LET p == run.txn IN
  /\ At("inspect")
  /\ IF ~ LayoutIsExact(p) THEN Release("recovery_conflict") /\ UNCHANGED events
     ELSE IF txn[p].journal.state = "applying"
          THEN GoTo("undo_tmp") /\ StillRunning
     ELSE IF \A i \in DOMAIN Rows(p) :
               target[Rows(p)[i]] = Bytes("apply", p, Rows(p)[i])
          THEN /\ run' = [run EXCEPT !.step = "clean_stores", !.mode = "finish"]
               /\ StillRunning
          ELSE Release("recovery_conflict") /\ UNCHANGED events
  /\ UNCHANGED disk

-----------------------------------------------------------------------------
(* The environment: errors, deaths, power losses, other package commands. *)

Event == events < MaxEvents /\ events' = events + 1

\* replace_file's error path tries to remove its temporary.
DiscardTmp ==
  \/ NoFileCall
  \/ /\ At("write_tmp") \/ At("rename")
     /\ PutFile(File, target[File], NoFile)

\* The next system call of the lock holder fails (at "validate": a validator
\* rejects the tree).
Fault ==
  /\ holder # Nobody
  /\ Event
  /\ \/ /\ run.step \in {"preflight", "prepare", "sync_prepared", "publish", "attach"}
        /\ NoFileCall
        /\ Release("concurrent_update")
     \/ /\ run.mode = "apply"
        /\ run.step \in {"sync_parent", "create_tmp", "write_tmp", "rename", "sync_file",
                        "journal_next", "journal_rename", "journal_sync", "validate"}
        /\ DiscardTmp
        /\ run' = RollingBack(IF At("validate") THEN "identity_mismatch"
                               ELSE "concurrent_update")
        /\ UNCHANGED <<holder, phase, base, answer>>
     \/ /\ run.mode # "apply"
        /\ DiscardTmp
        /\ Release(Unsettled)
  /\ NoRootCall /\ NoStoreCall /\ NoParentCall

\* The holder dies: the kernel drops its lock, the files stay as they are.
Crash ==
  /\ holder # Nobody
  /\ Event
  /\ holder' = Nobody
  /\ run' = Idle
  /\ phase' = [p \in Promotions |-> IF p = holder THEN "idle" ELSE phase[p]]
  /\ base' = [p \in Promotions |-> IF p = holder THEN NoTree ELSE base[p]]
  /\ UNCHANGED <<disk, answer>>

\* Everybody dies, and every directory comes back as one of its images.
PowerLoss ==
  /\ Event
  /\ \E F \in {g \in [Files -> UNION {fileImg[f] : f \in Files}] :
                 \A f \in Files : g[f] \in fileImg[f]} :
       /\ target' = [f \in Files |-> F[f][1]]
       /\ tmp' = [f \in Files |-> F[f][2]]
       /\ fileImg' = [f \in Files |-> {F[f]}]
  /\ \E R \in {g \in [Promotions -> UNION {rootImg[p] : p \in Promotions}] :
                 \A p \in Promotions : g[p] \in rootImg[p]},
        S \in {g \in [Promotions -> BOOLEAN] :
                 \A p \in Promotions : g[p] \in storeImg[p]} :
       /\ txn' = [p \in Promotions |->
                    [txn[p] EXCEPT !.journal = R[p][1], !.next = R[p][2],
                                   !.stored = S[p]]]
       /\ rootImg' = [p \in Promotions |-> {R[p]}]
       /\ storeImg' = [p \in Promotions |-> {S[p]}]
  /\ \E V \in parentImg : visible' = V /\ parentImg' = {V}
  /\ holder' = Nobody
  /\ run' = Idle
  /\ phase' = [p \in Promotions |-> "idle"]
  /\ base' = [p \in Promotions |-> NoTree]
  /\ UNCHANGED answer

\* The kernel's write-back.
WriteBack ==
  /\ holder = Nobody
  /\ ~ WrittenBack
  /\ fileImg' = [f \in Files |-> {<<target[f], tmp[f]>>}]
  /\ rootImg' = [p \in Promotions |-> {<<txn[p].journal, txn[p].next>>}]
  /\ storeImg' = [p \in Promotions |-> {txn[p].stored}]
  /\ parentImg' = {visible}
  /\ UNCHANGED <<target, tmp, txn, visible, holder, run, phase, base, answer, events>>

\* Another package command (package lock, index, axiom-report ...) regenerates
\* the shared file under the target lock.  It does not look for transactions.
ForeignWrite ==
  /\ holder = Nobody
  /\ WrittenBack
  /\ Event
  /\ target' = [target EXCEPT ![Shared] = <<Foreign>>]
  /\ fileImg' = [fileImg EXCEPT ![Shared] = {<<<<Foreign>>, tmp[Shared]>>}]
  /\ UNCHANGED tmp
  /\ UNCHANGED <<txn, rootImg, storeImg, visible, parentImg,
                 holder, run, phase, base, answer>>

-----------------------------------------------------------------------------
Init ==
  /\ target = [f \in Files |-> IF f = Shared THEN <<>> ELSE NoFile]
  /\ tmp = [f \in Files |-> NoFile]
  /\ fileImg = [f \in Files |-> {<<target[f], NoFile>>}]
  /\ txn = [p \in Promotions |-> NoTxn]
  /\ rootImg = [p \in Promotions |-> {<<NoJournal, FALSE>>}]
  /\ storeImg = [p \in Promotions |-> {FALSE}]
  /\ visible = {}
  /\ parentImg = {{}}
  /\ holder = Nobody
  /\ run = Idle
  /\ phase = [p \in Promotions |-> "idle"]
  /\ base = [p \in Promotions |-> NoTree]
  /\ answer = [c \in Commands |-> "none"]
  /\ events = 0

\* One step of the lock holder's code.
Step ==
  \/ Preflight \/ Prepare \/ SyncPrepared \/ Publish \/ Attach \/ SyncPublished
  \/ CreateTmp \/ WriteTmp \/ Rename \/ SyncRow
  \/ JournalNext \/ JournalRename \/ JournalSync \/ Validate
  \/ UndoTmp \/ UndoSync \/ UndoFile
  \/ CleanStores \/ SyncStores \/ UnlinkJournal \/ SyncEmpty \/ Rmdir \/ SyncRemoved
  \/ Inspect

Next ==
  \/ \E p \in Promotions : CheckPending(p) \/ Capture(p) \/ Lock(p) \/ Recover(p)
  \/ Step
  \/ Fault
  \/ Crash
  \/ PowerLoss
  \/ WriteBack
  \/ ForeignWrite

\* A live holder runs on; nobody is obliged to start a command.
Fairness == WF_vars(Step)

Spec == Init /\ [][Next]_vars /\ Fairness

-----------------------------------------------------------------------------
\* A power loss, or --recover now, may still roll promotion p back.
CanRollBack(p) ==
  /\ \E names \in parentImg : p \in names
  /\ \E image \in rootImg[p] : image[1].state = "applying"
  /\ TRUE \in storeImg[p]

Contents == Seq(Promotions \cup {Foreign}) \cup {NoFile}
Trees == [Files -> Contents]
Journals ==
  {NoJournal} \cup {Journal("applying", n) : n \in 0..2} \cup {Journal("validated", 2)}
Steps ==
  {"preflight", "prepare", "sync_prepared", "publish", "attach", "sync_parent",
   "create_tmp", "write_tmp", "rename", "sync_file", "journal_next",
   "journal_rename", "journal_sync", "validate", "undo_tmp", "undo_sync",
   "undo_file", "clean_stores", "sync_stores", "unlink_journal", "sync_empty",
   "rmdir", "sync_removed", "inspect"}

\* Every variable has its type, the current state of each directory is one of
\* its images, the rows the lock holder works on exist, and a validated journal
\* has every row replaced (which the journal's parser insists on).
TypeOK ==
  /\ target \in Trees
  /\ tmp \in [Files -> Contents \cup {Partial}]
  /\ fileImg \in [Files -> SUBSET (Contents \X (Contents \cup {Partial}))]
  /\ \A f \in Files : <<target[f], tmp[f]>> \in fileImg[f]
  /\ txn \in [Promotions -> [journal : Journals, next : BOOLEAN, stored : BOOLEAN,
                             old : Trees]]
  /\ rootImg \in [Promotions -> SUBSET (Journals \X BOOLEAN)]
  /\ storeImg \in [Promotions -> SUBSET BOOLEAN]
  /\ \A p \in Promotions :
       <<txn[p].journal, txn[p].next>> \in rootImg[p] /\ txn[p].stored \in storeImg[p]
  /\ visible \in parentImg
  /\ parentImg \subseteq SUBSET Promotions
  /\ holder \in Commands \cup {Nobody}
  /\ IF holder = Nobody THEN run = Idle
     ELSE run \in [step : Steps, mode : {"apply", "rollback", "finish"},
                   txn : Promotions, row : 1..2,
                   code : {"none", "passed", "concurrent_update", "identity_mismatch"}]
  /\ phase \in [Promotions -> {"idle", "checked", "captured", "locked"}]
  /\ \A p \in Promotions : (phase[p] = "locked") <=> (holder = p)
  /\ base \in [Promotions -> Trees]
  /\ answer \in [Commands -> {"none", "passed", "concurrent_update", "identity_mismatch",
                              "target_not_clean", "recovery_required",
                              "recovery_conflict"}]
  /\ events \in 0..MaxEvents
=============================================================================
