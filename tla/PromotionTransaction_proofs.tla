---------------------- MODULE PromotionTransaction_proofs ----------------------
(***************************************************************************)
(* The inductive invariant of PromotionTransaction, for every set of       *)
(* promotions and any number of deaths, power losses, I/O errors and       *)
(* foreign writes.                                                         *)
(***************************************************************************)
EXTENDS PromotionTransaction, TLAPS

Old(p) == txn[p].old
New(p) == Promoted(p, txn[p].old)

\* The contents file f, and the states journal p, may come back with.
Seen(f) == {i[1] : i \in fileImg[f]}
Logged(p) == {image[1].state : image \in rootImg[p]}

\* File f comes back with content c.
Only(f, c) == Seen(f) \subseteq {c}

\* A tree that promotion p can be applied to.
BaseOK(p, t) == t \in Trees /\ t[p] = NoFile /\ t[Shared] # NoFile

\* The files of a promotion that can be rolled back: foreign, or old and new.
\* While its directory may be missing or incomplete none of them is new, and
\* when its journal may be another than the applying one all of them are.
FilesOK(p) ==
  /\ p \in visible
  /\ BaseOK(p, Old(p))
  /\ \A f \in {p, Shared} :
       /\ Only(f, target[f]) \/ Seen(f) \subseteq {Old(p)[f], New(p)[f]}
       /\ (\E names \in parentImg : p \notin names) \/ FALSE \in storeImg[p] =>
            Only(f, target[f]) /\ target[f] # New(p)[f]
       /\ ~ (Logged(p) \subseteq {"applying"}) => Only(f, New(p)[f])

DiskInv ==
  /\ \A names \in parentImg, others \in parentImg :
       \A p \in names, q \in others : p = q
  /\ \A p \in Promotions : CanRollBack(p) => FilesOK(p)
  /\ \A f \in Files :
       Only(f, target[f]) \/ \E p \in Promotions : CanRollBack(p) /\ f \in {p, Shared}
  /\ NoFile \notin Seen(Shared)

Waiting ==
  /\ \A p \in Promotions : phase[p] \in {"checked", "captured"} => ~ CanRollBack(p)
  /\ \A p \in Promotions : phase[p] \in {"captured", "locked"} => BaseOK(p, base[p])

\* The steps of each mode.
Preparing == {"preflight", "prepare", "sync_prepared", "publish"}
Writing == {"create_tmp", "write_tmp", "rename", "sync_file"}
Journalling == {"journal_next", "journal_rename", "journal_sync"}
Undoing == {"undo_tmp", "undo_sync", "undo_file"}
Cleaning == {"clean_stores", "sync_stores", "unlink_journal", "sync_empty", "rmdir",
             "sync_removed"}

\* The transaction directory is complete, and its journal applying.
Intact(p) == storeImg[p] \subseteq {TRUE} /\ Logged(p) \subseteq {"applying"}

PreparingOK(p) ==
  /\ parentImg = {visible}
  /\ run.row = 1
  /\ run.step # "preflight" => visible = {} /\ target = base[p]
  /\ run.step \in {"sync_prepared", "publish"} =>
       /\ txn[p].old = base[p]
       /\ txn[p].journal.state = "applying"
       /\ txn[p].stored
  /\ run.step = "publish" => Intact(p)

\* Rows before the current one are new, rows after it are old.
ApplyingOK(p) ==
  /\ visible = {p}
  /\ Intact(p)
  /\ run.step \in {"attach", "sync_parent"} => run.row = 1
  /\ run.step \notin {"attach", "sync_parent"} => parentImg = {{p}}
  /\ run.step = "validate" => run.row = 2
  /\ run.row = 2 => Only(p, New(p)[p])
  /\ run.row = 1 => Only(Shared, Old(p)[Shared])
  /\ run.step \in {"attach", "sync_parent", "create_tmp", "write_tmp", "rename"} =>
       Only(File, Old(p)[File])
  /\ run.step = "sync_file" => target[File] = New(p)[File]
  /\ run.step \in Journalling \cup {"validate"} => Only(File, New(p)[File])

\* Rows after the current one are old again, and a file that is old again comes
\* back so.
UndoingOK(p) ==
  /\ visible = {p}
  /\ Intact(p)
  /\ run.row = 1 => Only(Shared, Old(p)[Shared])
  /\ run.row = 2 /\ target[p] = Old(p)[p] => Only(p, Old(p)[p])
  /\ run.step \in Undoing /\ target[File] = Old(p)[File] => Only(File, Old(p)[File])
  /\ run.step \in {"create_tmp", "write_tmp", "rename"} => target[File] = New(p)[File]
  /\ run.step = "sync_file" => target[File] = Old(p)[File]

FinishingOK(p) ==
  /\ holder = p
  /\ visible = {p}
  /\ parentImg = {{p}}
  /\ storeImg[p] \subseteq {TRUE}
  /\ \A f \in {p, Shared} : Only(f, New(p)[f])
  /\ run.step \in {"journal_next", "journal_rename"} =>
       Intact(p) /\ txn[p].journal.replaced = 2
  /\ run.step = "journal_sync" => txn[p].journal.state = "validated"

CleaningOK(p) ==
  /\ \A names \in parentImg : names \subseteq {p}
  /\ run.mode = "finish" => "applying" \notin Logged(p)
  /\ run.mode = "rollback" /\ run.step = "clean_stores" => Intact(p) /\ visible = {p}
  /\ run.mode = "rollback" /\ run.step \in {"clean_stores", "sync_stores"} =>
       \A f \in {p, Shared} : Only(f, Old(p)[f])
  /\ run.step = "sync_stores" => txn[p].stored = FALSE
  /\ run.step \notin {"clean_stores", "sync_stores"} => storeImg[p] \subseteq {FALSE}

\* Which process does which steps, and what it will answer.
ControlOK(p) ==
  /\ run.mode = "apply" =>
       /\ holder = p
       /\ run.step \in Preparing \cup {"attach", "sync_parent", "validate"} \cup Writing
                         \cup Journalling
  /\ run.mode = "rollback" =>
       /\ holder \in {p, Recoverer}
       /\ run.step \in {"inspect"} \cup Undoing \cup Writing \cup Cleaning
       /\ holder = p => run.code \in {"concurrent_update", "identity_mismatch"}
  /\ run.mode = "finish" =>
       /\ holder \in {p, Recoverer}
       /\ run.step \in Journalling \cup Cleaning
       /\ holder = p => run.code = "passed"

RunOK ==
  holder # Nobody =>
    /\ ControlOK(run.txn)
    /\ run.step = "inspect" => holder = Recoverer /\ WrittenBack /\ run.txn \in visible
                                 /\ run.row = 2
    /\ run.step = "write_tmp" => tmp[File] = Partial
    /\ run.step = "rename" => tmp[File] = Bytes(run.mode, run.txn, File)
    /\ run.step \in Preparing => PreparingOK(run.txn)
    /\ run.mode = "apply" /\ run.step \notin Preparing => ApplyingOK(run.txn)
    /\ run.mode = "rollback" /\ run.step \in Undoing \cup Writing => UndoingOK(run.txn)
    /\ run.mode = "finish" /\ run.step \in Journalling => FinishingOK(run.txn)
    /\ run.step \in Cleaning => CleaningOK(run.txn)

-----------------------------------------------------------------------------
(* The type invariant in parts, one for each kind of directory. *)

FileType ==
  /\ target \in Trees
  /\ tmp \in [Files -> Contents \cup {Partial}]
  /\ fileImg \in [Files -> SUBSET (Contents \X (Contents \cup {Partial}))]
  /\ \A f \in Files : <<target[f], tmp[f]>> \in fileImg[f]

TxnType ==
  /\ txn \in [Promotions -> [journal : Journals, next : BOOLEAN, stored : BOOLEAN,
                             old : Trees]]
  /\ rootImg \in [Promotions -> SUBSET (Journals \X BOOLEAN)]
  /\ storeImg \in [Promotions -> SUBSET BOOLEAN]
  /\ \A p \in Promotions :
       <<txn[p].journal, txn[p].next>> \in rootImg[p] /\ txn[p].stored \in storeImg[p]

ParentType == visible \in parentImg /\ parentImg \subseteq SUBSET Promotions

Answers == {"none", "passed", "concurrent_update", "identity_mismatch",
            "target_not_clean", "recovery_required", "recovery_conflict"}

Modes == {"apply", "rollback", "finish"}
Codes == {"none", "passed", "concurrent_update", "identity_mismatch"}
Runs == [step : Steps, mode : Modes, txn : Promotions, row : 1..2, code : Codes]

ControlType ==
  /\ holder \in Commands \cup {Nobody}
  /\ IF holder = Nobody THEN run = Idle ELSE run \in Runs
  /\ phase \in [Promotions -> {"idle", "checked", "captured", "locked"}]
  /\ \A p \in Promotions : (phase[p] = "locked") <=> (holder = p)
  /\ base \in [Promotions -> Trees]
  /\ answer \in [Commands -> Answers]
  /\ events \in 0..MaxEvents

DiskOK == FileType /\ TxnType /\ ParentType /\ DiskInv
IInv == DiskOK /\ ControlType /\ Waiting /\ RunOK

USE Zenon

LEMMA InvariantImpliesType == IInv => TypeOK
BY DEF IInv, DiskOK, TypeOK, FileType, TxnType, ParentType, ControlType, Answers, Runs,
       Modes, Codes

-----------------------------------------------------------------------------
(* Operators. *)

\* A promotion changes both of its files.
LEMMA PromotedDiffers ==
  ASSUME NEW p \in Promotions, NEW t, BaseOK(p, t)
  PROVE  /\ Promoted(p, t) \in Trees
         /\ \A f \in {p, Shared} : Promoted(p, t)[f] # t[f]
         /\ Promoted(p, t)[Shared] # NoFile
         /\ \A f \in Files \ {p, Shared} : Promoted(p, t)[f] = t[f]
<1> DEFINE S == Promotions \cup {Foreign}
<1>1. t[Shared] \in Seq(S) /\ <<p>> \in Seq(S) /\ p \in S
  BY SMT DEF BaseOK, Trees, Contents, Files
<1>2. Append(t[Shared], p) \in Seq(S) /\ Append(t[Shared], p) # t[Shared]
  <2> HIDE DEF S
  <2> QED BY SMT, <1>1
<1>3. NoFile \notin Seq(S)
  BY DistinctAssumption
<1>4. p # Shared /\ p \in Files /\ Shared \in Files
  BY DistinctAssumption DEF Files
<1>5. t \in [Files -> Contents] /\ <<p>> \in Contents /\ Append(t[Shared], p) \in Contents
  BY <1>1, <1>2 DEF BaseOK, Trees, Contents
<1>6. t[p] = NoFile
  BY DEF BaseOK
<1> HIDE DEF S
<1> QED BY <1>1, <1>2, <1>3, <1>4, <1>5, <1>6 DEF Promoted, Trees

\* The rows of a promotion, and the file the holder works on.
LEMMA CurrentFile ==
  ASSUME ControlType, holder # Nobody
  PROVE  /\ run.txn \in Promotions /\ run.txn # Shared
         /\ run.row \in 1..2 /\ Len(Rows(run.txn)) = 2
         /\ run.row = 1 => File = run.txn
         /\ run.row = 2 => File = Shared
         /\ File \in Files /\ File \in {run.txn, Shared}
BY SMT, DistinctAssumption DEF ControlType, Runs, File, Rows, Files

LEMMA RollBackDef ==
  /\ \A p \in Promotions : CanRollBack(p) <=>
       (\E names \in parentImg : p \in names) /\ "applying" \in Logged(p)
         /\ TRUE \in storeImg[p]
  /\ \A p \in Promotions : CanRollBack(p)' <=>
       (\E names \in parentImg' : p \in names) /\ "applying" \in Logged(p)'
         /\ TRUE \in storeImg'[p]
BY DEF CanRollBack, Logged

-----------------------------------------------------------------------------
(* What the system calls do to what may come back. *)

LEMMA PutFileEffect ==
  ASSUME FileType, NEW f \in Files, NEW c \in Contents, NEW t \in Contents \cup {Partial},
         PutFile(f, c, t)
  PROVE  /\ FileType'
         /\ target'[f] = c /\ tmp'[f] = t
         /\ Seen(f)' = Seen(f) \cup {c}
         /\ \A g \in Files \ {f} :
              target'[g] = target[g] /\ tmp'[g] = tmp[g] /\ Seen(g)' = Seen(g)
<1>1. FileType'
  BY SMT DEF FileType, PutFile, Trees
<1>2. target'[f] = c /\ tmp'[f] = t /\ fileImg'[f] = fileImg[f] \cup {<<c, t>>}
  BY DEF FileType, PutFile, Trees
<1>3. Seen(f)' = Seen(f) \cup {c}
  <2>1. <<c, t>>[1] = c
    OBVIOUS
  <2>2. \A S, x : {i[1] : i \in S \cup {x}} = {i[1] : i \in S} \cup {x[1]}
    OBVIOUS
  <2>3. {i[1] : i \in fileImg[f] \cup {<<c, t>>}} = {i[1] : i \in fileImg[f]} \cup {<<c, t>>[1]}
    BY <2>2
  <2> QED BY <1>2, <2>1, <2>3 DEF Seen
<1>4. \A g \in Files \ {f} :
        target'[g] = target[g] /\ tmp'[g] = tmp[g] /\ fileImg'[g] = fileImg[g]
  BY DEF FileType, PutFile, Trees
<1> QED BY <1>1, <1>2, <1>3, <1>4 DEF Seen

LEMMA SyncFileEffect ==
  ASSUME FileType, NEW f \in Files, SyncFile(f)
  PROVE  /\ FileType'
         /\ target' = target /\ tmp' = tmp
         /\ Seen(f)' = {target[f]}
         /\ \A g \in Files \ {f} : Seen(g)' = Seen(g)
<1>1. FileType' /\ target' = target /\ tmp' = tmp
  BY SMT DEF FileType, SyncFile, Trees
<1>2. fileImg'[f] = {<<target[f], tmp[f]>>} /\ \A g \in Files \ {f} : fileImg'[g] = fileImg[g]
  BY DEF FileType, SyncFile
<1> QED BY SMT, <1>1, <1>2 DEF Seen

\* The current state of a file or a journal may come back.
LEMMA CurrentSeen ==
  /\ FileType => \A f \in Files : target[f] \in Seen(f) /\ Seen(f) \subseteq Contents
  /\ TxnType => \A p \in Promotions : txn[p].journal.state \in Logged(p)
<1>1. ASSUME FileType, NEW f \in Files
      PROVE  target[f] \in Seen(f) /\ Seen(f) \subseteq Contents
  <2>1. <<target[f], tmp[f]>> \in fileImg[f]
    BY <1>1 DEF FileType
  <2>2. \A i \in fileImg[f] : i[1] \in Contents
    BY SMT, <1>1 DEF FileType
  <2> QED BY SMT, <2>1, <2>2 DEF Seen
<1>2. ASSUME TxnType, NEW p \in Promotions PROVE txn[p].journal.state \in Logged(p)
  <2>1. <<txn[p].journal, txn[p].next>> \in rootImg[p]
    BY <1>2 DEF TxnType
  <2> QED BY SMT, <2>1 DEF Logged
<1> QED BY <1>1, <1>2

LEMMA PutRootEffect ==
  ASSUME TxnType, NEW p \in Promotions, NEW j \in Journals, NEW n \in BOOLEAN,
         PutRoot(p, j, n), UNCHANGED storeImg
  PROVE  /\ TxnType'
         /\ txn'[p].journal = j /\ txn'[p].next = n
         /\ Logged(p)' = Logged(p) \cup {j.state}
         /\ \A q \in Promotions \ {p} : Logged(q)' = Logged(q) /\ txn'[q] = txn[q]
         /\ \A q \in Promotions :
              Old(q)' = Old(q) /\ New(q)' = New(q) /\ txn'[q].stored = txn[q].stored
<1>1. txn[p] \in [journal : Journals, next : BOOLEAN, stored : BOOLEAN, old : Trees]
  BY DEF TxnType
<1> DEFINE t == [txn[p] EXCEPT !.journal = j, !.next = n]
<1>2. /\ t \in [journal : Journals, next : BOOLEAN, stored : BOOLEAN, old : Trees]
      /\ t.journal = j /\ t.next = n /\ t.old = txn[p].old /\ t.stored = txn[p].stored
  BY <1>1
<1>3. txn' = [txn EXCEPT ![p] = t]
  BY <1>1 DEF PutRoot, TxnType
<1>4. rootImg'[p] = rootImg[p] \cup {<<j, n>>} /\ rootImg' \in [Promotions -> SUBSET (Journals \X BOOLEAN)]
  BY SMT DEF PutRoot, TxnType
<1>5. \A q \in Promotions \ {p} : rootImg'[q] = rootImg[q]
  BY DEF PutRoot, TxnType
<1> HIDE DEF t
<1>6. txn'[p] = t /\ \A q \in Promotions \ {p} : txn'[q] = txn[q]
  BY <1>3 DEF TxnType
<1>7. TxnType'
  BY <1>2, <1>3, <1>4, <1>5, <1>6 DEF TxnType
<1>8. Logged(p)' = Logged(p) \cup {j.state} /\ \A q \in Promotions \ {p} : Logged(q)' = Logged(q)
  <2>1. <<j, n>>[1] = j
    OBVIOUS
  <2>2. \A S, x : {i[1].state : i \in S \cup {x}} = {i[1].state : i \in S} \cup {x[1].state}
    OBVIOUS
  <2>3. {i[1].state : i \in rootImg[p] \cup {<<j, n>>}}
          = {i[1].state : i \in rootImg[p]} \cup {<<j, n>>[1].state}
    BY <2>2
  <2>4. Logged(p)' = Logged(p) \cup {j.state}
    BY <1>4, <2>1, <2>3 DEF Logged
  <2> QED BY <1>5, <2>4 DEF Logged
<1>9. \A q \in Promotions : Old(q)' = Old(q) /\ txn'[q].stored = txn[q].stored
  BY <1>2, <1>6 DEF Old
<1>10. \A q \in Promotions : New(q)' = New(q)
  BY <1>9 DEF New, Old, Promoted
<1> QED BY <1>2, <1>6, <1>7, <1>8, <1>9, <1>10

LEMMA SyncRootEffect ==
  ASSUME TxnType, NEW p \in Promotions, SyncRoot(p), UNCHANGED storeImg
  PROVE  /\ TxnType'
         /\ txn' = txn
         /\ Logged(p)' = {txn[p].journal.state}
         /\ \A q \in Promotions \ {p} : Logged(q)' = Logged(q)
         /\ \A q \in Promotions : Old(q)' = Old(q) /\ New(q)' = New(q)
<1>1. <<txn[p].journal, txn[p].next>> \in Journals \X BOOLEAN
  BY DEF TxnType
<1>2. rootImg'[p] = {<<txn[p].journal, txn[p].next>>} /\ \A q \in Promotions \ {p} : rootImg'[q] = rootImg[q]
  BY DEF TxnType, SyncRoot
<1>3. TxnType' /\ txn' = txn
  BY <1>1 DEF TxnType, SyncRoot
<1>4. Logged(p)' = {txn[p].journal.state} /\ \A q \in Promotions \ {p} : Logged(q)' = Logged(q)
  BY SMT, <1>2 DEF Logged
<1> QED BY <1>3, <1>4 DEF Old, New, Promoted

-----------------------------------------------------------------------------
(* Steps that keep the disk recoverable. *)

\* An fsync, or no call at all: what may come back gets less.
LEMMA DiskShrinks ==
  ASSUME DiskOK, FileType', TxnType', ParentType', UNCHANGED <<target, visible>>,
         \A q \in Promotions : Old(q)' = Old(q) /\ New(q)' = New(q)
                                 /\ Logged(q)' \subseteq Logged(q)
                                 /\ storeImg'[q] \subseteq storeImg[q],
         parentImg' \subseteq parentImg,
         \A f \in Files : Seen(f)' \subseteq Seen(f),
         \A f \in Files : Only(f, target[f])'
                            \/ \E p \in Promotions : CanRollBack(p)' /\ f \in {p, Shared}
  PROVE  DiskOK' /\ \A p \in Promotions : CanRollBack(p)' => CanRollBack(p)
<1>1. \A p \in Promotions : CanRollBack(p)' => CanRollBack(p)
  BY RollBackDef
<1>2. ASSUME NEW p \in Promotions, CanRollBack(p)' PROVE FilesOK(p)'
  <2>1. FilesOK(p)
    BY <1>1, <1>2 DEF DiskOK, DiskInv
  <2>2. p \in Files /\ Shared \in Files
    BY DEF Files
  <2>3. p \in visible' /\ BaseOK(p, Old(p))'
    BY <2>1 DEF FilesOK, BaseOK, Trees, Files
  <2>4. ASSUME NEW f \in {p, Shared}
        PROVE  /\ Only(f, target[f])' \/ Seen(f)' \subseteq {Old(p)[f], New(p)[f]}'
               /\ ((\E names \in parentImg : p \notin names) \/ FALSE \in storeImg[p] =>
                    Only(f, target[f]) /\ target[f] # New(p)[f])'
               /\ (~ (Logged(p) \subseteq {"applying"}) => Only(f, New(p)[f]))'
    BY <2>1, <2>2, <2>4 DEF FilesOK, Only
  <2> QED BY <2>3, <2>4 DEF FilesOK
<1>3. (\A names \in parentImg, others \in parentImg : \A p \in names, q \in others : p = q)'
  BY DEF DiskOK, DiskInv
<1>4. (NoFile \notin Seen(Shared))'
  BY DEF DiskOK, DiskInv, Files
<1>5. DiskInv'
  BY <1>2, <1>3, <1>4 DEF DiskInv
<1> QED BY <1>1, <1>5 DEF DiskOK

\* No promotion can be rolled back.
LEMMA NothingOpen ==
  ASSUME FileType', TxnType', ParentType',
         \A p \in Promotions : ~ CanRollBack(p)',
         (\A names \in parentImg, others \in parentImg : \A p \in names, q \in others : p = q)',
         (\A f \in Files : Only(f, target[f]))',
         (NoFile \notin Seen(Shared))'
  PROVE  DiskOK'
BY DEF DiskOK, DiskInv

\* A call on a temporary.
LEMMA TemporaryOnly ==
  ASSUME DiskOK, FileType', \A f \in Files : Seen(f)' = Seen(f),
         UNCHANGED <<target, txn, rootImg, storeImg, visible, parentImg>>
  PROVE  /\ DiskOK'
         /\ \A p \in Promotions : CanRollBack(p)' <=> CanRollBack(p)
         /\ \A p \in Promotions : Old(p)' = Old(p) /\ New(p)' = New(p) /\ Logged(p)' = Logged(p)
<1>1. TxnType' /\ ParentType'
  BY DEF DiskOK, TxnType, ParentType
<1>2. \A p \in Promotions : Old(p)' = Old(p) /\ New(p)' = New(p) /\ Logged(p)' = Logged(p)
  BY DEF Old, New, Promoted, Logged
<1>3. \A p \in Promotions : CanRollBack(p)' <=> CanRollBack(p)
  BY <1>2, RollBackDef
<1>4. \A f \in Files : Only(f, target[f])'
                            \/ \E p \in Promotions : CanRollBack(p)' /\ f \in {p, Shared}
  BY SMT, <1>3 DEF DiskOK, DiskInv, Only
<1> QED BY <1>1, <1>2, <1>3, <1>4, DiskShrinks

\* An intact transaction can be rolled back.
LEMMA IntactIsOpen ==
  ASSUME DiskOK, NEW p \in Promotions, visible = {p}, Intact(p)
  PROVE  /\ CanRollBack(p) /\ FilesOK(p)
         /\ \A q \in Promotions : CanRollBack(q) => q = p
         /\ \A f \in {p, Shared} : Old(p)[f] # New(p)[f] /\ target[f] \in Seen(f)
         /\ New(p)[Shared] # NoFile /\ Old(p)[Shared] # NoFile
<1>1. Logged(p) # {} /\ storeImg[p] # {}
  BY CurrentSeen DEF DiskOK, TxnType
<1>2. "applying" \in Logged(p) /\ TRUE \in storeImg[p]
  BY <1>1 DEF Intact
<1>3. CanRollBack(p)
  BY <1>2, RollBackDef DEF DiskOK, ParentType
<1>4. FilesOK(p)
  BY <1>3 DEF DiskOK, DiskInv
<1>5. \A q \in Promotions : CanRollBack(q) => q = p
  BY RollBackDef DEF DiskOK, DiskInv, ParentType
<1>6. BaseOK(p, txn[p].old)
  BY <1>4 DEF FilesOK, Old
<1>7. /\ \A f \in {p, Shared} : Old(p)[f] # New(p)[f]
      /\ New(p)[Shared] # NoFile /\ Old(p)[Shared] # NoFile
  BY SMT, <1>6, PromotedDiffers DEF BaseOK, Old, New
<1>8. \A f \in {p, Shared} : target[f] \in Seen(f)
  BY CurrentSeen DEF DiskOK, Files
<1> QED BY <1>3, <1>4, <1>5, <1>7, <1>8

\* What comes back of a file stays, for the promotions whose directory does.
LEMMA OnlyKept ==
  ASSUME NEW p, NEW g, Seen(g)' = Seen(g), Old(p)' = Old(p), New(p)' = New(p)
  PROVE  /\ Only(g, Old(p)[g])' <=> Only(g, Old(p)[g])
         /\ Only(g, New(p)[g])' <=> Only(g, New(p)[g])
BY DEF Only

\* File f of promotion p is replaced by content c.
Replaced(p, f, c) ==
  /\ UNCHANGED <<txn, rootImg, storeImg, visible, parentImg>>
  /\ visible = {p} /\ Intact(p) /\ \A names \in parentImg : p \in names
  /\ Seen(f) \subseteq {Old(p)[f], New(p)[f]} /\ c \in {Old(p)[f], New(p)[f]}
  /\ target'[f] = c /\ Seen(f)' = Seen(f) \cup {c}
  /\ \A g \in Files \ {f} : target'[g] = target[g] /\ Seen(g)' = Seen(g)

\* A file of an intact transaction gets its old or its new content.
LEMMA FileReplaced ==
  ASSUME DiskOK, FileType', NEW p \in Promotions, NEW f \in {p, Shared}, NEW c,
         Replaced(p, f, c)
  PROVE  /\ DiskOK'
         /\ CanRollBack(p)
         /\ \A q \in Promotions : CanRollBack(q)' <=> CanRollBack(q)
         /\ \A q \in Promotions : Old(q)' = Old(q) /\ New(q)' = New(q) /\ Logged(q)' = Logged(q)
<1> USE DEF Replaced
<1>1. TxnType' /\ ParentType'
  BY DEF DiskOK, TxnType, ParentType
<1>2. \A q \in Promotions : Old(q)' = Old(q) /\ New(q)' = New(q) /\ Logged(q)' = Logged(q)
  BY DEF Old, New, Promoted, Logged
<1>3. \A q \in Promotions : CanRollBack(q)' <=> CanRollBack(q)
  BY <1>2, RollBackDef
<1>4. CanRollBack(p)
  BY IntactIsOpen
<1>5. FilesOK(p)
  BY IntactIsOpen
<1>6. p \in Files /\ Shared \in Files
  BY DEF Files
<1>7. FilesOK(p)'
  <2>1. p \in visible' /\ BaseOK(p, Old(p))'
    BY <1>2, <1>5 DEF FilesOK, BaseOK, Trees, Files
  <2>2. ASSUME NEW g \in {p, Shared}
        PROVE  /\ Only(g, target[g])' \/ Seen(g)' \subseteq {Old(p)[g], New(p)[g]}'
               /\ ((\E names \in parentImg : p \notin names) \/ FALSE \in storeImg[p] =>
                    Only(g, target[g]) /\ target[g] # New(p)[g])'
               /\ (~ (Logged(p) \subseteq {"applying"}) => Only(g, New(p)[g]))'
    <3>1. FALSE \notin storeImg'[p] /\ Logged(p)' \subseteq {"applying"}
      BY <1>2 DEF Intact
    <3>2. Only(g, target[g])' \/ Seen(g)' \subseteq {Old(p)[g], New(p)[g]}'
      <4>1. CASE g = f
        BY <4>1, <1>2
      <4>2. CASE g # f
        BY SMT, <4>2, <1>2, <1>5, <1>6 DEF FilesOK, Only
      <4> QED BY <4>1, <4>2
    <3> QED BY <3>1, <3>2
  <2> QED BY <2>1, <2>2 DEF FilesOK
<1>8. \A q \in Promotions : CanRollBack(q) => q = p
  BY IntactIsOpen
<1>9. (NoFile \notin Seen(Shared))'
  BY <1>6, IntactIsOpen DEF DiskOK, DiskInv
<1>10. DiskInv'
  <2>1. \A g \in Files : Only(g, target[g])'
                          \/ \E q \in Promotions : CanRollBack(q)' /\ g \in {q, Shared}
    BY SMT, <1>3, <1>4 DEF DiskOK, DiskInv, Only
  <2>2. \A q \in Promotions : CanRollBack(q)' => FilesOK(q)'
    BY <1>3, <1>7, <1>8
  <2>3. (\A names \in parentImg, others \in parentImg : \A q \in names, r \in others : q = r)'
    BY DEF DiskOK, DiskInv
  <2> QED BY <1>9, <2>1, <2>2, <2>3 DEF DiskInv
<1> QED BY <1>1, <1>2, <1>3, <1>4, <1>10 DEF DiskOK

\* The directory of a file is synced.
LEMMA FileSynced ==
  ASSUME DiskOK, NEW f \in Files, SyncFile(f),
         UNCHANGED <<txn, rootImg, storeImg, visible, parentImg>>
  PROVE  /\ DiskOK' /\ target' = target /\ tmp' = tmp /\ Seen(f)' = {target[f]}
         /\ \A g \in Files \ {f} : Seen(g)' = Seen(g)
         /\ \A q \in Promotions : CanRollBack(q)' <=> CanRollBack(q)
         /\ \A q \in Promotions : Old(q)' = Old(q) /\ New(q)' = New(q) /\ Logged(q)' = Logged(q)
<1>1. /\ FileType' /\ target' = target /\ tmp' = tmp /\ Seen(f)' = {target[f]}
      /\ \A g \in Files \ {f} : Seen(g)' = Seen(g)
  BY SyncFileEffect DEF DiskOK
<1>2. /\ TxnType' /\ ParentType'
      /\ \A q \in Promotions : Old(q)' = Old(q) /\ New(q)' = New(q) /\ Logged(q)' = Logged(q)
  BY DEF DiskOK, TxnType, ParentType, Old, New, Promoted, Logged
<1>3. \A q \in Promotions : CanRollBack(q)' <=> CanRollBack(q)
  BY <1>2, RollBackDef
<1>4. \A g \in Files : Seen(g)' \subseteq Seen(g)
  BY <1>1, CurrentSeen DEF DiskOK
<1>5. \A g \in Files : Only(g, target[g])'
                         \/ \E q \in Promotions : CanRollBack(q)' /\ g \in {q, Shared}
  BY SMT, <1>1, <1>3 DEF DiskOK, DiskInv, Only
<1> QED BY <1>1, <1>2, <1>3, <1>4, <1>5, DiskShrinks

\* The journal gets another state: where that is not the applying one, the new
\* files are all there or the directory is past recovery.
LEMMA JournalWritten ==
  ASSUME DiskOK, TxnType', NEW p \in Promotions, NEW s,
         UNCHANGED <<target, tmp, fileImg, storeImg, visible, parentImg>>,
         \A q \in Promotions : Old(q)' = Old(q) /\ New(q)' = New(q),
         Logged(p)' = Logged(p) \cup {s},
         \A q \in Promotions \ {p} : Logged(q)' = Logged(q),
         \/ s \in Logged(p)
         \/ s # "applying" /\ ~ CanRollBack(p)
         \/ s # "applying" /\ \A f \in {p, Shared} : Only(f, New(p)[f])
  PROVE  /\ DiskOK'
         /\ \A q \in Promotions : CanRollBack(q)' <=> CanRollBack(q)
         /\ \A f \in Files : Seen(f)' = Seen(f)
<1>1. \A q \in Promotions : CanRollBack(q)' <=> CanRollBack(q)
  <2>1. "applying" \in Logged(p)' <=> "applying" \in Logged(p)
    OBVIOUS
  <2> QED BY <2>1, RollBackDef
<1>2. FileType' /\ ParentType' /\ \A f \in Files : Seen(f)' = Seen(f)
  BY DEF DiskOK, FileType, ParentType, Seen
<1>3. p \in Files /\ Shared \in Files
  BY DEF Files
<1>4. ASSUME NEW q \in Promotions, CanRollBack(q)' PROVE FilesOK(q)'
  <2>1. FilesOK(q) /\ q \in Files
    BY <1>1, <1>4 DEF DiskOK, DiskInv, Files
  <2>2. q \in visible' /\ BaseOK(q, Old(q))'
    BY <2>1 DEF FilesOK, BaseOK, Trees, Files
  <2>3. ASSUME NEW f \in {q, Shared}
        PROVE  /\ Only(f, target[f])' \/ Seen(f)' \subseteq {Old(q)[f], New(q)[f]}'
               /\ ((\E names \in parentImg : q \notin names) \/ FALSE \in storeImg[q] =>
                    Only(f, target[f]) /\ target[f] # New(q)[f])'
    <3>1. Seen(f)' = Seen(f) /\ Old(q)' = Old(q) /\ New(q)' = New(q)
          /\ target' = target /\ parentImg' = parentImg /\ storeImg' = storeImg
      BY <1>2, <1>3, <2>1
    <3>2. /\ Seen(f) \subseteq {target[f]} \/ Seen(f) \subseteq {Old(q)[f], New(q)[f]}
          /\ (\E names \in parentImg : q \notin names) \/ FALSE \in storeImg[q] =>
                    Seen(f) \subseteq {target[f]} /\ target[f] # New(q)[f]
      BY <2>1 DEF FilesOK, Only
    <3> QED BY <3>1, <3>2 DEF Only
  <2>4. ASSUME NEW f \in {q, Shared}
        PROVE  (~ (Logged(q) \subseteq {"applying"}) => Only(f, New(q)[f]))'
    <3>1. ~ (Logged(q)' \subseteq {"applying"}) => Only(f, New(q)[f])
      BY <1>1, <1>4, <2>1 DEF FilesOK
    <3> QED BY <1>2, <1>3, <2>1, <3>1 DEF Only
  <2> QED BY <2>2, <2>3, <2>4 DEF FilesOK
<1>5. \A f \in Files : Only(f, target[f])'
                         \/ \E q \in Promotions : CanRollBack(q)' /\ f \in {q, Shared}
  BY SMT, <1>1, <1>2 DEF DiskOK, DiskInv, Only
<1>6. DiskInv'
  BY <1>2, <1>3, <1>4, <1>5 DEF DiskOK, DiskInv
<1> QED BY <1>1, <1>2, <1>6 DEF DiskOK

-----------------------------------------------------------------------------
(* Control. *)

\* A process that is at a step holds the lock.
LEMMA AtStep ==
  ASSUME IInv, run.step # "idle"
  PROVE  /\ holder # Nobody
         /\ run.mode \in {"apply", "rollback", "finish"}
         /\ run.step \in Steps
         /\ run.code \in Answers
BY SMT DEF IInv, ControlType, Idle, Answers, Runs, Modes, Codes

\* A step in another row.
LEMMA OtherRow ==
  ASSUME NEW r \in Runs, NEW s \in Steps, NEW n \in 1..2
  PROVE  /\ [r EXCEPT !.step = s, !.row = n] \in Runs
         /\ [r EXCEPT !.step = s, !.row = n]
              = [step |-> s, mode |-> r.mode, txn |-> r.txn, row |-> n, code |-> r.code]
<1> DEFINE r1 == [r EXCEPT !.step = s]
           r2 == [r1 EXCEPT !.row = n]
<1>0. [r EXCEPT !.step = s, !.row = n] = r2
  OBVIOUS
<1>1. r1 \in Runs /\ r1 = [step |-> s, mode |-> r.mode, txn |-> r.txn, row |-> r.row, code |-> r.code]
  BY SMT DEF Runs
<1> HIDE DEF r1
<1>2. r2 \in Runs /\ r2 = [step |-> s, mode |-> r.mode, txn |-> r.txn, row |-> n, code |-> r.code]
  BY SMT, <1>1 DEF Runs
<1> HIDE DEF r2
<1> QED BY <1>0, <1>2

\* A step in another mode.
LEMMA OtherMode ==
  ASSUME NEW r \in Runs, NEW s \in Steps, NEW m \in Modes, NEW c \in Codes
  PROVE  /\ [r EXCEPT !.step = s, !.mode = m] \in Runs
         /\ [r EXCEPT !.step = s, !.mode = m]
              = [step |-> s, mode |-> m, txn |-> r.txn, row |-> r.row, code |-> r.code]
         /\ [r EXCEPT !.step = s, !.mode = m, !.code = c] \in Runs
         /\ [r EXCEPT !.step = s, !.mode = m, !.code = c]
              = [step |-> s, mode |-> m, txn |-> r.txn, row |-> r.row, code |-> c]
<1> DEFINE r1 == [r EXCEPT !.step = s]
           r2 == [r1 EXCEPT !.mode = m]
           r3 == [r2 EXCEPT !.code = c]
<1>0. /\ [r EXCEPT !.step = s, !.mode = m] = r2
      /\ [r EXCEPT !.step = s, !.mode = m, !.code = c] = r3
  OBVIOUS
<1>1. r1 \in Runs /\ r1 = [step |-> s, mode |-> r.mode, txn |-> r.txn, row |-> r.row, code |-> r.code]
  BY SMT DEF Runs
<1> HIDE DEF r1
<1>2. r2 \in Runs /\ r2 = [step |-> s, mode |-> m, txn |-> r.txn, row |-> r.row, code |-> r.code]
  BY SMT, <1>1 DEF Runs
<1> HIDE DEF r2
<1>3. r3 \in Runs /\ r3 = [step |-> s, mode |-> m, txn |-> r.txn, row |-> r.row, code |-> c]
  BY SMT, <1>2 DEF Runs
<1> HIDE DEF r3
<1> QED BY <1>0, <1>2, <1>3

\* The holder goes on with another step.
LEMMA GoesTo ==
  ASSUME IInv, holder # Nobody, NEW s \in Steps, GoTo(s), StillRunning,
         \A p \in Promotions : CanRollBack(p)' => CanRollBack(p) \/ p = holder
  PROVE  /\ ControlType' /\ Waiting'
         /\ holder' = holder /\ phase' = phase /\ base' = base
         /\ run'.step = s /\ run'.mode = run.mode /\ run'.txn = run.txn
         /\ run'.row = run.row /\ run'.code = run.code
         /\ File' = File
<1>1. /\ run' \in Runs
      /\ run'.step = s /\ run'.mode = run.mode /\ run'.txn = run.txn
      /\ run'.row = run.row /\ run'.code = run.code
  BY DEF IInv, ControlType, Runs, GoTo
<1>2. holder' = holder /\ phase' = phase /\ base' = base /\ answer' = answer /\ events' = events
  BY DEF StillRunning
<1>3. ControlType'
  BY <1>1, <1>2 DEF IInv, ControlType
<1>4. Waiting'
  BY <1>2 DEF IInv, ControlType, Waiting, BaseOK, Trees, Files
<1> QED BY <1>1, <1>2, <1>3, <1>4 DEF File, Rows

\* The holder drops the lock.
LEMMA Releases ==
  ASSUME IInv, holder # Nobody, NEW a \in Answers, Release(a), events' \in 0..MaxEvents,
         DiskOK', \A p \in Promotions : CanRollBack(p)' => CanRollBack(p)
  PROVE  IInv'
<1>1. holder \in Commands /\ Nobody \notin Promotions
  BY DistinctAssumption DEF IInv, ControlType
<1>2. NoTree \in Trees
  BY DEF NoTree, Trees, Contents
<1>3. ControlType'
  <2>1. answer' \in [Commands -> Answers]
    BY <1>1 DEF IInv, ControlType, Release
  <2>2. base' \in [Promotions -> Trees]
    BY <1>2 DEF IInv, ControlType, Release
  <2>3. /\ phase' \in [Promotions -> {"idle", "checked", "captured", "locked"}]
        /\ (\A p \in Promotions : (phase[p] = "locked") <=> (holder = p))'
    BY <1>1 DEF IInv, ControlType, Release
  <2> QED BY <2>1, <2>2, <2>3 DEF ControlType, Release
<1>4. Waiting'
  BY DEF IInv, Waiting, Release, BaseOK, Trees, Files
<1>5. RunOK'
  BY DEF RunOK, Release
<1> QED BY <1>3, <1>4, <1>5 DEF IInv

LEMMA UnsettledAnswer == Unsettled \in Answers
BY DEF Unsettled, Answers

\* The disk stays as it is.
LEMMA DiskUnchanged ==
  ASSUME DiskOK, UNCHANGED disk
  PROVE  /\ DiskOK'
         /\ \A p \in Promotions : CanRollBack(p)' <=> CanRollBack(p)
         /\ \A p \in Promotions : Old(p)' = Old(p) /\ New(p)' = New(p) /\ Logged(p)' = Logged(p)
         /\ \A f \in Files : Seen(f)' = Seen(f)
<1>1. \A f \in Files : Seen(f)' = Seen(f)
  BY DEF disk, Seen
<1>2. FileType'
  BY DEF DiskOK, disk, FileType
<1> QED BY <1>1, <1>2, TemporaryOnly DEF disk

\* An error while the files are replaced: every file is old, or not yet old again.
LEMMA StartsRollback ==
  ASSUME IInv, holder # Nobody, run.mode = "apply", run.step \notin Preparing \cup {"attach"},
         DiskOK', \A p \in Promotions : CanRollBack(p)' <=> CanRollBack(p),
         \A p \in Promotions : Old(p)' = Old(p) /\ New(p)' = New(p) /\ Logged(p)' = Logged(p),
         \A f \in Files : Seen(f)' = Seen(f),
         UNCHANGED <<target, storeImg, visible, parentImg, holder, phase, base, answer>>,
         events' \in 0..MaxEvents,
         NEW c \in {"concurrent_update", "identity_mismatch"},
         run' = RollingBack(c)
  PROVE  IInv'
<1> PICK p \in Promotions : p = run.txn
  BY CurrentFile DEF IInv
<1>1. /\ run' \in Runs
      /\ run'.step = "undo_tmp" /\ run'.mode = "rollback" /\ run'.txn = p
      /\ run'.row = 2 /\ run'.code = c
  BY SMT, CurrentFile DEF IInv, RollingBack, Runs, Steps, Modes, Codes
<1>2. ControlType'
  BY <1>1 DEF IInv, ControlType
<1>3. Waiting'
  BY DEF IInv, Waiting, BaseOK, Trees, Files
<1>4. holder = p /\ ApplyingOK(p)
  BY DEF IInv, RunOK, ControlOK
<1>5. p \in Promotions /\ p \in Files /\ Shared \in Files /\ File' = Shared
  BY SMT, <1>1, CurrentFile DEF IInv, Files, File, Rows
<1>7. \A f \in {p, Shared} : Old(p)[f] # New(p)[f] /\ target[f] \in Seen(f)
  BY <1>4, <1>5, IntactIsOpen DEF ApplyingOK, IInv
<1>8. \A f \in {p, Shared} : target[f] = Old(p)[f] => Only(f, Old(p)[f])
  <2>1. run.step \in {"attach", "sync_parent", "validate"} \cup Writing \cup Journalling
    BY DEF IInv, RunOK, ControlOK
  <2>2. Only(File, Old(p)[File]) \/ target[File] = New(p)[File]
    BY <1>4, <1>7, <2>1, CurrentFile DEF ApplyingOK, Writing, Journalling, Only, IInv
  <2>3. File = p => Only(Shared, Old(p)[Shared])
    BY SMT, <1>4, CurrentFile DEF ApplyingOK, IInv
  <2>4. File = Shared => target[p] = New(p)[p]
    BY SMT, <1>4, <1>7, CurrentFile DEF ApplyingOK, IInv, Only
  <2> QED BY SMT, <1>7, <2>2, <2>3, <2>4, CurrentFile DEF IInv
<1>9. UndoingOK(p)'
  <2>1. visible' = {p} /\ Intact(p)'
    BY <1>4, <1>5 DEF ApplyingOK, Intact
  <2> QED BY SMT, <1>1, <1>5, <1>8, <2>1 DEF UndoingOK, Only, Undoing
<1>10. RunOK'
  BY <1>1, <1>4, <1>9 DEF RunOK, ControlOK, Undoing, Preparing, Cleaning
<1> QED BY <1>2, <1>3, <1>10 DEF IInv

-----------------------------------------------------------------------------
(* apply_transaction keeps the invariant. *)

LEMMA PreflightStep ==
  ASSUME IInv, Preflight
  PROVE  IInv'
<1>1. holder # Nobody /\ run.step = "preflight"
  BY AtStep DEF Preflight, At
<1>2. /\ DiskOK' /\ \A p \in Promotions : CanRollBack(p)' => CanRollBack(p)
      /\ events' = events /\ events' \in 0..MaxEvents
  BY DiskUnchanged DEF IInv, Preflight, ControlType
<1>3. CASE \E a \in {"recovery_required", "concurrent_update"} : Release(a)
  BY <1>1, <1>2, <1>3, Releases DEF Answers
<1>4. CASE /\ visible = {} /\ TargetUnchanged(run.txn)
           /\ GoTo("prepare") /\ UNCHANGED <<holder, phase, base, answer>>
  <2> PICK p \in Promotions : p = run.txn
    BY <1>1, CurrentFile DEF IInv
  <2>1. StillRunning /\ "prepare" \in Steps
    BY <1>2, <1>4 DEF StillRunning, Steps
  <2>2. /\ ControlType' /\ Waiting'
        /\ holder' = holder /\ run'.step = "prepare" /\ run'.mode = run.mode /\ run'.txn = p
        /\ run'.row = run.row /\ base' = base
    BY <1>1, <1>2, <1>4, <2>1, GoesTo
  <2>3. PreparingOK(p) /\ ControlOK(p)
    BY <1>1 DEF IInv, RunOK, Preparing
  <2>4. PreparingOK(p)'
    BY <1>4, <2>2, <2>3 DEF PreparingOK, TargetUnchanged, Preflight, disk
  <2>5. run.mode = "apply"
    BY <1>1, <2>3, AtStep DEF ControlOK, Undoing, Writing, Journalling, Cleaning
  <2>6. RunOK'
    BY <2>2, <2>3, <2>4, <2>5 DEF RunOK, ControlOK, Preparing, Undoing, Writing, Journalling,
                                   Cleaning
  <2> QED BY <1>2, <2>2, <2>6 DEF IInv
<1> QED BY <1>3, <1>4 DEF Preflight

\* Before the directory has its name nothing of it can come back.
LEMMA NotPublished ==
  ASSUME IInv, run.step \in Preparing \ {"preflight"}
  PROVE  /\ holder # Nobody /\ run.mode = "apply" /\ run.txn \in Promotions
         /\ ControlOK(run.txn) /\ PreparingOK(run.txn) /\ BaseOK(run.txn, base[run.txn])
         /\ visible = {} /\ parentImg = {{}} /\ target = base[run.txn]
         /\ \A q \in Promotions : ~ CanRollBack(q)
         /\ \A f \in Files : Only(f, target[f])
<1>1. holder # Nobody
  BY AtStep DEF Preparing
<1>2. ControlOK(run.txn) /\ PreparingOK(run.txn) /\ run.txn \in Promotions
  BY <1>1, CurrentFile DEF IInv, RunOK
<1>3. run.mode = "apply"
  BY <1>1, <1>2, AtStep DEF ControlOK, Undoing, Writing, Journalling, Cleaning, Preparing
<1>4. visible = {} /\ parentImg = {{}} /\ target = base[run.txn]
  BY <1>2 DEF PreparingOK, Preparing
<1>5. \A q \in Promotions : ~ CanRollBack(q)
  BY <1>4, RollBackDef
<1>6. BaseOK(run.txn, base[run.txn])
  BY <1>2, <1>3 DEF ControlOK, IInv, ControlType, Waiting
<1> QED BY <1>1, <1>2, <1>3, <1>4, <1>5, <1>6 DEF IInv, DiskOK, DiskInv

LEMMA PrepareStep ==
  ASSUME IInv, Prepare
  PROVE  IInv'
<1>1. run.step \in Preparing \ {"preflight"} /\ run.step = "prepare"
  BY DEF Prepare, At, Preparing
<1> PICK p \in Promotions : p = run.txn
  BY <1>1, NotPublished
<1>2. /\ txn' = [txn EXCEPT ![p] = [journal |-> Journal("applying", 0), next |-> FALSE,
                               stored |-> TRUE, old |-> base[p]]]
      /\ rootImg' = [rootImg EXCEPT ![p] = {<<NoJournal, FALSE>>,
                                        <<Journal("applying", 0), FALSE>>}]
      /\ storeImg' = [storeImg EXCEPT ![p] = {FALSE, TRUE}]
      /\ UNCHANGED <<target, tmp, fileImg, visible, parentImg>>
  BY DEF Prepare, NoFileCall, NoParentCall
<1>3. TxnType'
  <2> DEFINE j == Journal("applying", 0)
             t == [journal |-> j, next |-> FALSE, stored |-> TRUE, old |-> base[p]]
  <2>1. NoJournal \in Journals /\ j \in Journals /\ base[p] \in Trees
    BY SMT DEF Journals, IInv, ControlType
  <2> HIDE DEF j
  <2>2. t \in [journal : Journals, next : BOOLEAN, stored : BOOLEAN, old : Trees]
    BY <2>1
  <2>3. <<t.journal, t.next>> \in {<<NoJournal, FALSE>>, <<j, FALSE>>} /\ t.stored \in {FALSE, TRUE}
    OBVIOUS
  <2>4. {<<NoJournal, FALSE>>, <<j, FALSE>>} \in SUBSET (Journals \X BOOLEAN)
    <3>1. \A x \in Journals : <<x, FALSE>> \in Journals \X BOOLEAN
      OBVIOUS
    <3> QED BY <2>1, <3>1
  <2>5. /\ txn' = [txn EXCEPT ![p] = t]
        /\ rootImg' = [rootImg EXCEPT ![p] = {<<NoJournal, FALSE>>, <<j, FALSE>>}]
    BY <1>2 DEF j
  <2> HIDE DEF t
  <2> DEFINE I == {<<NoJournal, FALSE>>, <<j, FALSE>>}
  <2>6. rootImg' = [rootImg EXCEPT ![p] = I] /\ I \in SUBSET (Journals \X BOOLEAN)
        /\ <<t.journal, t.next>> \in I
    BY <2>3, <2>4, <2>5
  <2> HIDE DEF I
  <2>7. txn' = [txn EXCEPT ![p] = t] /\ storeImg' = [storeImg EXCEPT ![p] = {FALSE, TRUE}]
    BY <1>2, <2>5
  <2>8. /\ txn' \in [Promotions -> [journal : Journals, next : BOOLEAN, stored : BOOLEAN,
                                    old : Trees]]
        /\ rootImg' \in [Promotions -> SUBSET (Journals \X BOOLEAN)]
        /\ storeImg' \in [Promotions -> SUBSET BOOLEAN]
    BY <2>2, <2>6, <2>7 DEF IInv, DiskOK, TxnType
  <2>9. \A q \in Promotions :
          <<txn'[q].journal, txn'[q].next>> \in rootImg'[q] /\ txn'[q].stored \in storeImg'[q]
    BY <2>3, <2>6, <2>7 DEF IInv, DiskOK, TxnType
  <2> QED BY <2>8, <2>9 DEF TxnType
<1>4. \A q \in Promotions : ~ CanRollBack(q)'
  BY <1>1, <1>2, NotPublished, RollBackDef
<1>5. FileType' /\ ParentType' /\ \A f \in Files : Seen(f)' = Seen(f)
  BY <1>2 DEF IInv, DiskOK, FileType, ParentType, Seen
<1>6. DiskOK'
  <2>1. (\A f \in Files : Only(f, target[f]))' /\ (NoFile \notin Seen(Shared))'
    BY SMT, <1>1, <1>2, <1>5, NotPublished DEF Only, IInv, DiskOK, DiskInv, Files
  <2> QED BY <1>1, <1>2, <1>3, <1>4, <1>5, <2>1, NotPublished, NothingOpen
<1>7. /\ ControlType' /\ Waiting'
      /\ holder' = holder /\ run'.step = "sync_prepared" /\ run'.mode = run.mode /\ run'.txn = p
      /\ run'.row = run.row /\ base' = base
  BY <1>1, <1>4, NotPublished, GoesTo DEF Prepare, Steps
<1>8. /\ txn'[p].old = base[p] /\ txn'[p].journal = Journal("applying", 0) /\ txn'[p].stored
  BY <1>2 DEF IInv, DiskOK, TxnType
<1>9. PreparingOK(p)'
  BY SMT, <1>1, <1>2, <1>7, <1>8, NotPublished DEF PreparingOK, Journal
<1>10. RunOK'
  BY <1>1, <1>7, <1>9, NotPublished DEF RunOK, ControlOK, Preparing, Undoing, Writing, Journalling,
                                   Cleaning
<1> QED BY <1>6, <1>7, <1>10 DEF IInv

LEMMA SyncPreparedStep ==
  ASSUME IInv, SyncPrepared
  PROVE  IInv'
<1>1. run.step \in Preparing \ {"preflight"} /\ run.step = "sync_prepared"
  BY DEF SyncPrepared, At, Preparing
<1> PICK p \in Promotions : p = run.txn
  BY <1>1, NotPublished
<1>2. /\ SyncRoot(p)
      /\ storeImg' = [storeImg EXCEPT ![p] = {TRUE}]
      /\ UNCHANGED <<target, tmp, fileImg, visible, parentImg, txn>>
  BY DEF SyncPrepared, NoFileCall, NoParentCall, SyncRoot
<1>3. PreparingOK(p)
  BY <1>1, NotPublished
<1>4. rootImg'[p] = {<<txn[p].journal, txn[p].next>>} /\ storeImg'[p] = {TRUE}
  BY <1>2 DEF SyncRoot, IInv, DiskOK, TxnType
<1>5. TxnType'
  <2>1. <<txn[p].journal, txn[p].next>> \in Journals \X BOOLEAN
    BY DEF IInv, DiskOK, TxnType
  <2> QED BY <1>1, <1>2, <1>3, <2>1 DEF IInv, DiskOK, TxnType, SyncRoot, PreparingOK
<1>6. \A q \in Promotions : ~ CanRollBack(q)'
  BY <1>1, <1>2, NotPublished, RollBackDef
<1>7. FileType' /\ ParentType' /\ \A f \in Files : Seen(f)' = Seen(f)
  BY <1>2 DEF IInv, DiskOK, FileType, ParentType, Seen
<1>8. DiskOK'
  <2>1. (\A f \in Files : Only(f, target[f]))' /\ (NoFile \notin Seen(Shared))'
    BY SMT, <1>1, <1>2, <1>7, NotPublished DEF Only, IInv, DiskOK, DiskInv, Files
  <2> QED BY <1>1, <1>2, <1>5, <1>6, <1>7, <2>1, NotPublished, NothingOpen
<1>9. /\ ControlType' /\ Waiting'
      /\ holder' = holder /\ run'.step = "publish" /\ run'.mode = run.mode /\ run'.txn = p
      /\ run'.row = run.row /\ base' = base
  BY <1>1, <1>6, NotPublished, GoesTo DEF SyncPrepared, Steps
<1>10. PreparingOK(p)'
  <2>1. Intact(p)'
    BY SMT, <1>1, <1>3, <1>4 DEF Intact, Logged, PreparingOK
  <2> QED BY <1>1, <1>2, <1>3, <1>9, <2>1 DEF PreparingOK
<1>11. RunOK'
  BY <1>1, <1>9, <1>10, NotPublished DEF RunOK, ControlOK, Preparing, Undoing, Writing, Journalling,
                                   Cleaning
<1> QED BY <1>8, <1>9, <1>11 DEF IInv

LEMMA PublishStep ==
  ASSUME IInv, Publish
  PROVE  IInv'
<1>1. run.step \in Preparing \ {"preflight"} /\ run.step = "publish"
  BY DEF Publish, At, Preparing
<1> PICK p \in Promotions : p = run.txn
  BY <1>1, NotPublished
<1>2. /\ UNCHANGED <<target, tmp, fileImg, txn, rootImg, storeImg>>
      /\ visible' = {p} /\ parentImg' = {{}, {p}}
  BY <1>1, NotPublished DEF Publish, PutParent, NoFileCall, NoRootCall, NoStoreCall
<1>3. /\ PreparingOK(p) /\ Intact(p) /\ holder = p
      /\ Old(p) = base[p] /\ target = base[p] /\ BaseOK(p, base[p]) /\ run.row = 1
  BY <1>1, NotPublished DEF PreparingOK, ControlOK, Old
<1>4. /\ FileType' /\ TxnType' /\ ParentType'
      /\ \A f \in Files : Seen(f)' = Seen(f)
      /\ \A q \in Promotions : Old(q)' = Old(q) /\ New(q)' = New(q) /\ Logged(q)' = Logged(q)
  BY <1>2 DEF IInv, DiskOK, FileType, TxnType, ParentType, Seen, Old, New, Promoted, Logged
<1>5. \A q \in Promotions : CanRollBack(q)' => q = p
  <2>1. \A names \in parentImg' : names \subseteq {p}
    BY <1>2
  <2> QED BY <2>1, RollBackDef
<1>6. p \in Files /\ Shared \in Files /\ \A f \in Files : Only(f, target[f]) /\ Only(f, target[f])'
  BY <1>1, <1>2, <1>4, NotPublished DEF Files, Only
<1>7. FilesOK(p)'
  <2>1. p \in visible' /\ BaseOK(p, Old(p))'
    BY <1>2, <1>3, <1>4 DEF BaseOK, Trees, Files
  <2>2. \A f \in {p, Shared} : target[f] # New(p)[f]
    BY SMT, <1>3, PromotedDiffers DEF New, Old
  <2>3. Logged(p)' \subseteq {"applying"}
    BY <1>3, <1>4 DEF Intact
  <2> QED BY <1>2, <1>4, <1>6, <2>1, <2>2, <2>3 DEF FilesOK
<1>8. DiskOK'
  <2>1. (NoFile \notin Seen(Shared))'
    BY <1>4, <1>6 DEF IInv, DiskOK, DiskInv
  <2>2. (\A names \in parentImg, others \in parentImg : \A q \in names, r \in others : q = r)'
    BY <1>2
  <2>3. \A q \in Promotions : CanRollBack(q)' => FilesOK(q)'
    BY <1>5, <1>7
  <2> QED BY <1>4, <1>6, <2>1, <2>2, <2>3 DEF DiskOK, DiskInv
<1>9. /\ ControlType' /\ Waiting'
      /\ holder' = holder /\ run'.step = "attach" /\ run'.mode = run.mode /\ run'.txn = p
      /\ run'.row = run.row /\ File' = File
  BY <1>1, <1>3, <1>5, NotPublished, GoesTo DEF Publish, Steps
<1>10. ApplyingOK(p)'
  <2>1. Intact(p)'
    BY <1>2, <1>3, <1>4 DEF Intact
  <2>2. File = p
    BY <1>1, <1>3, NotPublished, CurrentFile DEF IInv
  <2> QED BY SMT, <1>2, <1>3, <1>4, <1>6, <1>9, <2>1, <2>2 DEF ApplyingOK, Only, Journalling
<1>11. RunOK'
  BY <1>1, <1>9, <1>10, NotPublished DEF RunOK, ControlOK, Preparing, Undoing, Writing, Journalling,
                                   Cleaning
<1> QED BY <1>8, <1>9, <1>11 DEF IInv

\* What holds while the files are replaced.
LEMMA Applying ==
  ASSUME IInv, run.step \in {"attach", "sync_parent", "validate"}
                 \/ (run.step \in Writing \cup Journalling /\ run.mode = "apply")
  PROVE  /\ holder # Nobody /\ run.mode = "apply" /\ run.txn \in Promotions
         /\ ControlOK(run.txn) /\ ApplyingOK(run.txn) /\ holder = run.txn
         /\ visible = {run.txn} /\ Intact(run.txn)
         /\ run.txn \in Files /\ Shared \in Files /\ run.txn # Shared
         /\ run.row \in 1..2 /\ File = IF run.row = 1 THEN run.txn ELSE Shared
<1>1. holder # Nobody
  BY AtStep DEF Writing, Journalling
<1>2. ControlOK(run.txn) /\ run.txn \in Promotions
  BY <1>1, CurrentFile DEF IInv, RunOK
<1>3. run.mode = "apply"
  BY <1>1, <1>2, AtStep DEF ControlOK, Undoing, Writing, Journalling, Cleaning
<1>4. ApplyingOK(run.txn)
  BY <1>1, <1>3 DEF IInv, RunOK, Preparing, Writing, Journalling
<1>5. run.row \in 1..2 /\ File = IF run.row = 1 THEN run.txn ELSE Shared
  BY SMT, <1>1, CurrentFile DEF IInv
<1> QED BY <1>1, <1>2, <1>3, <1>4, <1>5, DistinctAssumption DEF ControlOK, ApplyingOK, Files

LEMMA AttachStep ==
  ASSUME IInv, Attach
  PROVE  IInv'
<1>1. run.step = "attach"
  BY DEF Attach, At
<1> PICK p \in Promotions : p = run.txn
  BY <1>1, Applying
<1>2. /\ DiskOK' /\ \A q \in Promotions : CanRollBack(q)' <=> CanRollBack(q)
      /\ \A q \in Promotions : Old(q)' = Old(q) /\ New(q)' = New(q) /\ Logged(q)' = Logged(q)
      /\ \A f \in Files : Seen(f)' = Seen(f)
      /\ UNCHANGED disk
  BY DiskUnchanged DEF IInv, Attach
<1>3. /\ ControlType' /\ Waiting'
      /\ holder' = holder /\ run'.step = "sync_parent" /\ run'.mode = run.mode /\ run'.txn = p
      /\ run'.row = run.row /\ File' = File
  BY <1>1, <1>2, Applying, GoesTo DEF Attach, Steps
<1>4. ApplyingOK(p)'
  <2>1. ApplyingOK(p) /\ File \in Files /\ p \in Files /\ Shared \in Files
    BY <1>1, Applying
  <2> QED BY <1>1, <1>2, <1>3, <2>1 DEF ApplyingOK, Only, Intact, Journalling, disk
<1>5. RunOK'
  BY <1>1, <1>3, <1>4, Applying DEF RunOK, ControlOK, Preparing, Undoing, Writing, Journalling,
                                   Cleaning
<1> QED BY <1>2, <1>3, <1>5 DEF IInv

LEMMA SyncPublishedStep ==
  ASSUME IInv, SyncPublished
  PROVE  IInv'
<1>1. run.step = "sync_parent"
  BY DEF SyncPublished, At
<1> PICK p \in Promotions : p = run.txn
  BY <1>1, Applying
<1>2. /\ UNCHANGED <<target, tmp, fileImg, txn, rootImg, storeImg, visible>>
      /\ parentImg' = {{p}} /\ visible = {p}
  BY <1>1, Applying
     DEF SyncPublished, PublishDurably, SyncParent, NoFileCall, NoRootCall, NoStoreCall
<1>3. /\ FileType' /\ TxnType' /\ ParentType'
      /\ \A f \in Files : Seen(f)' = Seen(f)
      /\ \A q \in Promotions : Old(q)' = Old(q) /\ New(q)' = New(q) /\ Logged(q)' = Logged(q)
  BY <1>2 DEF IInv, DiskOK, FileType, TxnType, ParentType, Seen, Old, New, Promoted, Logged
<1>4. CanRollBack(p) /\ CanRollBack(p)' /\ \A q \in Promotions : CanRollBack(q) => q = p
  <2>1. CanRollBack(p) /\ \A q \in Promotions : CanRollBack(q) => q = p
    BY <1>1, Applying, IntactIsOpen DEF IInv
  <2>2. p \in {p} /\ {p} \in parentImg' /\ "applying" \in Logged(p)' /\ TRUE \in storeImg'[p]
    BY <1>2, <1>3, <2>1, RollBackDef
  <2> QED BY <2>1, <2>2, RollBackDef
<1>5. \A f \in Files : Only(f, target[f])'
                         \/ \E q \in Promotions : CanRollBack(q)' /\ f \in {q, Shared}
  BY SMT, <1>2, <1>3, <1>4 DEF IInv, DiskOK, DiskInv, Only
<1>6. DiskOK' /\ \A q \in Promotions : CanRollBack(q)' => CanRollBack(q)
  BY <1>2, <1>3, <1>5, DiskShrinks DEF IInv, DiskOK, ParentType
<1>7. /\ ControlType' /\ Waiting'
      /\ holder' = holder /\ run'.step = "create_tmp" /\ run'.mode = run.mode /\ run'.txn = p
      /\ run'.row = run.row /\ File' = File
  BY <1>1, <1>6, Applying, GoesTo DEF SyncPublished, Steps
<1>8. ApplyingOK(p)'
  <2>1. ApplyingOK(p) /\ File \in Files /\ p \in Files /\ Shared \in Files
    BY <1>1, Applying
  <2> QED BY <1>1, <1>2, <1>3, <1>7, <2>1 DEF ApplyingOK, Only, Intact, Journalling
<1>9. RunOK'
  BY <1>1, <1>7, <1>8, Applying DEF RunOK, ControlOK, Preparing, Undoing, Writing, Journalling,
                                   Cleaning
<1> QED BY <1>6, <1>7, <1>9 DEF IInv

\* What holds while files are put back.
LEMMA RollingBackFacts ==
  ASSUME IInv, run.step \in Undoing \/ (run.step \in Writing /\ run.mode = "rollback")
  PROVE  /\ holder # Nobody /\ run.mode = "rollback" /\ run.txn \in Promotions
         /\ ControlOK(run.txn) /\ UndoingOK(run.txn) /\ holder \in {run.txn, Recoverer}
         /\ visible = {run.txn} /\ Intact(run.txn)
         /\ run.txn \in Files /\ Shared \in Files /\ run.txn # Shared
         /\ run.row \in 1..2 /\ File = IF run.row = 1 THEN run.txn ELSE Shared
<1>1. holder # Nobody
  BY AtStep DEF Writing, Undoing
<1>2. ControlOK(run.txn) /\ run.txn \in Promotions
  BY <1>1, CurrentFile DEF IInv, RunOK
<1>3. run.mode = "rollback"
  BY <1>1, <1>2, AtStep DEF ControlOK, Undoing, Writing, Journalling, Cleaning, Preparing
<1>4. UndoingOK(run.txn)
  BY <1>1, <1>3 DEF IInv, RunOK
<1>5. run.row \in 1..2 /\ File = IF run.row = 1 THEN run.txn ELSE Shared
  BY SMT, <1>1, CurrentFile DEF IInv
<1> QED BY <1>1, <1>2, <1>3, <1>4, <1>5, DistinctAssumption DEF ControlOK, UndoingOK, Files

\* A step of replace_target_file serves both directions.
LEMMA BothDirections ==
  ASSUME IInv, run.step \in Writing
  PROVE  /\ holder # Nobody /\ run.mode \in {"apply", "rollback"} /\ run.txn \in Promotions
         /\ run.mode = "apply" => ApplyingOK(run.txn)
         /\ run.mode = "rollback" => UndoingOK(run.txn)
         /\ ControlOK(run.txn) /\ visible = {run.txn} /\ Intact(run.txn)
         /\ run.txn \in Files /\ Shared \in Files /\ run.txn # Shared
         /\ run.row \in 1..2 /\ File = IF run.row = 1 THEN run.txn ELSE Shared
<1>1. holder # Nobody
  BY AtStep DEF Writing
<1>2. ControlOK(run.txn)
  BY <1>1 DEF IInv, RunOK
<1>3. run.mode \in {"apply", "rollback"}
  BY <1>1, <1>2, AtStep DEF ControlOK, Writing, Journalling, Cleaning
<1>4. CASE run.mode = "apply"
  BY <1>4, Applying
<1>5. CASE run.mode = "rollback"
  BY <1>5, RollingBackFacts
<1> QED BY <1>3, <1>4, <1>5

LEMMA CreateTmpStep ==
  ASSUME IInv, CreateTmp
  PROVE  IInv'
<1>1. run.step = "create_tmp" /\ run.step \in Writing
  BY DEF CreateTmp, At, Writing
<1> PICK p \in Promotions : p = run.txn
  BY <1>1, BothDirections
<1>2. holder # Nobody /\ File \in Files /\ p \in Files /\ Shared \in Files
  BY <1>1, BothDirections
<1>3. UNCHANGED <<txn, rootImg, storeImg, visible, parentImg>>
  BY DEF CreateTmp, NoRootCall, NoStoreCall, NoParentCall
<1>4. CASE PutFile(File, target[File], Partial) /\ GoTo("write_tmp") /\ StillRunning
  <2>1. target[File] \in Contents /\ target[File] \in Seen(File) /\ target' = target
    BY <1>2, <1>4, CurrentSeen DEF IInv, DiskOK, FileType, Trees, PutFile
  <2>2. FileType' /\ tmp'[File] = Partial /\ \A f \in Files : Seen(f)' = Seen(f)
    BY SMT, <1>2, <1>4, <2>1, PutFileEffect DEF IInv, DiskOK
  <2>3. /\ DiskOK'
        /\ \A q \in Promotions : CanRollBack(q)' <=> CanRollBack(q)
        /\ \A q \in Promotions : Old(q)' = Old(q) /\ New(q)' = New(q) /\ Logged(q)' = Logged(q)
    BY <1>3, <2>1, <2>2, TemporaryOnly DEF IInv
  <2>4. /\ ControlType' /\ Waiting'
        /\ holder' = holder /\ run'.step = "write_tmp" /\ run'.mode = run.mode /\ run'.txn = p
        /\ run'.row = run.row /\ run'.code = run.code /\ File' = File
    BY <1>2, <1>4, <2>3, GoesTo DEF Steps
  <2>5. run.mode = "apply" => ApplyingOK(p)'
    <3>1. run.mode = "apply" => ApplyingOK(p)
      BY <1>1, BothDirections
    <3> QED BY <1>1, <1>2, <1>3, <2>1, <2>2, <2>3, <2>4, <3>1
            DEF ApplyingOK, Only, Intact, Journalling
  <2>6. run.mode = "rollback" => UndoingOK(p)'
    <3>1. run.mode = "rollback" => UndoingOK(p)
      BY <1>1, BothDirections
    <3> QED BY <1>1, <1>2, <1>3, <2>1, <2>2, <2>3, <2>4, <3>1
            DEF UndoingOK, Only, Intact, Undoing
  <2>7. RunOK'
    <3>1. run.mode \in {"apply", "rollback"} /\ ControlOK(p)
      BY <1>1, BothDirections
    <3> QED BY <1>1, <2>2, <2>4, <2>5, <2>6, <3>1 DEF RunOK, ControlOK, Preparing, Undoing, Writing,
                                                 Journalling, Cleaning
  <2> QED BY <2>3, <2>4, <2>7 DEF IInv
<1>5. CASE /\ NoFileCall
           /\ \/ run.mode = "apply" /\ StartRollback("concurrent_update")
              \/ run.mode # "apply" /\ Release(Unsettled) /\ UNCHANGED events
  <2>1. UNCHANGED disk
    BY <1>3, <1>5 DEF NoFileCall, disk
  <2>2. CASE run.mode = "apply" /\ StartRollback("concurrent_update")
    <3>1. events' \in 0..MaxEvents
      BY <2>2 DEF StartRollback, StillRunning, IInv, ControlType
    <3> QED BY <1>1, <1>2, <2>1, <2>2, <3>1, DiskUnchanged, StartsRollback
            DEF IInv, StartRollback, StillRunning, Preparing, disk
  <2>3. CASE Release(Unsettled) /\ UNCHANGED events
    BY <1>2, <2>1, <2>3, DiskUnchanged, Releases, UnsettledAnswer DEF IInv, ControlType
  <2> QED BY <1>5, <2>2, <2>3
<1> QED BY <1>4, <1>5 DEF CreateTmp

LEMMA WriteTmpStep ==
  ASSUME IInv, WriteTmp
  PROVE  IInv'
<1>1. run.step = "write_tmp" /\ run.step \in Writing
  BY DEF WriteTmp, At, Writing
<1> PICK p \in Promotions : p = run.txn
  BY <1>1, BothDirections
<1>2. holder # Nobody /\ File \in Files /\ File \in {p, Shared} /\ p \in Files /\ Shared \in Files
      /\ run.mode \in {"apply", "rollback"} /\ visible = {p} /\ Intact(p)
  BY <1>1, BothDirections
<1>3. UNCHANGED <<target, txn, rootImg, storeImg, visible, parentImg>>
  BY DEF WriteTmp, NoRootCall, NoStoreCall, NoParentCall
<1> DEFINE bytes == Bytes(run.mode, p, File)
<1>4. bytes \in Contents
  <2>1. BaseOK(p, txn[p].old)
    BY <1>2, IntactIsOpen DEF FilesOK, Old, IInv
  <2> QED BY SMT, <1>2, <2>1, PromotedDiffers DEF Bytes, BaseOK, Trees
<1>5. /\ tmp' = [tmp EXCEPT ![File] = bytes]
      /\ fileImg' = [fileImg EXCEPT ![File] =
                   {<<i[1], IF i[2] = Partial THEN bytes ELSE i[2]>> : i \in fileImg[File]}]
  BY <1>2 DEF WriteTmp, IInv, DiskOK, FileType
<1> HIDE DEF bytes
<1>6. FileType' /\ \A f \in Files : Seen(f)' = Seen(f)
  <2> DEFINE Filled == {<<i[1], IF i[2] = Partial THEN bytes ELSE i[2]>> : i \in fileImg[File]}
  <2>1. Filled \in SUBSET (Contents \X (Contents \cup {Partial}))
    BY SMT, <1>2, <1>4 DEF IInv, DiskOK, FileType
  <2>2. <<target[File], bytes>> \in Filled
    <3>1. tmp[File] = Partial
      BY <1>1, <1>2 DEF IInv, RunOK
    <3>2. <<target[File], tmp[File]>> \in fileImg[File]
      BY <1>2 DEF IInv, DiskOK, FileType
    <3> QED BY SMT, <3>1, <3>2
  <2>3. {i[1] : i \in Filled} = {i[1] : i \in fileImg[File]}
    <3>1. \A i \in fileImg[File] : <<i[1], IF i[2] = Partial THEN bytes ELSE i[2]>>[1] = i[1]
      OBVIOUS
    <3>2. \A x \in Filled : \E i \in fileImg[File] : x[1] = i[1]
      BY <3>1
    <3>3. \A i \in fileImg[File] : \E x \in Filled : x[1] = i[1]
      BY <3>1
    <3> HIDE DEF Filled
    <3> QED BY SMT, <3>2, <3>3
  <2> HIDE DEF Filled
  <2>4. fileImg' = [fileImg EXCEPT ![File] = Filled]
    BY <1>5 DEF Filled
  <2>5. FileType'
    BY SMT, <1>2, <1>3, <1>4, <1>5, <2>1, <2>2, <2>4 DEF IInv, DiskOK, FileType
  <2>6. fileImg'[File] = Filled /\ \A f \in Files \ {File} : fileImg'[f] = fileImg[f]
    BY <1>2, <2>4 DEF IInv, DiskOK, FileType
  <2> QED BY <2>3, <2>5, <2>6 DEF Seen
<1>7. /\ DiskOK'
      /\ \A q \in Promotions : CanRollBack(q)' <=> CanRollBack(q)
      /\ \A q \in Promotions : Old(q)' = Old(q) /\ New(q)' = New(q) /\ Logged(q)' = Logged(q)
  BY <1>3, <1>6, TemporaryOnly DEF IInv
<1>8. /\ ControlType' /\ Waiting'
      /\ holder' = holder /\ run'.step = "rename" /\ run'.mode = run.mode /\ run'.txn = p
      /\ run'.row = run.row /\ run'.code = run.code /\ File' = File
  BY <1>2, <1>7, GoesTo DEF Steps, WriteTmp
<1>9. run.mode = "apply" => ApplyingOK(p)'
  <2>1. run.mode = "apply" => ApplyingOK(p)
    BY <1>1, BothDirections
  <2> QED BY <1>1, <1>2, <1>3, <1>6, <1>7, <1>8, <2>1 DEF ApplyingOK, Only, Intact, Journalling
<1>10. run.mode = "rollback" => UndoingOK(p)'
  <2>1. run.mode = "rollback" => UndoingOK(p)
    BY <1>1, BothDirections
  <2> QED BY <1>1, <1>2, <1>3, <1>6, <1>7, <1>8, <2>1 DEF UndoingOK, Only, Intact, Undoing
<1>11. tmp'[File] = Bytes(run.mode, p, File)'
  <2>1. tmp'[File] = bytes
    BY <1>2, <1>5 DEF IInv, DiskOK, FileType
  <2>2. bytes = IF run.mode = "apply" THEN New(p)[File] ELSE Old(p)[File]
    BY DEF bytes, Bytes, New, Old
  <2>3. Bytes(run.mode, p, File)' = IF run.mode = "apply" THEN New(p)'[File] ELSE Old(p)'[File]
    BY SMT, <1>8 DEF Bytes, New, Old, Promoted
  <2> QED BY <1>7, <2>1, <2>2, <2>3
<1>12. RunOK'
  <2>1. ControlOK(p)
    BY <1>1, BothDirections
  <2> QED BY <1>1, <1>2, <1>8, <1>9, <1>10, <1>11, <2>1
          DEF RunOK, ControlOK, Preparing, Undoing, Writing, Journalling, Cleaning
<1> QED BY <1>7, <1>8, <1>12 DEF IInv

LEMMA RenameStep ==
  ASSUME IInv, Rename
  PROVE  IInv'
<1>1. run.step = "rename" /\ run.step \in Writing
  BY DEF Rename, At, Writing
<1> PICK p \in Promotions : p = run.txn
  BY <1>1, BothDirections
<1> PICK f \in Files : f = File
  BY <1>1, BothDirections
<1>2. holder # Nobody /\ f \in {p, Shared} /\ p \in Files /\ Shared \in Files
      /\ run.mode \in {"apply", "rollback"} /\ visible = {p} /\ Intact(p)
      /\ run.row \in 1..2 /\ f = (IF run.row = 1 THEN p ELSE Shared) /\ p # Shared
  BY <1>1, BothDirections
<1>3. UNCHANGED <<txn, rootImg, storeImg, visible, parentImg>>
  BY DEF Rename, NoRootCall, NoStoreCall, NoParentCall
<1> PICK c : c = IF run.mode = "apply" THEN New(p)[f] ELSE Old(p)[f]
  OBVIOUS
<1>4. tmp[f] = c
  BY <1>1, <1>2 DEF IInv, RunOK, Bytes, New, Old
<1>5. FilesOK(p) /\ CanRollBack(p) /\ \A g \in {p, Shared} : Old(p)[g] # New(p)[g]
  BY <1>2, IntactIsOpen DEF IInv
<1>6. c \in Contents
  <2>1. BaseOK(p, txn[p].old)
    BY <1>5 DEF FilesOK, Old
  <2> QED BY SMT, <1>2, <2>1, PromotedDiffers DEF BaseOK, Trees, New, Old
<1>7. /\ FileType' /\ target'[f] = c /\ Seen(f)' = Seen(f) \cup {c}
      /\ \A g \in Files \ {f} : target'[g] = target[g] /\ Seen(g)' = Seen(g)
  <2>1. PutFile(f, c, NoFile) /\ NoFile \in Contents \cup {Partial}
    BY <1>4 DEF Rename, Contents
  <2> QED BY <1>6, <2>1, PutFileEffect DEF IInv, DiskOK
<1>8. /\ Seen(f) \subseteq {Old(p)[f], New(p)[f]} /\ \A names \in parentImg : p \in names
  <2>1. CASE run.mode = "apply"
    BY <1>1, <1>2, <2>1, BothDirections DEF ApplyingOK, Only
  <2>2. CASE run.mode = "rollback"
    <3>1. target[f] = New(p)[f]
      BY <1>1, <2>2, BothDirections DEF UndoingOK
    <3> QED BY <1>2, <1>5, <3>1 DEF FilesOK, Only
  <2> QED BY <1>2, <2>1, <2>2
<1>9. /\ DiskOK'
      /\ \A q \in Promotions : CanRollBack(q)' <=> CanRollBack(q)
      /\ \A q \in Promotions : Old(q)' = Old(q) /\ New(q)' = New(q) /\ Logged(q)' = Logged(q)
  <2>1. c \in {Old(p)[f], New(p)[f]}
    OBVIOUS
  <2>2. Replaced(p, f, c)
    BY <1>2, <1>3, <1>7, <1>8, <2>1 DEF Replaced
  <2> QED BY <1>2, <1>7, <2>2, FileReplaced DEF IInv
<1>10. /\ ControlType' /\ Waiting'
      /\ holder' = holder /\ run'.step = "sync_file" /\ run'.mode = run.mode /\ run'.txn = p
      /\ run'.row = run.row /\ run'.code = run.code /\ File' = f
  BY <1>2, <1>9, GoesTo DEF Steps, Rename
<1>11. run.mode = "apply" => ApplyingOK(p)'
  <2>1. run.mode = "apply" => ApplyingOK(p)
    BY <1>1, BothDirections
  <2> QED BY <1>1, <1>2, <1>3, <1>7, <1>9, <1>10, <2>1 DEF ApplyingOK, Only, Intact, Journalling
<1>12. run.mode = "rollback" => UndoingOK(p)'
  <2>1. run.mode = "rollback" => UndoingOK(p)
    BY <1>1, BothDirections
  <2>2. ASSUME run.mode = "rollback" PROVE UndoingOK(p)'
    <3>1. visible' = {p} /\ Intact(p)'
      BY <1>2, <1>3, <1>9 DEF Intact
    <3>2. (run.row = 1 => Only(Shared, Old(p)[Shared]))'
      BY <1>2, <1>7, <1>9, <1>10, <2>1, <2>2 DEF UndoingOK, Only
    <3>3. (run.row = 2 /\ target[p] = Old(p)[p] => Only(p, Old(p)[p]))'
      BY SMT, <1>2, <1>7, <1>9, <1>10, <2>1, <2>2 DEF UndoingOK, Only
    <3>4. target'[f] = Old(p)'[f]
      BY <1>2, <1>7, <1>9, <2>2
    <3> QED BY <1>10, <3>1, <3>2, <3>3, <3>4 DEF UndoingOK, Undoing
  <2> QED BY <2>2
<1>13. RunOK'
  <2>1. ControlOK(p)
    BY <1>1, BothDirections
  <2> QED BY <1>1, <1>2, <1>10, <1>11, <1>12, <2>1
          DEF RunOK, ControlOK, Preparing, Undoing, Writing, Journalling, Cleaning
<1> QED BY <1>9, <1>10, <1>13 DEF IInv

\* One row is undone, and it and the rows after it come back old.
LEMMA NextRowUndone ==
  ASSUME IInv, holder # Nobody, run.mode = "rollback", ControlOK(run.txn),
         NEW p \in Promotions, p = run.txn, visible' = {p}, Intact(p)',
         DiskOK', \A q \in Promotions : CanRollBack(q)' => CanRollBack(q),
         Only(Shared, Old(p)[Shared])',
         (target[p] = Old(p)[p] => Only(p, Old(p)[p]))',
         run.row = 1 => Only(p, Old(p)[p])',
         NextUndoneRow, StillRunning
  PROVE  IInv'
<1>1. run \in Runs /\ run.row \in 1..2
  BY DEF IInv, ControlType, Runs
<1>2. holder' = holder /\ phase' = phase /\ base' = base /\ answer' = answer /\ events' = events
  BY DEF StillRunning
<1>3. Waiting'
  BY <1>2 DEF IInv, Waiting, BaseOK, Trees, Files
<1>4. CASE run.row = 1
  <2>1. run' \in Runs /\ run'.step = "clean_stores" /\ run'.mode = "rollback" /\ run'.txn = p
        /\ run'.code = run.code
    BY <1>1, <1>4 DEF NextUndoneRow, Runs, Steps
  <2>2. ControlType'
    BY <1>2, <2>1 DEF IInv, ControlType
  <2>3. CleaningOK(p)'
    <3>1. \A names \in parentImg' : names \subseteq {p}
      <4>1. p \in visible' /\ visible' \in parentImg'
        BY DEF DiskOK, ParentType
      <4> QED BY <4>1 DEF DiskOK, DiskInv
    <3>2. \A f \in {p, Shared} : Only(f, Old(p)[f])'
      BY <1>4
    <3> QED BY <2>1, <3>1, <3>2 DEF CleaningOK
  <2>4. RunOK'
    BY <1>2, <2>1, <2>3 DEF RunOK, ControlOK, Preparing, Undoing, Writing, Journalling, Cleaning
  <2> QED BY <1>3, <2>2, <2>4 DEF IInv
<1>5. CASE run.row = 2
  <2>1. run' \in Runs /\ run'.step = "undo_tmp" /\ run'.mode = "rollback" /\ run'.txn = p
        /\ run'.code = run.code /\ run'.row = 1
    <3>1. run' = [run EXCEPT !.step = "undo_tmp", !.row = run.row - 1]
      BY SMT, <1>5 DEF NextUndoneRow
    <3>2. run.row - 1 = 1 /\ 1 \in 1..2 /\ "undo_tmp" \in Steps
      BY SMT, <1>5 DEF Steps
    <3>3. /\ run' \in Runs
          /\ run' = [step |-> "undo_tmp", mode |-> run.mode, txn |-> run.txn, row |-> 1,
                     code |-> run.code]
      BY <1>1, <3>1, <3>2, OtherRow
    <3> QED BY <3>3
  <2>2. ControlType'
    BY <1>2, <2>1 DEF IInv, ControlType
  <2>3. File' = p
    BY SMT, <2>1 DEF File, Rows
  <2>4. UndoingOK(p)'
    BY <2>1, <2>3 DEF UndoingOK
  <2>5. RunOK'
    BY <1>2, <2>1, <2>4 DEF RunOK, ControlOK, Preparing, Undoing, Writing, Journalling, Cleaning
  <2> QED BY <1>3, <2>2, <2>5 DEF IInv
<1> QED BY SMT, <1>1, <1>4, <1>5

LEMMA SyncRowStep ==
  ASSUME IInv, SyncRow
  PROVE  IInv'
<1>1. run.step = "sync_file" /\ run.step \in Writing
  BY DEF SyncRow, At, Writing
<1> PICK p \in Promotions : p = run.txn
  BY <1>1, BothDirections
<1> PICK f \in Files : f = File
  BY <1>1, BothDirections
<1>2. /\ holder # Nobody /\ f \in {p, Shared} /\ p \in Files /\ Shared \in Files
      /\ run.mode \in {"apply", "rollback"} /\ visible = {p} /\ Intact(p) /\ ControlOK(p)
      /\ run.row \in 1..2 /\ f = (IF run.row = 1 THEN p ELSE Shared) /\ p # Shared
  BY <1>1, BothDirections
<1>3. UNCHANGED <<txn, rootImg, storeImg, visible, parentImg>>
  BY DEF SyncRow, NoRootCall, NoStoreCall, NoParentCall
<1>4. /\ DiskOK' /\ target' = target /\ Seen(f)' = {target[f]}
      /\ \A g \in Files \ {f} : Seen(g)' = Seen(g)
      /\ \A q \in Promotions : CanRollBack(q)' <=> CanRollBack(q)
      /\ \A q \in Promotions : Old(q)' = Old(q) /\ New(q)' = New(q) /\ Logged(q)' = Logged(q)
  BY <1>3, FileSynced DEF SyncRow, IInv
<1>8. Intact(p)' /\ visible' = {p}
  BY <1>2, <1>3, <1>4 DEF Intact
<1>9. CASE run.mode = "apply"
  <2>1. ApplyingOK(p)
    BY <1>1, <1>9, BothDirections
  <2>2. /\ ControlType' /\ Waiting'
        /\ holder' = holder /\ run'.step = "journal_next" /\ run'.mode = run.mode /\ run'.txn = p
        /\ run'.row = run.row /\ run'.code = run.code /\ File' = f
    BY <1>2, <1>4, <1>9, GoesTo DEF Steps, SyncRow
  <2>3. ApplyingOK(p)'
    <3>1. /\ parentImg = {{p}} /\ target[f] = New(p)[f]
          /\ run.row = 2 => Only(p, New(p)[p])
          /\ run.row = 1 => Only(Shared, Old(p)[Shared])
      BY <1>1, <2>1 DEF ApplyingOK
    <3>2. Only(f, New(p)[f])'
      BY <1>4, <3>1 DEF Only
    <3>3. /\ run.row = 2 => Only(p, New(p)[p])'
          /\ run.row = 1 => Only(Shared, Old(p)[Shared])'
      <4>1. /\ run.row = 2 => p \in Files \ {f}
            /\ run.row = 1 => Shared \in Files \ {f}
        BY SMT, <1>2
      <4> QED BY <1>4, <3>1, <4>1, OnlyKept
    <3> QED BY <1>3, <1>8, <2>2, <3>1, <3>2, <3>3 DEF ApplyingOK, Journalling
  <2>4. RunOK'
    BY <1>1, <1>2, <1>9, <2>2, <2>3
       DEF RunOK, ControlOK, Preparing, Undoing, Writing, Journalling, Cleaning
  <2> QED BY <1>4, <2>2, <2>4 DEF IInv
<1>10. CASE run.mode = "rollback"
  <2>1. UndoingOK(p)
    BY <1>1, <1>10, BothDirections
  <2>2. Seen(f)' \subseteq {Old(p)[f]}
    BY <1>1, <1>4, <2>1 DEF UndoingOK
  <2>3. /\ Only(Shared, Old(p)[Shared])'
        /\ (target[p] = Old(p)[p] => Only(p, Old(p)[p]))'
        /\ run.row = 1 => Only(p, Old(p)[p])'
    <3>1. /\ run.row = 1 => Only(Shared, Old(p)[Shared])
          /\ run.row = 2 /\ target[p] = Old(p)[p] => Only(p, Old(p)[p])
      BY <2>1 DEF UndoingOK
    <3>2. Only(f, Old(p)[f])'
      BY <1>4, <2>2 DEF Only
    <3>3. CASE run.row = 1
      <4>1. f = p /\ Shared \in Files \ {f}
        BY <1>2, <3>3
      <4> QED BY <1>4, <3>1, <3>2, <3>3, <4>1, OnlyKept
    <3>4. CASE run.row = 2
      <4>1. run.row # 1 /\ f = Shared /\ p \in Files \ {f}
        BY SMT, <1>2, <3>4
      <4> QED BY <1>4, <3>1, <3>2, <3>4, <4>1, OnlyKept
    <3> QED BY SMT, <1>2, <3>3, <3>4
  <2>4. NextUndoneRow /\ StillRunning
    BY <1>10 DEF SyncRow
  <2> QED BY <1>2, <1>4, <1>8, <1>10, <2>3, <2>4, NextRowUndone
<1> QED BY <1>2, <1>9, <1>10

\* What holds while the journal is written.
LEMMA WritingJournal ==
  ASSUME IInv, run.step \in Journalling
  PROVE  /\ holder # Nobody /\ run.mode \in {"apply", "finish"} /\ run.txn \in Promotions
         /\ run.mode = "apply" => ApplyingOK(run.txn)
         /\ run.mode = "finish" => FinishingOK(run.txn)
         /\ ControlOK(run.txn) /\ holder = run.txn
         /\ visible = {run.txn} /\ parentImg = {{run.txn}} /\ storeImg[run.txn] \subseteq {TRUE}
         /\ run.step # "journal_sync" => Intact(run.txn)
         /\ run.txn \in Files /\ Shared \in Files /\ run.txn # Shared
         /\ run.row \in 1..2 /\ File = IF run.row = 1 THEN run.txn ELSE Shared
<1>1. holder # Nobody
  BY AtStep DEF Journalling
<1>2. ControlOK(run.txn) /\ run.txn \in Promotions
  BY <1>1, CurrentFile DEF IInv, RunOK
<1>3. run.mode \in {"apply", "finish"}
  BY <1>1, <1>2, AtStep DEF ControlOK, Undoing, Writing, Journalling, Cleaning
<1>4. run.row \in 1..2 /\ File = IF run.row = 1 THEN run.txn ELSE Shared
  BY SMT, <1>1, CurrentFile DEF IInv
<1>5. CASE run.mode = "apply"
  <2>1. ApplyingOK(run.txn) /\ holder = run.txn
    BY <1>5, Applying
  <2> QED BY <1>1, <1>2, <1>4, <1>5, <2>1, DistinctAssumption
          DEF ApplyingOK, Journalling, Intact, Files
<1>6. CASE run.mode = "finish"
  <2>1. FinishingOK(run.txn)
    BY <1>1, <1>6 DEF IInv, RunOK
  <2> QED BY <1>1, <1>2, <1>4, <1>6, <2>1, DistinctAssumption
          DEF FinishingOK, Journalling, Intact, Files
<1> QED BY <1>3, <1>5, <1>6

LEMMA JournalNextStep ==
  ASSUME IInv, JournalNext
  PROVE  IInv'
<1>1. run.step = "journal_next" /\ run.step \in Journalling
  BY DEF JournalNext, At, Journalling
<1> PICK p \in Promotions : p = run.txn
  BY <1>1, WritingJournal
<1>2. UNCHANGED <<target, tmp, fileImg, storeImg, visible, parentImg>>
  BY DEF JournalNext, NoFileCall, NoStoreCall, NoParentCall
<1>3. /\ holder # Nobody /\ File \in Files /\ p \in Files /\ Shared \in Files /\ ControlOK(p)
      /\ run.mode \in {"apply", "finish"}
  BY <1>1, WritingJournal
<1> PICK j : j = txn[p].journal
  OBVIOUS
<1>4. j \in Journals /\ j.state \in Logged(p)
  BY CurrentSeen DEF IInv, DiskOK, TxnType
<1>5. /\ TxnType' /\ txn'[p].journal = j /\ Logged(p)' = Logged(p) \cup {j.state}
      /\ \A q \in Promotions \ {p} : Logged(q)' = Logged(q)
      /\ \A q \in Promotions : Old(q)' = Old(q) /\ New(q)' = New(q)
  <2>1. PutRoot(p, j, TRUE) /\ UNCHANGED storeImg
    BY <1>2 DEF JournalNext
  <2> QED BY <1>4, <2>1, PutRootEffect DEF IInv, DiskOK
<1>6. /\ DiskOK'
      /\ \A q \in Promotions : CanRollBack(q)' <=> CanRollBack(q)
      /\ \A f \in Files : Seen(f)' = Seen(f)
  BY <1>2, <1>4, <1>5, JournalWritten DEF IInv
<1>7. /\ ControlType' /\ Waiting'
      /\ holder' = holder /\ run'.step = "journal_rename" /\ run'.mode = run.mode /\ run'.txn = p
      /\ run'.row = run.row /\ run'.code = run.code /\ File' = File
  BY <1>3, <1>6, GoesTo DEF Steps, JournalNext
<1>8. Logged(p)' = Logged(p)
  BY <1>4, <1>5
<1>9. run.mode = "apply" => ApplyingOK(p)'
  <2>1. run.mode = "apply" => ApplyingOK(p)
    BY <1>1, WritingJournal
  <2> QED BY <1>1, <1>2, <1>3, <1>5, <1>6, <1>7, <1>8, <2>1
          DEF ApplyingOK, Only, Intact, Journalling
<1>10. run.mode = "finish" => FinishingOK(p)'
  <2> SUFFICES ASSUME run.mode = "finish" PROVE FinishingOK(p)'
    OBVIOUS
  <2>1. FinishingOK(p)
    BY <1>1, WritingJournal
  <2>2. (\A f \in {p, Shared} : Only(f, New(p)[f]))'
    <3>1. \A f \in {p, Shared} : Only(f, New(p)[f]) /\ Seen(f)' = Seen(f)
      BY <1>6, <2>1 DEF FinishingOK, Files
    <3> QED BY <1>5, <3>1, OnlyKept
  <2>3. Intact(p)' /\ txn'[p].journal.replaced = 2
    BY <1>1, <1>2, <1>5, <1>8, <2>1 DEF FinishingOK, Intact
  <2> QED BY <1>2, <1>7, <2>1, <2>2, <2>3 DEF FinishingOK
<1>11. RunOK'
  BY <1>1, <1>3, <1>7, <1>9, <1>10
     DEF RunOK, ControlOK, Preparing, Undoing, Writing, Journalling, Cleaning
<1> QED BY <1>6, <1>7, <1>11 DEF IInv

LEMMA JournalRenameStep ==
  ASSUME IInv, JournalRename
  PROVE  IInv'
<1>1. run.step = "journal_rename" /\ run.step \in Journalling
  BY DEF JournalRename, At, Journalling
<1> PICK p \in Promotions : p = run.txn
  BY <1>1, WritingJournal
<1>2. UNCHANGED <<target, tmp, fileImg, storeImg, visible, parentImg>>
  BY DEF JournalRename, NoFileCall, NoStoreCall, NoParentCall
<1>3. /\ holder # Nobody /\ File \in Files /\ p \in Files /\ Shared \in Files /\ ControlOK(p)
      /\ run.mode \in {"apply", "finish"} /\ Intact(p) /\ visible = {p} /\ run.row \in 1..2
      /\ run.mode = "apply" => ApplyingOK(p)
      /\ run.mode = "finish" => FinishingOK(p)
  BY <1>1, WritingJournal
<1> PICK j : j = IF run.mode = "apply" THEN Journal("applying", run.row)
                 ELSE Journal("validated", txn[p].journal.replaced)
  OBVIOUS
<1>4. /\ j \in Journals
      /\ j.state = IF run.mode = "apply" THEN "applying" ELSE "validated"
  <2>1. run.mode = "finish" => txn[p].journal.replaced = 2
    BY <1>1, <1>3 DEF FinishingOK
  <2>2. \A n \in 0..2 : Journal("applying", n) \in Journals
    BY DEF Journals
  <2>3. Journal("validated", 2) \in Journals
    BY DEF Journals
  <2>4. \A n : Journal("applying", n).state = "applying" /\ Journal("validated", n).state = "validated"
    BY DEF Journal
  <2> QED BY SMT, <1>3, <2>1, <2>2, <2>3, <2>4
<1>5. /\ TxnType' /\ txn'[p].journal = j /\ Logged(p)' = Logged(p) \cup {j.state}
      /\ \A q \in Promotions \ {p} : Logged(q)' = Logged(q)
      /\ \A q \in Promotions : Old(q)' = Old(q) /\ New(q)' = New(q)
  <2>1. PutRoot(p, j, FALSE) /\ UNCHANGED storeImg
    BY <1>2 DEF JournalRename
  <2> QED BY <1>4, <2>1, PutRootEffect DEF IInv, DiskOK
<1>6. /\ DiskOK'
      /\ \A q \in Promotions : CanRollBack(q)' <=> CanRollBack(q)
      /\ \A f \in Files : Seen(f)' = Seen(f)
  <2>1. CASE run.mode = "apply"
    <3>1. j.state \in Logged(p)
      <4>1. CanRollBack(p) /\ j.state = "applying"
        BY <1>3, <1>4, <2>1, IntactIsOpen DEF IInv
      <4> QED BY <4>1, RollBackDef
    <3> QED BY <1>2, <1>5, <3>1, JournalWritten DEF IInv
  <2>2. CASE run.mode = "finish"
    <3>1. j.state # "applying" /\ \A f \in {p, Shared} : Only(f, New(p)[f])
      BY <1>3, <1>4, <2>2 DEF FinishingOK
    <3> QED BY <1>2, <1>5, <3>1, JournalWritten DEF IInv
  <2> QED BY <1>3, <2>1, <2>2
<1>7. /\ ControlType' /\ Waiting'
      /\ holder' = holder /\ run'.step = "journal_sync" /\ run'.mode = run.mode /\ run'.txn = p
      /\ run'.row = run.row /\ run'.code = run.code /\ File' = File
  BY <1>3, <1>6, GoesTo DEF Steps, JournalRename
<1>8. run.mode = "apply" => ApplyingOK(p)'
  <2>1. run.mode = "apply" => Logged(p)' \subseteq {"applying"}
    BY <1>3, <1>4, <1>5 DEF Intact
  <2> QED BY <1>1, <1>2, <1>3, <1>5, <1>6, <1>7, <2>1 DEF ApplyingOK, Only, Intact, Journalling
<1>9. run.mode = "finish" => FinishingOK(p)'
  <2> SUFFICES ASSUME run.mode = "finish" PROVE FinishingOK(p)'
    OBVIOUS
  <2>1. (\A f \in {p, Shared} : Only(f, New(p)[f]))'
    <3>1. \A f \in {p, Shared} : Only(f, New(p)[f]) /\ Seen(f)' = Seen(f)
      BY <1>3, <1>6 DEF FinishingOK, Files
    <3> QED BY <1>5, <3>1, OnlyKept
  <2>2. txn'[p].journal.state = "validated"
    BY <1>4, <1>5
  <2> QED BY <1>2, <1>3, <1>7, <2>1, <2>2 DEF FinishingOK
<1>10. RunOK'
  BY <1>1, <1>3, <1>7, <1>8, <1>9
     DEF RunOK, ControlOK, Preparing, Undoing, Writing, Journalling, Cleaning
<1> QED BY <1>6, <1>7, <1>10 DEF IInv

LEMMA JournalSyncStep ==
  ASSUME IInv, JournalSync
  PROVE  IInv'
<1>1. run.step = "journal_sync" /\ run.step \in Journalling
  BY DEF JournalSync, At, Journalling
<1> PICK p \in Promotions : p = run.txn
  BY <1>1, WritingJournal
<1>2. /\ UNCHANGED <<target, tmp, fileImg, storeImg, visible, parentImg>>
      /\ UNCHANGED <<holder, phase, base, answer, events>>
  BY DEF JournalSync, NoFileCall, NoStoreCall, NoParentCall, StillRunning
<1>3. /\ holder # Nobody /\ File \in Files /\ p \in Files /\ Shared \in Files /\ ControlOK(p)
      /\ run.mode \in {"apply", "finish"} /\ visible = {p} /\ parentImg = {{p}} /\ holder = p
      /\ run.row \in 1..2 /\ File = (IF run.row = 1 THEN p ELSE Shared) /\ p # Shared
      /\ run.mode = "apply" => ApplyingOK(p)
      /\ run.mode = "finish" => FinishingOK(p)
  BY <1>1, WritingJournal
<1>4. /\ TxnType' /\ txn' = txn /\ Logged(p)' = {txn[p].journal.state}
      /\ \A q \in Promotions \ {p} : Logged(q)' = Logged(q)
      /\ \A q \in Promotions : Old(q)' = Old(q) /\ New(q)' = New(q)
  BY <1>2, SyncRootEffect DEF JournalSync, IInv, DiskOK
<1>5. /\ txn[p].journal.state \in Logged(p) /\ \A f \in Files : target[f] \in Seen(f)
      /\ \A q \in Promotions : Logged(q)' \subseteq Logged(q)
  BY <1>4, CurrentSeen DEF IInv, DiskOK
<1>6. FileType' /\ ParentType' /\ \A f \in Files : Seen(f)' = Seen(f)
  BY <1>2 DEF IInv, DiskOK, FileType, ParentType, Seen
<1>7. \A q \in Promotions : CanRollBack(q) => q = p
  BY <1>3, RollBackDef
<1>8. /\ DiskOK'
      /\ \A q \in Promotions : CanRollBack(q)' => CanRollBack(q)
  <2>1. \A f \in Files : Only(f, target[f])'
                         \/ \E q \in Promotions : CanRollBack(q)' /\ f \in {q, Shared}
    <3>1. CASE run.mode = "apply"
      <4>1. CanRollBack(p)'
        <5>1. Logged(p)' = {"applying"} /\ CanRollBack(p)
          BY <1>3, <1>4, <1>5, <3>1, IntactIsOpen DEF ApplyingOK, Intact, IInv
        <5> QED BY <1>2, <5>1, RollBackDef
      <4> QED BY SMT, <1>2, <1>6, <1>7, <4>1 DEF IInv, DiskOK, DiskInv, Only
    <3>2. CASE run.mode = "finish"
      <4>1. Seen(p) \subseteq {target[p]} /\ Seen(Shared) \subseteq {target[Shared]}
        BY <1>3, <1>5, <3>2 DEF FinishingOK, Only
      <4> QED BY SMT, <1>2, <1>6, <1>7, <4>1 DEF IInv, DiskOK, DiskInv, Only
    <3> QED BY <1>3, <3>1, <3>2
  <2> QED BY <1>2, <1>4, <1>5, <1>6, <2>1, DiskShrinks DEF IInv
<1>9. Waiting'
  BY <1>2, <1>8 DEF IInv, Waiting, BaseOK, Trees, Files
<1>10. run \in Runs
  BY <1>3 DEF IInv, ControlType
<1>11. CASE run.mode = "finish"
  <2>1. GoTo("clean_stores") /\ StillRunning
    BY <1>11 DEF JournalSync, GoTo
  <2>2. /\ ControlType'
        /\ run'.step = "clean_stores" /\ run'.mode = run.mode /\ run'.txn = p
        /\ run'.row = run.row /\ run'.code = run.code
    BY <1>3, <1>8, <2>1, GoesTo DEF Steps
  <2>3. CleaningOK(p)'
    BY <1>1, <1>2, <1>3, <1>4, <1>11, <2>2 DEF CleaningOK, FinishingOK
  <2>4. RunOK'
    BY <1>2, <1>3, <1>11, <2>2, <2>3
       DEF RunOK, ControlOK, Preparing, Undoing, Writing, Journalling, Cleaning
  <2> QED BY <1>8, <1>9, <2>2, <2>4 DEF IInv
<1>12. CASE run.mode = "apply"
  <2>1. Logged(p)' \subseteq {"applying"} /\ Intact(p)'
    BY <1>2, <1>3, <1>4, <1>5, <1>12 DEF ApplyingOK, Intact
  <2>2. CASE run.row = 1
    <3>1. run' \in Runs /\ run'.step = "create_tmp" /\ run'.mode = "apply" /\ run'.txn = p
          /\ run'.code = run.code /\ run'.row = 2
      <4>1. run' = [run EXCEPT !.step = "create_tmp", !.row = run.row + 1]
        BY SMT, <1>12, <2>2 DEF JournalSync, Rows
      <4>2. run.row + 1 = 2 /\ 2 \in 1..2 /\ "create_tmp" \in Steps
        BY SMT, <2>2 DEF Steps
      <4>3. /\ run' \in Runs
            /\ run' = [step |-> "create_tmp", mode |-> run.mode, txn |-> run.txn, row |-> 2,
                       code |-> run.code]
        BY <1>10, <4>1, <4>2, OtherRow
      <4> QED BY <1>12, <4>3
    <3>2. File' = Shared
      BY SMT, <3>1 DEF File, Rows
    <3>3. ApplyingOK(p)'
      BY <1>1, <1>2, <1>3, <1>4, <1>6, <1>12, <2>1, <2>2, <3>1, <3>2
         DEF ApplyingOK, Only, Journalling
    <3>4. ControlType'
      BY <1>2, <1>3, <3>1 DEF IInv, ControlType
    <3>5. RunOK'
      BY <1>2, <1>3, <1>12, <3>1, <3>3
         DEF RunOK, ControlOK, Preparing, Undoing, Writing, Journalling, Cleaning
    <3> QED BY <1>8, <1>9, <3>4, <3>5 DEF IInv
  <2>3. CASE run.row = 2
    <3>1. GoTo("validate") /\ StillRunning
      BY SMT, <1>12, <2>3 DEF JournalSync, GoTo, Rows
    <3>2. /\ ControlType' /\ File' = File
          /\ run'.step = "validate" /\ run'.mode = run.mode /\ run'.txn = p
          /\ run'.row = run.row /\ run'.code = run.code
      BY <1>3, <1>8, <3>1, GoesTo DEF Steps
    <3>3. ApplyingOK(p)'
      <4>1. /\ Only(p, New(p)[p]) /\ Only(File, New(p)[File])
            /\ visible = {p} /\ parentImg = {{p}}
        BY <1>1, <1>3, <1>12, <2>3 DEF ApplyingOK, Journalling
      <4>2. (Only(p, New(p)[p]) /\ Only(File, New(p)[File]))'
        BY <1>2, <1>3, <1>4, <1>6, <3>2, <4>1, OnlyKept
      <4>3. run.row # 1
        BY SMT, <2>3
      <4> QED BY <1>2, <2>1, <2>3, <3>2, <4>1, <4>2, <4>3 DEF ApplyingOK, Journalling
    <3>4. RunOK'
      BY <1>2, <1>3, <1>12, <3>2, <3>3
         DEF RunOK, ControlOK, Preparing, Undoing, Writing, Journalling, Cleaning
    <3> QED BY <1>8, <1>9, <3>2, <3>4 DEF IInv
  <2> QED BY SMT, <1>3, <2>2, <2>3
<1> QED BY <1>3, <1>11, <1>12

LEMMA ValidateStep ==
  ASSUME IInv, Validate
  PROVE  IInv'
<1>1. run.step = "validate"
  BY DEF Validate, At
<1> PICK p \in Promotions : p = run.txn
  BY <1>1, Applying
<1>2. /\ holder # Nobody /\ p \in Files /\ Shared \in Files /\ ControlOK(p) /\ ApplyingOK(p)
      /\ run.mode = "apply" /\ holder = p /\ run \in Runs
  BY <1>1, Applying DEF IInv, ControlType
<1>3. /\ DiskOK' /\ \A q \in Promotions : CanRollBack(q)' <=> CanRollBack(q)
      /\ \A q \in Promotions : Old(q)' = Old(q) /\ New(q)' = New(q) /\ Logged(q)' = Logged(q)
      /\ \A f \in Files : Seen(f)' = Seen(f)
      /\ UNCHANGED <<target, txn, storeImg, visible, parentImg>>
  BY DiskUnchanged DEF IInv, Validate, disk
<1>4. CASE Release("recovery_required") /\ UNCHANGED events
  BY <1>2, <1>3, <1>4, Releases DEF Answers, IInv, ControlType
<1>5. CASE StartRollback("identity_mismatch")
  <2>1. events' \in 0..MaxEvents
    BY <1>5 DEF StartRollback, StillRunning, IInv, ControlType
  <2> QED BY <1>1, <1>2, <1>3, <1>5, <2>1, StartsRollback DEF StartRollback, StillRunning, Preparing
<1>6. CASE /\ txn[p].journal.replaced = Len(Rows(p))
           /\ run' = [run EXCEPT !.step = "journal_next", !.mode = "finish", !.code = "passed"]
           /\ StillRunning
  <2>1. /\ run' \in Runs
        /\ run'.step = "journal_next" /\ run'.mode = "finish" /\ run'.txn = p /\ run'.code = "passed"
    <3>1. "journal_next" \in Steps /\ "finish" \in Modes /\ "passed" \in Codes
      BY DEF Steps, Modes, Codes
    <3>2. /\ run' \in Runs
          /\ run' = [step |-> "journal_next", mode |-> "finish", txn |-> run.txn,
                     row |-> run.row, code |-> "passed"]
      <4>1. run \in Runs /\ run' = [run EXCEPT !.step = "journal_next", !.mode = "finish", !.code = "passed"]
        BY <1>2, <1>6
      <4> QED BY <3>1, <4>1, OtherMode
    <3>3. run'.step = "journal_next" /\ run'.mode = "finish" /\ run'.txn = run.txn /\ run'.code = "passed"
      BY <3>2
    <3> QED BY <3>2, <3>3
  <2>2. UNCHANGED <<holder, phase, base, answer, events>> /\ txn[p].journal.replaced = 2
    BY <1>6 DEF StillRunning, Rows
  <2>3. ControlType' /\ Waiting'
    <3>1. ControlType'
      BY <1>2, <2>1, <2>2 DEF IInv, ControlType
    <3>2. Waiting'
      BY <1>3, <2>2 DEF IInv, Waiting, BaseOK, Trees, Files
    <3> QED BY <3>1, <3>2
  <2>4. FinishingOK(p)'
    <3>1. run.row = 2 /\ File = Shared
      BY <1>1, <1>2, CurrentFile DEF ApplyingOK, IInv
    <3>2. \A f \in {p, Shared} : Only(f, New(p)[f])
      BY <1>1, <1>2, <3>1 DEF ApplyingOK
    <3>3. (\A f \in {p, Shared} : Only(f, New(p)[f]))'
      BY SMT, <1>2, <1>3, <3>2 DEF Only
    <3> QED BY <1>1, <1>2, <1>3, <2>1, <2>2, <3>3 DEF FinishingOK, ApplyingOK, Intact
  <2>5. RunOK'
    BY <1>2, <2>1, <2>2, <2>4
       DEF RunOK, ControlOK, Preparing, Undoing, Writing, Journalling, Cleaning
  <2> QED BY <1>3, <2>3, <2>5 DEF IInv
<1> QED BY <1>4, <1>5, <1>6 DEF Validate

-----------------------------------------------------------------------------
(* rollback_transaction keeps the invariant. *)

LEMMA UndoTmpStep ==
  ASSUME IInv, UndoTmp
  PROVE  IInv'
<1>1. run.step = "undo_tmp" /\ run.step \in Undoing
  BY DEF UndoTmp, At, Undoing
<1> PICK p \in Promotions : p = run.txn
  BY <1>1, RollingBackFacts
<1>2. /\ holder # Nobody /\ File \in Files /\ p \in Files /\ Shared \in Files
      /\ UndoingOK(p) /\ ControlOK(p) /\ run.mode = "rollback"
  BY <1>1, RollingBackFacts
<1>3. UNCHANGED <<txn, rootImg, storeImg, visible, parentImg>>
  BY DEF UndoTmp, NoRootCall, NoStoreCall, NoParentCall
<1>4. CASE Release(Unsettled) /\ UNCHANGED events /\ NoFileCall
  <2>1. UNCHANGED disk
    BY <1>3, <1>4 DEF NoFileCall, disk
  <2> QED BY <1>2, <1>4, <2>1, DiskUnchanged, Releases, UnsettledAnswer DEF IInv, ControlType
<1>5. CASE /\ \/ GoTo("undo_file") /\ NoFileCall
              \/ GoTo("undo_sync") /\ PutFile(File, target[File], NoFile)
           /\ StillRunning
  <2>1. FileType' /\ target' = target /\ \A f \in Files : Seen(f)' = Seen(f)
    <3>1. CASE NoFileCall
      BY <3>1 DEF NoFileCall, IInv, DiskOK, FileType, Seen
    <3>2. CASE PutFile(File, target[File], NoFile)
      <4>1. target[File] \in Contents /\ target[File] \in Seen(File) /\ target' = target
            /\ NoFile \in Contents
        BY <1>2, <3>2, CurrentSeen DEF IInv, DiskOK, FileType, Trees, PutFile, Contents
      <4> QED BY SMT, <1>2, <3>2, <4>1, PutFileEffect DEF IInv, DiskOK
    <3> QED BY <1>5, <3>1, <3>2
  <2>2. /\ DiskOK'
        /\ \A q \in Promotions : CanRollBack(q)' <=> CanRollBack(q)
        /\ \A q \in Promotions : Old(q)' = Old(q) /\ New(q)' = New(q) /\ Logged(q)' = Logged(q)
    BY <1>3, <2>1, TemporaryOnly DEF IInv
  <2>3. \E s \in {"undo_file", "undo_sync"} : GoTo(s)
    BY <1>5
  <2> PICK s \in {"undo_file", "undo_sync"} : GoTo(s)
    BY <2>3
  <2>4. /\ ControlType' /\ Waiting'
        /\ holder' = holder /\ run'.step = s /\ run'.mode = run.mode /\ run'.txn = p
        /\ run'.row = run.row /\ run'.code = run.code /\ File' = File
    BY <1>2, <1>5, <2>2, GoesTo DEF Steps
  <2>5. UndoingOK(p)'
    BY <1>1, <1>2, <1>3, <2>1, <2>2, <2>4 DEF UndoingOK, Only, Intact, Undoing
  <2>6. RunOK'
    BY <1>2, <2>4, <2>5 DEF RunOK, ControlOK, Preparing, Undoing, Writing, Journalling, Cleaning
  <2> QED BY <2>2, <2>4, <2>6 DEF IInv
<1> QED BY <1>4, <1>5 DEF UndoTmp

LEMMA UndoSyncStep ==
  ASSUME IInv, UndoSync
  PROVE  IInv'
<1>1. run.step = "undo_sync" /\ run.step \in Undoing
  BY DEF UndoSync, At, Undoing
<1> PICK p \in Promotions : p = run.txn
  BY <1>1, RollingBackFacts
<1> PICK f \in Files : f = File
  BY <1>1, RollingBackFacts
<1>2. /\ holder # Nobody /\ f \in {p, Shared} /\ p \in Files /\ Shared \in Files
      /\ UndoingOK(p) /\ ControlOK(p) /\ run.mode = "rollback"
  BY <1>1, RollingBackFacts
<1>3. UNCHANGED <<txn, rootImg, storeImg, visible, parentImg>>
  BY DEF UndoSync, NoRootCall, NoStoreCall, NoParentCall
<1>4. /\ DiskOK' /\ target' = target /\ Seen(f)' = {target[f]}
      /\ \A g \in Files \ {f} : Seen(g)' = Seen(g)
      /\ \A q \in Promotions : CanRollBack(q)' <=> CanRollBack(q)
      /\ \A q \in Promotions : Old(q)' = Old(q) /\ New(q)' = New(q) /\ Logged(q)' = Logged(q)
  BY <1>3, FileSynced DEF UndoSync, IInv
<1>5. /\ ControlType' /\ Waiting'
      /\ holder' = holder /\ run'.step = "undo_file" /\ run'.mode = run.mode /\ run'.txn = p
      /\ run'.row = run.row /\ run'.code = run.code /\ File' = f
  BY <1>2, <1>4, GoesTo DEF Steps, UndoSync
<1>6. UndoingOK(p)'
  <2>1. \A g \in Files : Seen(g)' \subseteq Seen(g)
    BY <1>4, CurrentSeen DEF IInv, DiskOK
  <2> QED BY <1>1, <1>2, <1>3, <1>4, <1>5, <2>1 DEF UndoingOK, Only, Intact, Undoing
<1>7. RunOK'
  BY <1>2, <1>5, <1>6 DEF RunOK, ControlOK, Preparing, Undoing, Writing, Journalling, Cleaning
<1> QED BY <1>4, <1>5, <1>7 DEF IInv

LEMMA UndoFileStep ==
  ASSUME IInv, UndoFile
  PROVE  IInv'
<1>1. run.step = "undo_file" /\ run.step \in Undoing
  BY DEF UndoFile, At, Undoing
<1> PICK p \in Promotions : p = run.txn
  BY <1>1, RollingBackFacts
<1> PICK f \in Files : f = File
  BY <1>1, RollingBackFacts
<1>2. /\ holder # Nobody /\ f \in {p, Shared} /\ p \in Files /\ Shared \in Files /\ p # Shared
      /\ UndoingOK(p) /\ ControlOK(p) /\ run.mode = "rollback" /\ visible = {p} /\ Intact(p)
      /\ run.row \in 1..2 /\ f = (IF run.row = 1 THEN p ELSE Shared)
  BY <1>1, RollingBackFacts
<1>3. UNCHANGED <<txn, rootImg, storeImg, visible, parentImg>>
  BY DEF UndoFile, NoRootCall, NoStoreCall, NoParentCall
<1>4. /\ \/ Release(Unsettled) /\ UNCHANGED events /\ NoFileCall
         \/ target[f] = Old(p)[f] /\ NextUndoneRow /\ NoFileCall /\ StillRunning
         \/ /\ target[f] = New(p)[f] /\ Old(p)[f] = NoFile /\ StillRunning
            /\ PutFile(f, NoFile, tmp[f]) /\ GoTo("sync_file")
         \/ target[f] = New(p)[f] /\ GoTo("create_tmp") /\ NoFileCall /\ StillRunning
  BY DEF UndoFile, IsOurs, Bytes, Old, New
<1>5. ASSUME NoFileCall
      PROVE  /\ DiskOK'
             /\ \A q \in Promotions : CanRollBack(q)' <=> CanRollBack(q)
             /\ \A q \in Promotions : Old(q)' = Old(q) /\ New(q)' = New(q) /\ Logged(q)' = Logged(q)
             /\ \A g \in Files : Seen(g)' = Seen(g)
             /\ target' = target
  BY <1>3, <1>5, DiskUnchanged DEF NoFileCall, disk, IInv
<1>6. CASE Release(Unsettled) /\ UNCHANGED events /\ NoFileCall
  BY <1>2, <1>5, <1>6, Releases, UnsettledAnswer DEF IInv, ControlType
<1>7. CASE target[f] = Old(p)[f] /\ NextUndoneRow /\ NoFileCall /\ StillRunning
  <2>1. visible' = {p} /\ Intact(p)'
    BY <1>2, <1>3, <1>5, <1>7 DEF Intact
  <2>2. /\ Only(Shared, Old(p)[Shared])'
        /\ (target[p] = Old(p)[p] => Only(p, Old(p)[p]))'
        /\ run.row = 1 => Only(p, Old(p)[p])'
    <3>1. /\ Only(f, Old(p)[f])
          /\ run.row = 1 => Only(Shared, Old(p)[Shared])
          /\ run.row = 2 /\ target[p] = Old(p)[p] => Only(p, Old(p)[p])
      BY <1>1, <1>2, <1>7 DEF UndoingOK
    <3>2. \A g \in {p, Shared} : Only(g, Old(p)[g])' <=> Only(g, Old(p)[g])
      BY <1>2, <1>5, <1>7, OnlyKept
    <3>3. (target[p] = Old(p)[p])' <=> target[p] = Old(p)[p]
      BY <1>5, <1>7
    <3>4. CASE run.row = 1
      <4>1. f = p
        BY <1>2, <3>4
      <4> QED BY <3>1, <3>2, <3>4, <4>1
    <3>5. CASE run.row = 2
      <4>1. run.row # 1 /\ f = Shared
        BY SMT, <1>2, <3>5
      <4> QED BY <3>1, <3>2, <3>3, <3>5, <4>1
    <3> QED BY SMT, <1>2, <3>4, <3>5
  <2> QED BY <1>2, <1>5, <1>7, <2>1, <2>2, NextRowUndone
<1>8. CASE /\ target[f] = New(p)[f] /\ Old(p)[f] = NoFile /\ StillRunning
           /\ PutFile(f, NoFile, tmp[f]) /\ GoTo("sync_file")
  <2>1. /\ FileType' /\ target'[f] = NoFile /\ Seen(f)' = Seen(f) \cup {NoFile}
        /\ \A g \in Files \ {f} : target'[g] = target[g] /\ Seen(g)' = Seen(g)
    <3>1. NoFile \in Contents /\ tmp[f] \in Contents \cup {Partial}
      BY DEF Contents, IInv, DiskOK, FileType
    <3> QED BY SMT, <1>8, <3>1, PutFileEffect DEF IInv, DiskOK
  <2>2. Seen(f) \subseteq {Old(p)[f], New(p)[f]} /\ \A names \in parentImg : p \in names
    <3>1. FilesOK(p)
      BY <1>2, IntactIsOpen DEF IInv
    <3> QED BY <1>2, <1>8, <3>1 DEF FilesOK, Only
  <2>3. /\ DiskOK'
        /\ \A q \in Promotions : CanRollBack(q)' <=> CanRollBack(q)
        /\ \A q \in Promotions : Old(q)' = Old(q) /\ New(q)' = New(q) /\ Logged(q)' = Logged(q)
    <3>1. NoFile \in {Old(p)[f], New(p)[f]}
      BY <1>8
    <3>2. Replaced(p, f, NoFile)
      BY <1>2, <1>3, <2>1, <2>2, <3>1 DEF Replaced
    <3> QED BY <1>2, <2>1, <3>2, FileReplaced DEF IInv
  <2>4. /\ ControlType' /\ Waiting'
        /\ holder' = holder /\ run'.step = "sync_file" /\ run'.mode = run.mode /\ run'.txn = p
        /\ run'.row = run.row /\ run'.code = run.code /\ File' = f
    BY <1>2, <1>8, <2>3, GoesTo DEF Steps
  <2>5. UndoingOK(p)'
    <3>1. visible' = {p} /\ Intact(p)'
      BY <1>2, <1>3, <2>3 DEF Intact
    <3>2. (run.row = 1 => Only(Shared, Old(p)[Shared]))'
      <4> SUFFICES ASSUME run.row = 1 PROVE Only(Shared, Old(p)[Shared])'
        BY <2>4
      <4>1. Only(Shared, Old(p)[Shared]) /\ Shared \in Files \ {f}
        BY <1>2 DEF UndoingOK
      <4> QED BY <2>1, <2>3, <4>1 DEF Only
    <3>3. (run.row = 2 /\ target[p] = Old(p)[p] => Only(p, Old(p)[p]))'
      <4> SUFFICES ASSUME run.row = 2, target'[p] = Old(p)'[p] PROVE Only(p, Old(p)[p])'
        BY <2>4
      <4>1. p \in Files \ {f}
        BY SMT, <1>2
      <4>2. target[p] = Old(p)[p]
        BY <2>1, <2>3, <4>1
      <4>3. Only(p, Old(p)[p])
        BY <1>2, <4>2 DEF UndoingOK
      <4> QED BY <2>1, <2>3, <4>1, <4>3 DEF Only
    <3>4. target'[f] = Old(p)'[f]
      BY <1>8, <2>1, <2>3
    <3> QED BY <2>4, <3>1, <3>2, <3>3, <3>4 DEF UndoingOK, Undoing
  <2>6. RunOK'
    BY <1>2, <2>4, <2>5 DEF RunOK, ControlOK, Preparing, Undoing, Writing, Journalling, Cleaning
  <2> QED BY <2>3, <2>4, <2>6 DEF IInv
<1>9. CASE target[f] = New(p)[f] /\ GoTo("create_tmp") /\ NoFileCall /\ StillRunning
  <2>1. /\ ControlType' /\ Waiting'
        /\ holder' = holder /\ run'.step = "create_tmp" /\ run'.mode = run.mode /\ run'.txn = p
        /\ run'.row = run.row /\ run'.code = run.code /\ File' = f
    BY <1>2, <1>5, <1>9, GoesTo DEF Steps
  <2>2. UndoingOK(p)'
    BY <1>1, <1>2, <1>3, <1>5, <1>9, <2>1 DEF UndoingOK, Only, Intact, Undoing
  <2>3. RunOK'
    BY <1>2, <2>1, <2>2 DEF RunOK, ControlOK, Preparing, Undoing, Writing, Journalling, Cleaning
  <2> QED BY <1>5, <1>9, <2>1, <2>3 DEF IInv
<1> QED BY <1>4, <1>6, <1>7, <1>8, <1>9

-----------------------------------------------------------------------------
(* cleanup_transaction keeps the invariant. *)

\* What holds while the directory is cleaned up: every file has settled.
LEMMA CleaningFacts ==
  ASSUME IInv, run.step \in Cleaning
  PROVE  /\ holder # Nobody /\ run.mode \in {"rollback", "finish"} /\ run.txn \in Promotions
         /\ ControlOK(run.txn) /\ CleaningOK(run.txn)
         /\ run.txn \in Files /\ Shared \in Files /\ run.code \in Answers
         /\ \A q \in Promotions : CanRollBack(q) => q = run.txn
         /\ run.mode = "finish" \/ run.step \notin {"clean_stores", "sync_stores"} =>
              \A q \in Promotions : ~ CanRollBack(q)
         /\ \A f \in Files : Only(f, target[f])
<1>1. holder # Nobody /\ run.code \in Answers
  BY AtStep DEF Cleaning
<1> PICK p \in Promotions : p = run.txn
  BY <1>1, CurrentFile DEF IInv
<1>2. ControlOK(p) /\ CleaningOK(p) /\ p \in Files /\ Shared \in Files
  BY <1>1 DEF IInv, RunOK, Files
<1>3. run.mode \in {"rollback", "finish"}
  BY <1>1, <1>2, AtStep DEF ControlOK, Cleaning, Preparing, Writing, Journalling
<1>4. \A q \in Promotions : CanRollBack(q) => q = p
  <2>1. \A names \in parentImg : names \subseteq {p}
    BY <1>2 DEF CleaningOK
  <2> QED BY <2>1, RollBackDef
<1>5. run.mode = "finish" \/ run.step \notin {"clean_stores", "sync_stores"} =>
        \A q \in Promotions : ~ CanRollBack(q)
  BY <1>2, <1>4, RollBackDef DEF CleaningOK
<1>6. \A f \in Files : Only(f, target[f])
  <2>1. CASE \A q \in Promotions : ~ CanRollBack(q)
    BY <2>1 DEF IInv, DiskOK, DiskInv
  <2>2. CASE run.mode = "rollback" /\ run.step \in {"clean_stores", "sync_stores"}
    <3>1. \A f \in {p, Shared} : Only(f, Old(p)[f]) /\ target[f] \in Seen(f)
      BY <1>2, <2>2, CurrentSeen DEF CleaningOK, IInv, DiskOK
    <3>2. \A f \in {p, Shared} : Only(f, target[f])
      BY <3>1 DEF Only
    <3>3. \A f \in Files \ {p, Shared} : Only(f, target[f])
      BY <1>4 DEF IInv, DiskOK, DiskInv
    <3> QED BY <3>2, <3>3
  <2> QED BY <1>3, <1>5, <2>1, <2>2
<1> QED BY <1>1, <1>2, <1>3, <1>4, <1>5, <1>6

\* An entry of old/ or new/ is unlinked.
LEMMA StoreEffect ==
  ASSUME TxnType, NEW p \in Promotions, UNCHANGED rootImg,
         txn' = [txn EXCEPT ![p].stored = FALSE],
         storeImg' = [storeImg EXCEPT ![p] = @ \cup {FALSE}]
  PROVE  /\ TxnType' /\ txn'[p].stored = FALSE
         /\ storeImg'[p] = storeImg[p] \cup {FALSE}
         /\ \A q \in Promotions \ {p} : storeImg'[q] = storeImg[q]
         /\ \A q \in Promotions :
              /\ Old(q)' = Old(q) /\ New(q)' = New(q) /\ Logged(q)' = Logged(q)
              /\ txn'[q].journal = txn[q].journal
<1>1. txn[p] \in [journal : Journals, next : BOOLEAN, stored : BOOLEAN, old : Trees]
  BY DEF TxnType
<1> DEFINE t == [txn[p] EXCEPT !.stored = FALSE]
<1>2. /\ t \in [journal : Journals, next : BOOLEAN, stored : BOOLEAN, old : Trees]
      /\ t.journal = txn[p].journal /\ t.next = txn[p].next /\ t.old = txn[p].old
      /\ t.stored = FALSE
  BY <1>1
<1>3. txn' = [txn EXCEPT ![p] = t]
  BY <1>1 DEF TxnType
<1> HIDE DEF t
<1>4. txn'[p] = t /\ \A q \in Promotions \ {p} : txn'[q] = txn[q]
  BY <1>3 DEF TxnType
<1>5. /\ storeImg'[p] = storeImg[p] \cup {FALSE} /\ storeImg' \in [Promotions -> SUBSET BOOLEAN]
      /\ \A q \in Promotions \ {p} : storeImg'[q] = storeImg[q]
  BY DEF TxnType
<1>6. TxnType'
  BY <1>2, <1>3, <1>4, <1>5 DEF TxnType
<1>7. \A q \in Promotions : Old(q)' = Old(q) /\ txn'[q].journal = txn[q].journal
  BY <1>2, <1>4 DEF Old
<1>8. \A q \in Promotions : New(q)' = New(q) /\ Logged(q)' = Logged(q)
  BY <1>7 DEF New, Old, Promoted, Logged
<1> QED BY <1>2, <1>4, <1>5, <1>6, <1>7, <1>8

LEMMA CleanStoresStep ==
  ASSUME IInv, CleanStores
  PROVE  IInv'
<1>1. run.step = "clean_stores" /\ run.step \in Cleaning
  BY DEF CleanStores, At, Cleaning
<1> PICK p \in Promotions : p = run.txn
  BY <1>1, CleaningFacts
<1>2. /\ holder # Nobody /\ p \in Files /\ Shared \in Files
      /\ CleaningOK(p) /\ ControlOK(p) /\ run.mode \in {"rollback", "finish"}
      /\ \A q \in Promotions : CanRollBack(q) => q = p
      /\ run.mode = "finish" => \A q \in Promotions : ~ CanRollBack(q)
      /\ \A f \in Files : Only(f, target[f])
  BY <1>1, CleaningFacts
<1>3. UNCHANGED <<target, tmp, fileImg, rootImg, visible, parentImg>>
  BY DEF CleanStores, NoFileCall, NoParentCall
<1>4. CASE Release(Unsettled) /\ UNCHANGED <<events, txn, storeImg>>
  <2>1. UNCHANGED disk
    BY <1>3, <1>4 DEF disk
  <2> QED BY <1>2, <1>4, <2>1, DiskUnchanged, Releases, UnsettledAnswer DEF IInv, ControlType
<1>5. CASE /\ txn' = [txn EXCEPT ![p].stored = FALSE]
           /\ storeImg' = [storeImg EXCEPT ![p] = @ \cup {FALSE}]
           /\ GoTo("sync_stores") /\ StillRunning
  <2>1. /\ TxnType' /\ txn'[p].stored = FALSE
        /\ storeImg'[p] = storeImg[p] \cup {FALSE}
        /\ \A q \in Promotions \ {p} : storeImg'[q] = storeImg[q]
        /\ \A q \in Promotions :
             Old(q)' = Old(q) /\ New(q)' = New(q) /\ Logged(q)' = Logged(q)
    BY <1>3, <1>5, StoreEffect DEF IInv, DiskOK
  <2>2. \A q \in Promotions : CanRollBack(q)' <=> CanRollBack(q)
    BY <1>3, <2>1, RollBackDef
  <2>3. FileType' /\ ParentType' /\ \A f \in Files : Seen(f)' = Seen(f)
    BY <1>3 DEF IInv, DiskOK, FileType, ParentType, Seen
  <2>4. \A f \in Files : Only(f, target[f])'
    BY <1>2, <1>3, <2>3 DEF Only
  <2>5. ASSUME CanRollBack(p)' PROVE FilesOK(p)'
    <3>1. CanRollBack(p) /\ FilesOK(p) /\ run.mode = "rollback" /\ Intact(p) /\ visible = {p}
      BY <1>1, <1>2, <2>2, <2>5 DEF IInv, DiskOK, DiskInv, CleaningOK
    <3>2. p \in visible' /\ BaseOK(p, Old(p))'
      BY <1>3, <2>1, <3>1 DEF FilesOK, BaseOK, Trees, Files
    <3>3. Logged(p)' \subseteq {"applying"}
      BY <2>1, <3>1 DEF Intact
    <3>4. \A f \in {p, Shared} : target'[f] # New(p)'[f]
      <4>1. \A f \in {p, Shared} : target[f] \in Seen(f) /\ Old(p)[f] # New(p)[f]
        BY <3>1, IntactIsOpen DEF IInv
      <4>2. \A f \in {p, Shared} : Only(f, Old(p)[f])
        BY <1>1, <1>2, <3>1 DEF CleaningOK
      <4>3. \A f \in {p, Shared} : target[f] = Old(p)[f]
        BY <4>1, <4>2 DEF Only
      <4> QED BY <1>3, <2>1, <4>1, <4>3
    <3> QED BY <1>2, <2>4, <3>2, <3>3, <3>4 DEF FilesOK
  <2>6. DiskOK'
    <3>1. (NoFile \notin Seen(Shared))'
      BY <1>2, <2>3 DEF IInv, DiskOK, DiskInv
    <3>2. (\A names \in parentImg, others \in parentImg : \A q \in names, r \in others : q = r)'
      BY <1>3 DEF IInv, DiskOK, DiskInv
    <3>3. \A q \in Promotions : CanRollBack(q)' => FilesOK(q)'
      BY <1>2, <2>2, <2>5
    <3> QED BY <2>1, <2>3, <2>4, <3>1, <3>2, <3>3 DEF DiskOK, DiskInv
  <2>7. /\ ControlType' /\ Waiting'
        /\ holder' = holder /\ run'.step = "sync_stores" /\ run'.mode = run.mode /\ run'.txn = p
        /\ run'.row = run.row /\ run'.code = run.code
    BY <1>2, <1>5, <2>2, GoesTo DEF Steps
  <2>8. CleaningOK(p)'
    <3>1. run.mode = "rollback" => (\A f \in {p, Shared} : Only(f, Old(p)[f]))'
      <4>1. run.mode = "rollback" => \A f \in {p, Shared} : Seen(f) \subseteq {Old(p)[f]}
        BY <1>1, <1>2 DEF CleaningOK, Only
      <4>2. Old(p)' = Old(p) /\ \A f \in {p, Shared} : Seen(f)' = Seen(f)
        BY <1>2, <2>1, <2>3
      <4>3. ASSUME run.mode = "rollback", NEW f \in {p, Shared} PROVE Seen(f)' \subseteq {Old(p)'[f]}
        <5>1. Seen(f)' = Seen(f) /\ Old(p)'[f] = Old(p)[f] /\ Seen(f) \subseteq {Old(p)[f]}
          BY <4>1, <4>2, <4>3
        <5> QED BY <5>1
      <4> QED BY <4>3 DEF Only
    <3> QED BY <1>2, <1>3, <2>1, <2>7, <3>1 DEF CleaningOK
  <2>9. RunOK'
    BY <1>2, <2>7, <2>8 DEF RunOK, ControlOK, Preparing, Undoing, Writing, Journalling, Cleaning
  <2> QED BY <2>6, <2>7, <2>9 DEF IInv
<1> QED BY <1>4, <1>5 DEF CleanStores

LEMMA SyncStoresStep ==
  ASSUME IInv, SyncStores
  PROVE  IInv'
<1>1. run.step = "sync_stores" /\ run.step \in Cleaning
  BY DEF SyncStores, At, Cleaning
<1> PICK p \in Promotions : p = run.txn
  BY <1>1, CleaningFacts
<1>2. /\ holder # Nobody /\ p \in Files /\ Shared \in Files
      /\ CleaningOK(p) /\ ControlOK(p) /\ run.mode \in {"rollback", "finish"}
      /\ \A f \in Files : Only(f, target[f])
  BY <1>1, CleaningFacts
<1>3. /\ UNCHANGED <<target, tmp, fileImg, txn, rootImg, visible, parentImg>>
      /\ storeImg' = [storeImg EXCEPT ![p] = {FALSE}]
  BY DEF SyncStores, NoFileCall, NoRootCall, NoParentCall
<1>4. storeImg'[p] = {FALSE} /\ \A q \in Promotions \ {p} : storeImg'[q] = storeImg[q]
  BY <1>3 DEF IInv, DiskOK, TxnType
<1>5. txn[p].stored = FALSE /\ FALSE \in storeImg[p]
  <2>1. txn[p].stored = FALSE
    BY <1>1, <1>2 DEF CleaningOK
  <2>2. txn[p].stored \in storeImg[p]
    BY DEF IInv, DiskOK, TxnType
  <2> QED BY <2>1, <2>2
<1>6. TxnType'
  BY <1>3, <1>4, <1>5 DEF IInv, DiskOK, TxnType
<1>7. /\ FileType' /\ ParentType' /\ \A f \in Files : Seen(f)' = Seen(f)
      /\ \A q \in Promotions : Old(q)' = Old(q) /\ New(q)' = New(q) /\ Logged(q)' = Logged(q)
  BY <1>3 DEF IInv, DiskOK, FileType, ParentType, Seen, Old, New, Promoted, Logged
<1>8. \A f \in Files : Only(f, target[f])'
  BY <1>2, <1>3, <1>7 DEF Only
<1>9. DiskOK' /\ \A q \in Promotions : CanRollBack(q)' => CanRollBack(q)
  <2>1. \A q \in Promotions : storeImg'[q] \subseteq storeImg[q]
    BY <1>4, <1>5
  <2> QED BY <1>3, <1>6, <1>7, <1>8, <2>1, DiskShrinks DEF IInv
<1>10. /\ ControlType' /\ Waiting'
       /\ holder' = holder /\ run'.step = "unlink_journal" /\ run'.mode = run.mode /\ run'.txn = p
       /\ run'.row = run.row /\ run'.code = run.code
  BY <1>2, <1>9, GoesTo DEF Steps, SyncStores
<1>11. CleaningOK(p)'
  BY <1>2, <1>3, <1>4, <1>7, <1>10 DEF CleaningOK
<1>12. RunOK'
  BY <1>2, <1>10, <1>11 DEF RunOK, ControlOK, Preparing, Undoing, Writing, Journalling, Cleaning
<1> QED BY <1>9, <1>10, <1>12 DEF IInv

LEMMA UnlinkJournalStep ==
  ASSUME IInv, UnlinkJournal
  PROVE  IInv'
<1>1. run.step = "unlink_journal" /\ run.step \in Cleaning
  BY DEF UnlinkJournal, At, Cleaning
<1> PICK p \in Promotions : p = run.txn
  BY <1>1, CleaningFacts
<1>2. /\ holder # Nobody /\ p \in Files /\ Shared \in Files
      /\ CleaningOK(p) /\ ControlOK(p) /\ run.mode \in {"rollback", "finish"}
      /\ ~ CanRollBack(p)
  BY <1>1, CleaningFacts
<1>3. /\ UNCHANGED <<target, tmp, fileImg, storeImg, visible, parentImg>> /\ StillRunning
      /\ \E s \in {"unlink_journal", "sync_empty"} : GoTo(s)
  <2>1. run = [run EXCEPT !.step = "unlink_journal"]
    BY <1>1, <1>2 DEF IInv, ControlType, Runs
  <2> QED BY <2>1 DEF UnlinkJournal, NoFileCall, NoStoreCall, NoParentCall, GoTo
<1> PICK s \in {"unlink_journal", "sync_empty"} : GoTo(s)
  BY <1>3
<1>4. \E j \in {txn[p].journal, NoJournal} : PutRoot(p, j, FALSE)
  BY DEF UnlinkJournal
<1> PICK j \in {txn[p].journal, NoJournal} : PutRoot(p, j, FALSE)
  BY <1>4
<1>5. j \in Journals /\ (j.state \in Logged(p) \/ j.state = "absent")
  BY SMT, CurrentSeen DEF IInv, DiskOK, TxnType, Journals, NoJournal
<1>6. /\ TxnType' /\ Logged(p)' = Logged(p) \cup {j.state}
      /\ \A q \in Promotions \ {p} : Logged(q)' = Logged(q)
      /\ \A q \in Promotions : Old(q)' = Old(q) /\ New(q)' = New(q)
  BY <1>3, <1>5, PutRootEffect DEF IInv, DiskOK
<1>7. /\ DiskOK'
      /\ \A q \in Promotions : CanRollBack(q)' <=> CanRollBack(q)
  BY <1>2, <1>3, <1>5, <1>6, JournalWritten DEF IInv
<1>8. /\ ControlType' /\ Waiting'
      /\ holder' = holder /\ run'.step = s /\ run'.mode = run.mode /\ run'.txn = p
      /\ run'.row = run.row /\ run'.code = run.code
  BY <1>2, <1>3, <1>7, GoesTo DEF Steps
<1>9. CleaningOK(p)'
  BY <1>1, <1>2, <1>3, <1>5, <1>6, <1>8 DEF CleaningOK
<1>10. RunOK'
  BY <1>2, <1>8, <1>9 DEF RunOK, ControlOK, Preparing, Undoing, Writing, Journalling, Cleaning
<1> QED BY <1>7, <1>8, <1>10 DEF IInv

LEMMA SyncEmptyStep ==
  ASSUME IInv, SyncEmpty
  PROVE  IInv'
<1>1. run.step = "sync_empty" /\ run.step \in Cleaning
  BY DEF SyncEmpty, At, Cleaning
<1> PICK p \in Promotions : p = run.txn
  BY <1>1, CleaningFacts
<1>2. /\ holder # Nobody /\ p \in Files /\ Shared \in Files
      /\ CleaningOK(p) /\ ControlOK(p) /\ run.mode \in {"rollback", "finish"}
      /\ \A f \in Files : Only(f, target[f])
  BY <1>1, CleaningFacts
<1>3. /\ UNCHANGED <<target, tmp, fileImg, storeImg, visible, parentImg>> /\ SyncRoot(p)
  BY DEF SyncEmpty, NoFileCall, NoStoreCall, NoParentCall
<1>4. /\ TxnType' /\ Logged(p)' = {txn[p].journal.state}
      /\ \A q \in Promotions \ {p} : Logged(q)' = Logged(q)
      /\ \A q \in Promotions : Old(q)' = Old(q) /\ New(q)' = New(q)
  BY <1>3, SyncRootEffect DEF IInv, DiskOK
<1>5. \A q \in Promotions : Logged(q)' \subseteq Logged(q)
  BY <1>4, CurrentSeen DEF IInv, DiskOK
<1>6. FileType' /\ ParentType' /\ \A f \in Files : Seen(f)' = Seen(f)
  BY <1>3 DEF IInv, DiskOK, FileType, ParentType, Seen
<1>7. \A f \in Files : Only(f, target[f])'
  BY <1>2, <1>3, <1>6 DEF Only
<1>8. DiskOK' /\ \A q \in Promotions : CanRollBack(q)' => CanRollBack(q)
  BY <1>3, <1>4, <1>5, <1>6, <1>7, DiskShrinks DEF IInv
<1>9. /\ ControlType' /\ Waiting'
      /\ holder' = holder /\ run'.step = "rmdir" /\ run'.mode = run.mode /\ run'.txn = p
      /\ run'.row = run.row /\ run'.code = run.code
  BY <1>2, <1>8, GoesTo DEF Steps, SyncEmpty
<1>10. CleaningOK(p)'
  BY <1>1, <1>2, <1>3, <1>5, <1>9 DEF CleaningOK
<1>11. RunOK'
  BY <1>2, <1>9, <1>10 DEF RunOK, ControlOK, Preparing, Undoing, Writing, Journalling, Cleaning
<1> QED BY <1>8, <1>9, <1>11 DEF IInv

LEMMA RmdirStep ==
  ASSUME IInv, Rmdir
  PROVE  IInv'
<1>1. run.step = "rmdir" /\ run.step \in Cleaning
  BY DEF Rmdir, At, Cleaning
<1> PICK p \in Promotions : p = run.txn
  BY <1>1, CleaningFacts
<1>2. /\ holder # Nobody /\ p \in Files /\ Shared \in Files
      /\ CleaningOK(p) /\ ControlOK(p) /\ run.mode \in {"rollback", "finish"}
      /\ \A f \in Files : Only(f, target[f])
  BY <1>1, CleaningFacts
<1>3. /\ UNCHANGED <<target, tmp, fileImg, txn, rootImg, storeImg>>
      /\ visible' = visible \ {p} /\ parentImg' = parentImg \cup {visible \ {p}}
  BY DEF Rmdir, NoFileCall, NoRootCall, NoStoreCall, PutParent
<1>4. \A names \in parentImg' : names \subseteq {p}
  BY <1>2, <1>3 DEF CleaningOK, IInv, DiskOK, ParentType
<1>5. /\ FileType' /\ TxnType' /\ ParentType' /\ \A f \in Files : Seen(f)' = Seen(f)
      /\ \A q \in Promotions : Old(q)' = Old(q) /\ New(q)' = New(q) /\ Logged(q)' = Logged(q)
  <2>1. ParentType'
    BY <1>3 DEF IInv, DiskOK, ParentType
  <2> QED BY <1>3, <2>1 DEF IInv, DiskOK, FileType, TxnType, Seen, Old, New, Promoted, Logged
<1>6. \A q \in Promotions : ~ CanRollBack(q)'
  <2>1. TRUE \notin storeImg'[p]
    BY <1>1, <1>2, <1>3 DEF CleaningOK
  <2> QED BY <1>4, <2>1, RollBackDef
<1>7. DiskOK'
  <2>1. (\A f \in Files : Only(f, target[f]))' /\ (NoFile \notin Seen(Shared))'
    <3>1. Seen(Shared)' = Seen(Shared) /\ NoFile \notin Seen(Shared)
      BY <1>2, <1>5 DEF IInv, DiskOK, DiskInv
    <3>2. ASSUME NEW f \in Files PROVE Only(f, target[f])'
      <4>1. Seen(f)' = Seen(f) /\ target' = target /\ Seen(f) \subseteq {target[f]}
        BY <1>2, <1>3, <1>5 DEF Only
      <4> QED BY <4>1 DEF Only
    <3> QED BY <3>1, <3>2
  <2>2. (\A names \in parentImg, others \in parentImg : \A q \in names, r \in others : q = r)'
    BY <1>4
  <2> QED BY <1>5, <1>6, <2>1, <2>2, NothingOpen
<1>8. /\ ControlType' /\ Waiting'
      /\ holder' = holder /\ run'.step = "sync_removed" /\ run'.mode = run.mode /\ run'.txn = p
      /\ run'.row = run.row /\ run'.code = run.code
  BY <1>2, <1>6, GoesTo DEF Steps, Rmdir
<1>9. CleaningOK(p)'
  BY <1>1, <1>2, <1>3, <1>4, <1>5, <1>8 DEF CleaningOK
<1>10. RunOK'
  BY <1>2, <1>8, <1>9 DEF RunOK, ControlOK, Preparing, Undoing, Writing, Journalling, Cleaning
<1> QED BY <1>7, <1>8, <1>10 DEF IInv

LEMMA SyncRemovedStep ==
  ASSUME IInv, SyncRemoved
  PROVE  IInv'
<1>1. run.step = "sync_removed" /\ run.step \in Cleaning
  BY DEF SyncRemoved, At, Cleaning
<1>2. /\ holder # Nobody /\ run.code \in Answers
      /\ \A f \in Files : Only(f, target[f])
  BY <1>1, CleaningFacts
<1>3. /\ UNCHANGED <<target, tmp, fileImg, txn, rootImg, storeImg, visible>>
      /\ parentImg' = {visible}
  BY DEF SyncRemoved, NoFileCall, NoRootCall, NoStoreCall, SyncParent
<1>4. /\ FileType' /\ TxnType' /\ ParentType' /\ \A f \in Files : Seen(f)' = Seen(f)
      /\ \A q \in Promotions : Old(q)' = Old(q) /\ New(q)' = New(q) /\ Logged(q)' = Logged(q)
      /\ parentImg' \subseteq parentImg
  <2>1. FileType' /\ TxnType'
    BY <1>3 DEF IInv, DiskOK, FileType, TxnType
  <2>2. ParentType' /\ parentImg' \subseteq parentImg
    BY <1>3 DEF IInv, DiskOK, ParentType
  <2>3. /\ \A f \in Files : Seen(f)' = Seen(f)
        /\ \A q \in Promotions : Old(q)' = Old(q) /\ New(q)' = New(q) /\ Logged(q)' = Logged(q)
    BY <1>3 DEF Seen, Old, New, Promoted, Logged
  <2> QED BY <2>1, <2>2, <2>3
<1>5. \A f \in Files : Only(f, target[f])'
  BY <1>2, <1>3, <1>4 DEF Only
<1>6. DiskOK' /\ \A q \in Promotions : CanRollBack(q)' => CanRollBack(q)
  BY <1>3, <1>4, <1>5, DiskShrinks DEF IInv
<1> QED BY <1>2, <1>6, Releases DEF SyncRemoved, IInv, ControlType

-----------------------------------------------------------------------------
(* The commands before the lock, recovery, and the environment keep the invariant. *)

\* What is on a disk that has caught up.
LEMMA CaughtUp ==
  /\ WrittenBack =>
       /\ \A f \in Files : Seen(f) = {target[f]}
       /\ \A p \in Promotions : Logged(p) = {txn[p].journal.state} /\ storeImg[p] = {txn[p].stored}
       /\ parentImg = {visible}
  /\ WrittenBack' =>
       /\ \A f \in Files : Seen(f)' = {target'[f]}
       /\ \A p \in Promotions : Logged(p)' = {txn'[p].journal.state} /\ storeImg'[p] = {txn'[p].stored}
       /\ parentImg' = {visible'}
<1>1. \A a, b : {i[1] : i \in {<<a, b>>}} = {a}
  BY SMT
<1>2. \A a, b : {image[1].state : image \in {<<a, b>>}} = {a.state}
  BY SMT
<1>3. ASSUME WrittenBack, NEW f \in Files PROVE Seen(f) = {target[f]}
  <2>1. fileImg[f] = {<<target[f], tmp[f]>>}
    BY <1>3 DEF WrittenBack
  <2> QED BY <1>1, <2>1 DEF Seen
<1>4. ASSUME WrittenBack', NEW f \in Files PROVE Seen(f)' = {target'[f]}
  <2>1. fileImg'[f] = {<<target'[f], tmp'[f]>>}
    BY <1>4 DEF WrittenBack
  <2> QED BY <1>1, <2>1 DEF Seen
<1>5. ASSUME WrittenBack, NEW p \in Promotions PROVE Logged(p) = {txn[p].journal.state}
  <2>1. rootImg[p] = {<<txn[p].journal, txn[p].next>>}
    BY <1>5 DEF WrittenBack
  <2> QED BY <1>2, <2>1 DEF Logged
<1>6. ASSUME WrittenBack', NEW p \in Promotions PROVE Logged(p)' = {txn'[p].journal.state}
  <2>1. rootImg'[p] = {<<txn'[p].journal, txn'[p].next>>}
    BY <1>6 DEF WrittenBack
  <2> QED BY <1>2, <2>1 DEF Logged
<1> QED BY <1>3, <1>4, <1>5, <1>6 DEF WrittenBack

\* A disk that has caught up is recoverable when the transactions on it are.
LEMMA CaughtUpIsOK ==
  ASSUME FileType', TxnType', ParentType', WrittenBack',
         \A p, q \in visible' : p = q,
         target'[Shared] # NoFile,
         \A p \in Promotions : CanRollBack(p)' => BaseOK(p, Old(p))'
  PROVE  DiskOK'
<1>1. /\ \A f \in Files : Seen(f)' = {target'[f]}
      /\ \A p \in Promotions : Logged(p)' = {txn'[p].journal.state} /\ storeImg'[p] = {txn'[p].stored}
      /\ parentImg' = {visible'}
  BY CaughtUp
<1>2. Shared \in Files /\ \A p \in Promotions : p \in Files
  BY DEF Files
<1>3. ASSUME NEW p \in Promotions, CanRollBack(p)' PROVE FilesOK(p)'
  <2>1. p \in visible' /\ Logged(p)' \subseteq {"applying"} /\ storeImg'[p] \subseteq {TRUE}
    BY <1>1, <1>3, RollBackDef
  <2>2. ~ ((\E names \in parentImg : p \notin names) \/ FALSE \in storeImg[p])'
    BY <1>1, <2>1
  <2>3. \A f \in {p, Shared} : Only(f, target[f])'
    BY <1>1, <1>2 DEF Only
  <2> QED BY <1>3, <2>1, <2>2, <2>3 DEF FilesOK
<1>4. (\A names \in parentImg, others \in parentImg : \A p \in names, q \in others : p = q)'
  BY <1>1
<1>5. (\A f \in Files : Only(f, target[f]))' /\ (NoFile \notin Seen(Shared))'
  BY SMT, <1>1, <1>2 DEF Only
<1> QED BY <1>3, <1>4, <1>5 DEF DiskOK, DiskInv

\* The lock holder notices nothing of the other commands.
LEMMA HolderUndisturbed ==
  ASSUME IInv, UNCHANGED disk, UNCHANGED <<holder, run>>,
         \A p \in Promotions : p = holder => base'[p] = base[p]
  PROVE  RunOK'
<1>1. /\ \A q \in Promotions : Old(q)' = Old(q) /\ New(q)' = New(q) /\ Logged(q)' = Logged(q)
      /\ \A f \in Files : Seen(f)' = Seen(f)
  BY DiskUnchanged DEF IInv
<1>2. UNCHANGED <<target, tmp, txn, storeImg, visible, parentImg>>
  BY DEF disk
<1>3. CASE holder = Nobody
  BY <1>3 DEF RunOK
<1>4. CASE holder # Nobody
  <2> PICK p \in Promotions : p = run.txn
    BY <1>4, CurrentFile DEF IInv
  <2> PICK f \in Files : f = File
    BY <1>4, CurrentFile DEF IInv
  <2>1. p \in Files /\ Shared \in Files /\ f \in {p, Shared} /\ run'.txn = p /\ File' = f
    BY <1>4, CurrentFile DEF IInv, Files, File, Rows
  <2>2. ControlOK(p)' <=> ControlOK(p)
    BY DEF ControlOK
  <2>3. WrittenBack' <=> WrittenBack
    BY DEF WrittenBack, disk
  <2>4. Bytes(run.mode, p, f)' = Bytes(run.mode, p, f)
    BY SMT, <1>2 DEF Bytes, Promoted
  <2>5. Intact(p)' <=> Intact(p)
    BY <1>1, <1>2 DEF Intact
  <2>6. holder = p => (PreparingOK(p)' <=> PreparingOK(p))
    BY <1>2, <2>5 DEF PreparingOK
  <2>7. ApplyingOK(p)' <=> ApplyingOK(p)
    <3>1. /\ \A g \in {p, Shared} : Seen(g)' = Seen(g)
          /\ Old(p)' = Old(p) /\ New(p)' = New(p) /\ target' = target
          /\ visible' = visible /\ parentImg' = parentImg /\ run' = run
      BY <1>1, <1>2, <2>1
    <3>2. /\ Only(p, New(p)[p])' <=> Only(p, New(p)[p])
          /\ Only(Shared, Old(p)[Shared])' <=> Only(Shared, Old(p)[Shared])
          /\ Only(File, Old(p)[File])' <=> Only(File, Old(p)[File])
          /\ Only(File, New(p)[File])' <=> Only(File, New(p)[File])
      BY <2>1, <3>1 DEF Only
    <3> QED BY <2>1, <2>5, <3>1, <3>2 DEF ApplyingOK, Journalling
  <2>8. UndoingOK(p)' <=> UndoingOK(p)
    BY <1>1, <1>2, <2>1, <2>5 DEF UndoingOK, Only, Undoing
  <2>9. FinishingOK(p)' <=> FinishingOK(p)
    <3>1. (\A g \in {p, Shared} : Only(g, New(p)[g]))' <=> \A g \in {p, Shared} : Only(g, New(p)[g])
      BY SMT, <1>1, <2>1 DEF Only
    <3> QED BY <1>2, <2>5, <3>1 DEF FinishingOK
  <2>10. CleaningOK(p)' <=> CleaningOK(p)
    <3>1. (\A g \in {p, Shared} : Only(g, Old(p)[g]))' <=> \A g \in {p, Shared} : Only(g, Old(p)[g])
      BY SMT, <1>1, <2>1 DEF Only
    <3> QED BY <1>1, <1>2, <2>5, <3>1 DEF CleaningOK
  <2>11. ControlOK(p) /\ (run.step \in Preparing => holder = p)
    BY <1>4 DEF IInv, RunOK, ControlOK, ControlType, Runs, Modes, Preparing, Undoing, Writing,
                Journalling, Cleaning
  <2>12. run' = run /\ holder' = holder /\ tmp' = tmp /\ visible' = visible
    BY <1>2
  <2> QED BY <1>4, <2>1, <2>2, <2>3, <2>4, <2>6, <2>7, <2>8, <2>9, <2>10, <2>11, <2>12
          DEF IInv, RunOK, Preparing, Undoing, Writing, Journalling, Cleaning
<1> QED BY <1>3, <1>4

LEMMA CheckPendingStep ==
  ASSUME IInv, NEW p \in Promotions, CheckPending(p)
  PROVE  IInv'
<1>1. /\ UNCHANGED disk /\ UNCHANGED <<holder, run, base, events>>
      /\ DiskOK' /\ \A q \in Promotions : CanRollBack(q)' <=> CanRollBack(q)
      /\ \A q \in Promotions : Old(q)' = Old(q) /\ New(q)' = New(q) /\ Logged(q)' = Logged(q)
      /\ \A f \in Files : Seen(f)' = Seen(f)
  BY DiskUnchanged DEF IInv, CheckPending
<1>2. /\ phase[p] = "idle" /\ p \in Commands
      /\ \A q \in Promotions \ {p} : phase'[q] = phase[q]
      /\ phase'[p] = "idle" \/ (phase'[p] = "checked" /\ visible = {})
      /\ phase' \in [Promotions -> {"idle", "checked", "captured", "locked"}]
      /\ \E a \in {"none", "recovery_required"} : answer' = [answer EXCEPT ![p] = a]
  BY DEF CheckPending, IInv, ControlType, Commands
<1>3. answer' \in [Commands -> Answers]
  BY <1>2 DEF IInv, ControlType, Answers
<1>4. ControlType'
  <2>1. \A q \in Promotions : (phase'[q] = "locked") <=> (phase[q] = "locked")
    BY <1>2
  <2> QED BY <1>1, <1>2, <1>3, <2>1 DEF IInv, ControlType
<1>5. Waiting'
  <2>1. visible = {} => ~ CanRollBack(p)
    BY DEF IInv, DiskOK, DiskInv, FilesOK
  <2>2. \A q \in Promotions : phase'[q] \in {"captured", "locked"} => phase[q] \in {"captured", "locked"}
    BY <1>2
  <2>3. \A q \in Promotions : phase'[q] \in {"checked", "captured"} => ~ CanRollBack(q)'
    BY <1>1, <1>2, <2>1 DEF IInv, Waiting
  <2>4. \A q \in Promotions : phase'[q] \in {"captured", "locked"} => BaseOK(q, base[q])'
    BY <1>1, <2>2 DEF IInv, Waiting, BaseOK, Trees, Files
  <2> QED BY <2>3, <2>4 DEF Waiting
<1>6. RunOK'
  BY <1>1, HolderUndisturbed
<1> QED BY <1>1, <1>4, <1>5, <1>6 DEF IInv

LEMMA CaptureStep ==
  ASSUME IInv, NEW p \in Promotions, Capture(p)
  PROVE  IInv'
<1>1. /\ UNCHANGED disk /\ UNCHANGED <<holder, run, events>>
      /\ DiskOK' /\ \A q \in Promotions : CanRollBack(q)' <=> CanRollBack(q)
  BY DiskUnchanged DEF IInv, Capture
<1>2. /\ phase[p] = "checked" /\ p \in Commands /\ holder # p
      /\ \A q \in Promotions \ {p} : phase'[q] = phase[q] /\ base'[q] = base[q]
      /\ phase'[p] = "idle" \/ (phase'[p] = "captured" /\ target[p] = NoFile /\ base'[p] = target)
      /\ phase' \in [Promotions -> {"idle", "checked", "captured", "locked"}]
      /\ base' \in [Promotions -> Trees]
      /\ answer' = answer \/ answer' = [answer EXCEPT ![p] = "target_not_clean"]
  BY DEF Capture, IInv, ControlType, Commands, DiskOK, FileType
<1>3. answer' \in [Commands -> Answers]
  BY <1>2 DEF IInv, ControlType, Answers
<1>4. ControlType'
  <2>1. \A q \in Promotions : (phase'[q] = "locked") <=> (phase[q] = "locked")
    BY <1>2
  <2> QED BY <1>1, <1>2, <1>3, <2>1 DEF IInv, ControlType
<1>5. Waiting'
  <2>1. phase'[p] = "captured" => BaseOK(p, target)
    <3>1. target[Shared] # NoFile /\ target \in Trees
      BY CurrentSeen DEF IInv, DiskOK, DiskInv, Files, FileType
    <3> QED BY <1>2, <3>1 DEF BaseOK
  <2>2. \A q \in Promotions : phase'[q] \in {"checked", "captured"} => ~ CanRollBack(q)'
    BY <1>1, <1>2 DEF IInv, Waiting
  <2>3. \A q \in Promotions : phase'[q] \in {"captured", "locked"} => BaseOK(q, base'[q])
    BY <1>2, <2>1 DEF IInv, Waiting
  <2>4. \A q \in Promotions : phase'[q] \in {"captured", "locked"} => BaseOK(q, base[q])'
    BY <2>3 DEF BaseOK, Trees, Files
  <2> QED BY <2>2, <2>4 DEF Waiting
<1>6. RunOK'
  BY <1>1, <1>2, HolderUndisturbed
<1> QED BY <1>1, <1>4, <1>5, <1>6 DEF IInv

LEMMA LockStep ==
  ASSUME IInv, NEW p \in Promotions, Lock(p)
  PROVE  IInv'
<1>1. /\ UNCHANGED disk /\ events' = events /\ phase[p] = "captured"
      /\ DiskOK' /\ \A q \in Promotions : CanRollBack(q)' <=> CanRollBack(q)
  BY DiskUnchanged DEF IInv, Lock
<1>2. p \in Commands /\ p # Nobody /\ p # Recoverer /\ p # Shared /\ holder # p
  BY <1>1, DistinctAssumption DEF Commands, IInv, ControlType
<1>3. CASE holder = Nobody
  <2>1. /\ WrittenBack /\ holder' = p /\ UNCHANGED <<base, answer>>
        /\ run' = [step |-> "preflight", mode |-> "apply", txn |-> p, row |-> 1, code |-> "none"]
        /\ phase' = [phase EXCEPT ![p] = "locked"]
    BY <1>3 DEF Lock
  <2>2. run' \in Runs /\ run'.step = "preflight" /\ run'.mode = "apply" /\ run'.txn = p /\ run'.row = 1
    BY SMT, <2>1 DEF Runs, Steps, Modes, Codes
  <2>3. /\ \A q \in Promotions \ {p} : phase'[q] = phase[q]
        /\ phase'[p] = "locked"
        /\ phase' \in [Promotions -> {"idle", "checked", "captured", "locked"}]
    BY <2>1 DEF IInv, ControlType
  <2>4. ControlType'
    <3>1. \A q \in Promotions : phase[q] # "locked"
      BY <1>3, DistinctAssumption DEF IInv, ControlType
    <3>2. \A q \in Promotions : (phase'[q] = "locked") <=> (holder' = q)
      BY <2>1, <2>3, <3>1
    <3>3. UNCHANGED <<base, answer, events>> /\ holder' \in Commands \cup {Nobody} /\ holder' # Nobody
      BY <1>1, <1>2, <2>1
    <3> QED BY <2>2, <2>3, <3>2, <3>3 DEF IInv, ControlType
  <2>5. Waiting'
    <3>1. \A q \in Promotions : phase'[q] \in {"checked", "captured"} => ~ CanRollBack(q)'
      BY <1>1, <2>3 DEF IInv, Waiting
    <3>2. \A q \in Promotions : phase'[q] \in {"captured", "locked"} => BaseOK(q, base[q])'
      BY <1>1, <2>1, <2>3 DEF IInv, Waiting, BaseOK, Trees, Files
    <3> QED BY <3>1, <3>2 DEF Waiting
  <2>6. PreparingOK(p)'
    BY <1>1, <2>1, <2>2 DEF PreparingOK, WrittenBack, disk
  <2>7. RunOK'
    BY <1>2, <2>1, <2>2, <2>6
       DEF RunOK, ControlOK, Preparing, Undoing, Writing, Journalling, Cleaning
  <2> QED BY <1>1, <2>4, <2>5, <2>7 DEF IInv
<1>4. CASE holder # Nobody
  <2>1. /\ UNCHANGED <<holder, run>>
        /\ phase' = [phase EXCEPT ![p] = "idle"]
        /\ base' = [base EXCEPT ![p] = NoTree]
        /\ answer' = [answer EXCEPT ![p] = "concurrent_update"]
    BY <1>4 DEF Lock
  <2>2. /\ \A q \in Promotions \ {p} : phase'[q] = phase[q] /\ base'[q] = base[q]
        /\ phase'[p] = "idle"
        /\ phase' \in [Promotions -> {"idle", "checked", "captured", "locked"}]
        /\ base' \in [Promotions -> Trees]
    <3>1. NoTree \in Trees
      BY DEF NoTree, Trees, Contents
    <3> QED BY <2>1, <3>1 DEF IInv, ControlType
  <2>3. answer' \in [Commands -> Answers]
    BY <2>1 DEF IInv, ControlType, Answers
  <2>4. ControlType'
    <3>1. \A q \in Promotions : (phase'[q] = "locked") <=> (phase[q] = "locked")
      BY <1>1, <2>2
    <3> QED BY <1>1, <2>1, <2>2, <2>3, <3>1 DEF IInv, ControlType
  <2>5. Waiting'
    <3>1. \A q \in Promotions : phase'[q] \in {"checked", "captured"} => ~ CanRollBack(q)'
      BY <1>1, <2>2 DEF IInv, Waiting
    <3>2. \A q \in Promotions : phase'[q] \in {"captured", "locked"} => BaseOK(q, base[q])'
      BY <2>2 DEF IInv, Waiting, BaseOK, Trees, Files
    <3> QED BY <3>1, <3>2 DEF Waiting
  <2>6. RunOK'
    BY <1>1, <1>2, <2>1, <2>2, HolderUndisturbed
  <2> QED BY <1>1, <2>4, <2>5, <2>6 DEF IInv
<1> QED BY <1>3, <1>4

LEMMA RecoverStep ==
  ASSUME IInv, NEW p \in Promotions, Recover(p)
  PROVE  IInv'
<1>1. /\ UNCHANGED disk /\ UNCHANGED <<phase, base, events>> /\ holder = Nobody
      /\ WrittenBack /\ p \in visible /\ holder' = Recoverer
      /\ run' = [step |-> "inspect", mode |-> "rollback", txn |-> p, row |-> 2, code |-> "passed"]
      /\ answer' = [answer EXCEPT ![Recoverer] = "none"]
      /\ DiskOK' /\ \A q \in Promotions : CanRollBack(q)' <=> CanRollBack(q)
  BY DiskUnchanged DEF IInv, Recover, Rows
<1>2. Recoverer \in Commands /\ Recoverer # Nobody /\ Recoverer \notin Promotions /\ Nobody \notin Promotions
  BY DistinctAssumption DEF Commands
<1>3. /\ run' \in Runs /\ run'.step = "inspect" /\ run'.mode = "rollback" /\ run'.txn = p
      /\ run'.row = 2
  BY SMT, <1>1 DEF Runs, Steps, Modes, Codes
<1>4. ControlType'
  <2>1. answer' \in [Commands -> Answers]
    BY <1>1 DEF IInv, ControlType, Answers
  <2> QED BY <1>1, <1>2, <1>3, <2>1 DEF IInv, ControlType
<1>5. Waiting'
  BY <1>1 DEF IInv, Waiting, BaseOK, Trees, Files
<1>6. WrittenBack' /\ visible' = visible
  BY <1>1 DEF WrittenBack, disk
<1>7. RunOK'
  BY <1>1, <1>2, <1>3, <1>6
     DEF RunOK, ControlOK, Preparing, Undoing, Writing, Journalling, Cleaning
<1> QED BY <1>1, <1>4, <1>5, <1>7 DEF IInv

LEMMA InspectStep ==
  ASSUME IInv, Inspect
  PROVE  IInv'
<1>1. run.step = "inspect" /\ holder # Nobody /\ run \in Runs
  BY AtStep DEF Inspect, At, IInv, ControlType
<1> PICK p \in Promotions : p = run.txn
  BY <1>1, CurrentFile DEF IInv
<1>2. /\ ControlOK(p) /\ holder = Recoverer /\ holder # p /\ WrittenBack /\ p \in visible /\ run.row = 2
      /\ p \in Files /\ Shared \in Files
  BY <1>1, DistinctAssumption DEF IInv, RunOK, Files
<1>3. run.mode = "rollback"
  BY <1>1, <1>2 DEF ControlOK, Preparing, Writing, Journalling, Cleaning, Runs, Modes
<1>4. /\ DiskOK' /\ \A q \in Promotions : CanRollBack(q)' <=> CanRollBack(q)
      /\ \A q \in Promotions : Old(q)' = Old(q) /\ New(q)' = New(q) /\ Logged(q)' = Logged(q)
      /\ \A f \in Files : Seen(f)' = Seen(f)
      /\ UNCHANGED <<target, tmp, txn, storeImg, visible, parentImg>>
  BY DiskUnchanged DEF IInv, Inspect, disk
<1>5. /\ \A f \in Files : Seen(f) = {target[f]}
      /\ Logged(p) = {txn[p].journal.state} /\ storeImg[p] = {txn[p].stored}
      /\ parentImg = {visible} /\ visible = {p}
  BY SMT, <1>2, CaughtUp DEF IInv, DiskOK, DiskInv, ParentType
<1>6. CASE Release("recovery_conflict") /\ UNCHANGED events
  BY <1>1, <1>4, <1>6, Releases DEF Answers, IInv, ControlType
<1>7. CASE /\ txn[p].stored /\ txn[p].journal.state = "applying"
           /\ GoTo("undo_tmp") /\ StillRunning
  <2>1. /\ ControlType' /\ Waiting'
        /\ holder' = holder /\ run'.step = "undo_tmp" /\ run'.mode = run.mode /\ run'.txn = p
        /\ run'.row = run.row /\ run'.code = run.code /\ File' = File
    BY <1>1, <1>4, <1>7, GoesTo DEF Steps
  <2>2. Intact(p) /\ visible = {p} /\ File = Shared
    <3>1. txn[p].stored \in BOOLEAN
      BY DEF IInv, DiskOK, TxnType
    <3> QED BY <1>1, <1>2, <1>5, <1>7, <3>1, CurrentFile DEF Intact, IInv
  <2>3. UndoingOK(p)'
    <3>1. \A f \in {p, Shared} : target[f] = Old(p)[f] => Only(f, Old(p)[f])
      BY <1>2, <1>5 DEF Only
    <3>2. \A f \in {p, Shared} : (target[f] = Old(p)[f] => Only(f, Old(p)[f]))'
      BY <1>2, <1>4, <3>1, OnlyKept
    <3>3. visible' = {p} /\ Intact(p)'
      BY <1>4, <2>2 DEF Intact
    <3> QED BY SMT, <1>2, <2>1, <2>2, <3>2, <3>3 DEF UndoingOK, Undoing
  <2>4. RunOK'
    BY <1>2, <1>3, <2>1, <2>3
       DEF RunOK, ControlOK, Preparing, Undoing, Writing, Journalling, Cleaning
  <2> QED BY <1>4, <2>1, <2>4 DEF IInv
<1>8. CASE /\ txn[p].journal.state # "applying"
           /\ run' = [run EXCEPT !.step = "clean_stores", !.mode = "finish"]
           /\ StillRunning
  <2>1. /\ run' \in Runs
        /\ run'.step = "clean_stores" /\ run'.mode = "finish" /\ run'.txn = p
    <3>1. "clean_stores" \in Steps /\ "finish" \in Modes /\ "none" \in Codes
      BY DEF Steps, Modes, Codes
    <3>2. /\ run' \in Runs
          /\ run' = [step |-> "clean_stores", mode |-> "finish", txn |-> run.txn,
                     row |-> run.row, code |-> run.code]
      BY <1>1, <1>8, <3>1, OtherMode
    <3>3. run'.step = "clean_stores" /\ run'.mode = "finish" /\ run'.txn = run.txn
      BY <3>2
    <3> QED BY <3>2, <3>3
  <2>2. UNCHANGED <<holder, phase, base, answer, events>>
    BY <1>8 DEF StillRunning
  <2>3. ControlType'
    BY <1>1, <2>1, <2>2 DEF IInv, ControlType
  <2>4. Waiting'
    BY <1>4, <2>2 DEF IInv, Waiting, BaseOK, Trees, Files
  <2>5. CleaningOK(p)'
    BY <1>4, <1>5, <1>8, <2>1 DEF CleaningOK
  <2>6. RunOK'
    BY <1>2, <2>1, <2>2, <2>5
       DEF RunOK, ControlOK, Preparing, Undoing, Writing, Journalling, Cleaning
  <2> QED BY <1>4, <2>3, <2>4, <2>6 DEF IInv
<1> QED BY <1>6, <1>7, <1>8 DEF Inspect, LayoutIsExact

\* replace_file's error path leaves the files alone.
LEMMA TmpDiscarded ==
  ASSUME IInv, holder # Nobody, DiscardTmp, UNCHANGED <<txn, rootImg, storeImg, visible, parentImg>>
  PROVE  /\ DiskOK' /\ target' = target
         /\ \A f \in Files : Seen(f)' = Seen(f)
         /\ \A p \in Promotions : CanRollBack(p)' <=> CanRollBack(p)
         /\ \A p \in Promotions : Old(p)' = Old(p) /\ New(p)' = New(p) /\ Logged(p)' = Logged(p)
<1>1. FileType' /\ target' = target /\ \A f \in Files : Seen(f)' = Seen(f)
  <2>1. CASE NoFileCall
    BY <2>1 DEF NoFileCall, IInv, DiskOK, FileType, Seen
  <2>2. CASE PutFile(File, target[File], NoFile)
    <3>1. /\ target[File] \in Contents /\ target[File] \in Seen(File) /\ target' = target
          /\ NoFile \in Contents /\ File \in Files
      BY <2>2, CurrentFile, CurrentSeen DEF IInv, DiskOK, FileType, Trees, PutFile, Contents
    <3> QED BY SMT, <2>2, <3>1, PutFileEffect DEF IInv, DiskOK
  <2> QED BY <2>1, <2>2 DEF DiscardTmp
<1> QED BY <1>1, TemporaryOnly DEF IInv

LEMMA EventCounted ==
  ASSUME ControlType, Event
  PROVE  events' \in 0..MaxEvents
BY SMT, BoundAssumption DEF ControlType, Event

LEMMA FaultStep ==
  ASSUME IInv, Fault
  PROVE  IInv'
<1>1. /\ holder # Nobody /\ events' \in 0..MaxEvents
      /\ UNCHANGED <<txn, rootImg, storeImg, visible, parentImg>> /\ DiscardTmp
  BY EventCounted DEF Fault, NoRootCall, NoStoreCall, NoParentCall, DiscardTmp, IInv
<1>2. /\ DiskOK' /\ target' = target
      /\ \A f \in Files : Seen(f)' = Seen(f)
      /\ \A p \in Promotions : CanRollBack(p)' <=> CanRollBack(p)
      /\ \A p \in Promotions : Old(p)' = Old(p) /\ New(p)' = New(p) /\ Logged(p)' = Logged(p)
  BY <1>1, TmpDiscarded
<1>3. CASE \E a \in {"concurrent_update", Unsettled} : Release(a)
  <2>1. {"concurrent_update", Unsettled} \subseteq Answers
    BY UnsettledAnswer DEF Answers
  <2> QED BY <1>1, <1>2, <1>3, <2>1, Releases
<1>4. CASE /\ run.mode = "apply" /\ run.step \notin Preparing \cup {"attach"}
           /\ \E c \in {"concurrent_update", "identity_mismatch"} : run' = RollingBack(c)
           /\ UNCHANGED <<holder, phase, base, answer>>
  BY <1>1, <1>2, <1>4, StartsRollback
<1> QED BY <1>3, <1>4 DEF Fault, Preparing

LEMMA CrashStep ==
  ASSUME IInv, Crash
  PROVE  IInv'
<1>1. holder \in Commands /\ Nobody \notin Promotions /\ events' \in 0..MaxEvents
  BY DistinctAssumption, EventCounted DEF IInv, ControlType, Crash
<1>2. NoTree \in Trees
  BY DEF NoTree, Trees, Contents
<1>3. /\ DiskOK' /\ \A p \in Promotions : CanRollBack(p)' <=> CanRollBack(p)
  BY DiskUnchanged DEF IInv, Crash
<1>4. ControlType'
  <2>1. base' \in [Promotions -> Trees]
    BY <1>2 DEF IInv, ControlType, Crash
  <2>2. /\ phase' \in [Promotions -> {"idle", "checked", "captured", "locked"}]
        /\ (\A p \in Promotions : (phase[p] = "locked") <=> (holder = p))'
    BY <1>1 DEF IInv, ControlType, Crash
  <2> QED BY <1>1, <2>1, <2>2 DEF IInv, ControlType, Crash
<1>5. Waiting'
  BY <1>3 DEF IInv, Waiting, Crash, BaseOK, Trees, Files
<1>6. RunOK'
  BY DEF RunOK, Crash
<1> QED BY <1>3, <1>4, <1>5, <1>6 DEF IInv

\* A transaction directory as it comes back.
LEMMA DirectoryComesBack ==
  ASSUME NEW t \in [journal : Journals, next : BOOLEAN, stored : BOOLEAN, old : Trees],
         NEW j \in Journals, NEW n \in BOOLEAN, NEW s \in BOOLEAN,
         NEW u, u = [t EXCEPT !.journal = j, !.next = n, !.stored = s]
  PROVE  /\ u \in [journal : Journals, next : BOOLEAN, stored : BOOLEAN, old : Trees]
         /\ u.journal = j /\ u.next = n /\ u.stored = s /\ u.old = t.old
<1> DEFINE t1 == [t EXCEPT !.journal = j]
           t2 == [t1 EXCEPT !.next = n]
           t3 == [t2 EXCEPT !.stored = s]
<1>0. [t EXCEPT !.journal = j, !.next = n, !.stored = s] = t3
  OBVIOUS
<1>1. t1 = [journal |-> j, next |-> t.next, stored |-> t.stored, old |-> t.old]
  BY SMT
<1> HIDE DEF t1
<1>2. t2 = [journal |-> j, next |-> n, stored |-> t.stored, old |-> t.old]
  BY SMT, <1>1
<1> HIDE DEF t2
<1>3. t3 = [journal |-> j, next |-> n, stored |-> s, old |-> t.old]
  BY SMT, <1>2
<1> HIDE DEF t3
<1>4. u = [journal |-> j, next |-> n, stored |-> s, old |-> t.old] /\ t.old \in Trees
  <2>1. t.old \in Trees
    OBVIOUS
  <2> QED BY <1>0, <1>3, <2>1
<1>5. \A o \in Trees : \A v : v = [journal |-> j, next |-> n, stored |-> s, old |-> o] =>
        /\ v \in [journal : Journals, next : BOOLEAN, stored : BOOLEAN, old : Trees]
        /\ v.journal = j /\ v.next = n /\ v.stored = s /\ v.old = o
  BY SMT
<1> QED BY <1>4, <1>5

\* Every directory comes back as one of its images.
LEMMA PowerLossEffect ==
  ASSUME IInv, PowerLoss
  PROVE  /\ FileType' /\ TxnType' /\ ParentType' /\ WrittenBack'
         /\ \A f \in Files : target'[f] \in Seen(f)
         /\ \A p \in Promotions : /\ Old(p)' = Old(p) /\ New(p)' = New(p)
                                  /\ txn'[p].journal.state \in Logged(p)
                                  /\ txn'[p].stored \in storeImg[p]
         /\ visible' \in parentImg
<1>1. PICK F \in {g \in [Files -> UNION {fileImg[f] : f \in Files}] :
                    \A f \in Files : g[f] \in fileImg[f]} :
        /\ target' = [f \in Files |-> F[f][1]]
        /\ tmp' = [f \in Files |-> F[f][2]]
        /\ fileImg' = [f \in Files |-> {F[f]}]
  BY DEF PowerLoss
<1>2. PICK R \in {g \in [Promotions -> UNION {rootImg[p] : p \in Promotions}] :
                    \A p \in Promotions : g[p] \in rootImg[p]},
           S \in {g \in [Promotions -> BOOLEAN] :
                    \A p \in Promotions : g[p] \in storeImg[p]} :
        /\ txn' = [p \in Promotions |->
                     [txn[p] EXCEPT !.journal = R[p][1], !.next = R[p][2], !.stored = S[p]]]
        /\ rootImg' = [p \in Promotions |-> {R[p]}]
        /\ storeImg' = [p \in Promotions |-> {S[p]}]
  BY DEF PowerLoss
<1>3. PICK V \in parentImg : visible' = V /\ parentImg' = {V}
  BY DEF PowerLoss
<1>4. \A f \in Files : /\ F[f] \in fileImg[f]
                       /\ F[f] = <<F[f][1], F[f][2]>>
                       /\ F[f][1] \in Contents /\ F[f][2] \in Contents \cup {Partial}
  <2>1. \A f \in Files : F[f] \in fileImg[f] /\ fileImg[f] \subseteq Contents \X (Contents \cup {Partial})
    BY DEF IInv, DiskOK, FileType
  <2> HIDE DEF Contents
  <2> QED BY SMT, <2>1
<1>5. FileType' /\ fileImg' = [f \in Files |-> {<<target'[f], tmp'[f]>>}]
  <2>1. \A f \in Files : target'[f] = F[f][1] /\ tmp'[f] = F[f][2]
    BY <1>1
  <2>2. \A f \in Files : {F[f]} \in SUBSET (Contents \X (Contents \cup {Partial}))
    BY SMT, <1>4 DEF IInv, DiskOK, FileType
  <2>3. \A f \in Files : {F[f]} = {<<target'[f], tmp'[f]>>} /\ <<target'[f], tmp'[f]>> \in {F[f]}
    BY <1>4, <2>1
  <2>4. fileImg' = [f \in Files |-> {<<target'[f], tmp'[f]>>}]
    BY <1>1, <2>3
  <2>5. target' \in [Files -> Contents] /\ tmp' \in [Files -> Contents \cup {Partial}]
    BY <1>1, <1>4
  <2>6. fileImg' \in [Files -> SUBSET (Contents \X (Contents \cup {Partial}))]
    BY <1>1, <2>2
  <2>7. \A f \in Files : <<target'[f], tmp'[f]>> \in fileImg'[f]
    BY <2>4
  <2> QED BY <2>4, <2>5, <2>6, <2>7 DEF FileType, Trees, Contents, Files
<1>6. \A f \in Files : target'[f] \in Seen(f)
  BY <1>1, <1>4 DEF Seen
<1>7. \A p \in Promotions : /\ R[p] \in rootImg[p] /\ S[p] \in storeImg[p] /\ S[p] \in BOOLEAN
                            /\ R[p] = <<R[p][1], R[p][2]>>
                            /\ R[p][1] \in Journals /\ R[p][2] \in BOOLEAN
                            /\ R[p] \in Journals \X BOOLEAN
  <2>1. \A p \in Promotions : R[p] \in rootImg[p] /\ rootImg[p] \subseteq Journals \X BOOLEAN
    BY DEF IInv, DiskOK, TxnType
  <2> HIDE DEF Journals
  <2> QED BY SMT, <2>1
<1>8. \A p \in Promotions :
        /\ txn'[p] \in [journal : Journals, next : BOOLEAN, stored : BOOLEAN, old : Trees]
        /\ txn'[p].journal = R[p][1] /\ txn'[p].next = R[p][2]
        /\ txn'[p].stored = S[p] /\ txn'[p].old = txn[p].old
  <2> TAKE p \in Promotions
  <2>1. txn'[p] = [txn[p] EXCEPT !.journal = R[p][1], !.next = R[p][2], !.stored = S[p]]
    BY <1>2
  <2>2. txn[p] \in [journal : Journals, next : BOOLEAN, stored : BOOLEAN, old : Trees]
    BY DEF IInv, DiskOK, TxnType
  <2>3. R[p][1] \in Journals /\ R[p][2] \in BOOLEAN /\ S[p] \in BOOLEAN
    BY <1>7
  <2>4. PICK t \in [journal : Journals, next : BOOLEAN, stored : BOOLEAN, old : Trees],
             j \in Journals, n \in BOOLEAN, s \in BOOLEAN, u \in {txn'[p]} :
          t = txn[p] /\ j = R[p][1] /\ n = R[p][2] /\ s = S[p]
    BY <2>2, <2>3
  <2>5. u = [t EXCEPT !.journal = j, !.next = n, !.stored = s]
    BY <2>1, <2>4
  <2>6. /\ u \in [journal : Journals, next : BOOLEAN, stored : BOOLEAN, old : Trees]
        /\ u.journal = j /\ u.next = n /\ u.stored = s /\ u.old = t.old
    BY <2>5, DirectoryComesBack
  <2> QED BY <2>4, <2>6
<1>9. /\ DOMAIN txn' = Promotions /\ txn' = [p \in Promotions |-> txn'[p]]
      /\ rootImg' = [p \in Promotions |-> {R[p]}]
      /\ storeImg' = [p \in Promotions |-> {S[p]}]
  BY <1>2
<1>10. \A p \in Promotions : txn'[p].journal = R[p][1] /\ txn'[p].next = R[p][2]
                               /\ txn'[p].stored = S[p] /\ txn'[p].old = txn[p].old
  BY <1>8
<1>11. TxnType' /\ rootImg' = [p \in Promotions |-> {<<txn'[p].journal, txn'[p].next>>}]
                /\ storeImg' = [p \in Promotions |-> {txn'[p].stored}]
  <2>1. \A p \in Promotions : txn[p].old \in Trees
    BY DEF IInv, DiskOK, TxnType
  <2>2. txn' \in [Promotions -> [journal : Journals, next : BOOLEAN, stored : BOOLEAN, old : Trees]]
    <3>2. \A p \in Promotions :
            txn'[p] \in [journal : Journals, next : BOOLEAN, stored : BOOLEAN, old : Trees]
      BY <1>8
    <3> QED BY <1>9, <3>2
  <2>3. \A p \in Promotions : {R[p]} = {<<txn'[p].journal, txn'[p].next>>}
    BY <1>7, <1>10
  <2>4. /\ rootImg' = [p \in Promotions |-> {<<txn'[p].journal, txn'[p].next>>}]
        /\ storeImg' = [p \in Promotions |-> {txn'[p].stored}]
    BY <1>9, <1>10, <2>3
  <2>5. /\ rootImg' \in [Promotions -> SUBSET (Journals \X BOOLEAN)]
        /\ storeImg' \in [Promotions -> SUBSET BOOLEAN]
    BY SMT, <1>7, <1>9
  <2> QED BY <2>2, <2>4, <2>5 DEF TxnType, Trees, Journals
<1>12. \A p \in Promotions : /\ Old(p)' = Old(p) /\ New(p)' = New(p)
                             /\ txn'[p].journal.state \in Logged(p)
                             /\ txn'[p].stored \in storeImg[p]
  <2>1. \A p \in Promotions : Old(p)' = Old(p)
    BY <1>10 DEF Old
  <2>2. \A p \in Promotions : New(p)' = New(p)
    BY <2>1 DEF New, Old, Promoted
  <2> QED BY <1>7, <1>10, <2>1, <2>2 DEF Logged
<1>13. ParentType' /\ visible' \in parentImg
  BY <1>3 DEF IInv, DiskOK, ParentType
<1> QED BY <1>3, <1>5, <1>6, <1>11, <1>12, <1>13 DEF WrittenBack

LEMMA PowerLossStep ==
  ASSUME IInv, PowerLoss
  PROVE  /\ IInv' /\ \A p \in Promotions : CanRollBack(p)' => CanRollBack(p)
<1>1. /\ FileType' /\ TxnType' /\ ParentType' /\ WrittenBack'
      /\ \A f \in Files : target'[f] \in Seen(f)
      /\ \A p \in Promotions : /\ Old(p)' = Old(p) /\ New(p)' = New(p)
                               /\ txn'[p].journal.state \in Logged(p)
                               /\ txn'[p].stored \in storeImg[p]
      /\ visible' \in parentImg
  BY PowerLossEffect
<1>2. \A p \in Promotions : CanRollBack(p)' => CanRollBack(p)
  <2> SUFFICES ASSUME NEW p \in Promotions, CanRollBack(p)' PROVE CanRollBack(p)
    OBVIOUS
  <2>1. /\ Logged(p)' = {txn'[p].journal.state} /\ storeImg'[p] = {txn'[p].stored}
        /\ parentImg' = {visible'}
    BY <1>1, CaughtUp
  <2>2. p \in visible' /\ txn'[p].journal.state = "applying" /\ txn'[p].stored = TRUE
    BY <2>1, RollBackDef
  <2> QED BY <1>1, <2>2, RollBackDef
<1>3. DiskOK'
  <2>1. \A p \in Promotions : CanRollBack(p)' => BaseOK(p, Old(p))'
    <3>1. \A p \in Promotions : CanRollBack(p)' => BaseOK(p, Old(p)) /\ Old(p)' = Old(p)
      BY <1>1, <1>2 DEF IInv, DiskOK, DiskInv, FilesOK
    <3> QED BY <3>1 DEF BaseOK, Trees, Files
  <2>2. target'[Shared] # NoFile /\ \A p, q \in visible' : p = q
    BY SMT, <1>1 DEF IInv, DiskOK, DiskInv, Files
  <2> QED BY <1>1, <2>1, <2>2, CaughtUpIsOK
<1>4. /\ holder' = Nobody /\ run' = Idle /\ answer' = answer /\ events' \in 0..MaxEvents
      /\ phase' = [p \in Promotions |-> "idle"] /\ base' = [p \in Promotions |-> NoTree]
  BY EventCounted DEF PowerLoss, IInv
<1>5. ControlType'
  <2>1. NoTree \in Trees /\ Nobody \notin Promotions
    BY DistinctAssumption DEF NoTree, Trees, Contents
  <2> QED BY <1>4, <2>1 DEF IInv, ControlType
<1>6. Waiting' /\ RunOK'
  BY <1>4 DEF Waiting, RunOK
<1> QED BY <1>2, <1>3, <1>5, <1>6 DEF IInv

LEMMA WriteBackStep ==
  ASSUME IInv, WriteBack
  PROVE  IInv' /\ WrittenBack' /\ \A p \in Promotions : CanRollBack(p)' => CanRollBack(p)
<1>1. /\ UNCHANGED <<target, tmp, txn, visible, holder, run, phase, base, answer, events>>
      /\ holder = Nobody
  BY DEF WriteBack
<1>2. WrittenBack' /\ FileType' /\ ParentType'
  BY SMT DEF WriteBack, WrittenBack, IInv, DiskOK, FileType, ParentType, Trees
<1>3. TxnType'
  <2>1. \A p \in Promotions : <<txn[p].journal, txn[p].next>> \in Journals \X BOOLEAN
    BY DEF IInv, DiskOK, TxnType
  <2> QED BY <2>1 DEF WriteBack, IInv, DiskOK, TxnType
<1>4. /\ \A f \in Files : Seen(f)' = {target[f]}
      /\ \A p \in Promotions : Logged(p)' = {txn[p].journal.state} /\ storeImg'[p] = {txn[p].stored}
      /\ parentImg' = {visible}
  BY <1>1, <1>2, CaughtUp
<1>5. /\ \A f \in Files : target[f] \in Seen(f)
      /\ \A p \in Promotions : txn[p].journal.state \in Logged(p) /\ txn[p].stored \in storeImg[p]
      /\ visible \in parentImg
  BY CurrentSeen DEF IInv, DiskOK, TxnType, ParentType
<1>6. \A p \in Promotions : Old(p)' = Old(p) /\ New(p)' = New(p)
  BY <1>1 DEF Old, New, Promoted
<1>7. DiskOK' /\ \A p \in Promotions : CanRollBack(p)' => CanRollBack(p)
  <2>1. \A f \in Files : Only(f, target[f])'
    BY <1>1, <1>4 DEF Only
  <2>2. /\ \A p \in Promotions : Logged(p)' \subseteq Logged(p) /\ storeImg'[p] \subseteq storeImg[p]
        /\ parentImg' \subseteq parentImg
        /\ \A f \in Files : Seen(f)' \subseteq Seen(f)
    BY SMT, <1>4, <1>5
  <2> QED BY <1>1, <1>2, <1>3, <1>6, <2>1, <2>2, DiskShrinks DEF IInv
<1>8. ControlType'
  BY <1>1 DEF IInv, ControlType
<1>9. Waiting' /\ RunOK'
  BY <1>1, <1>7 DEF IInv, Waiting, RunOK, BaseOK, Trees, Files
<1> QED BY <1>2, <1>7, <1>8, <1>9 DEF IInv

LEMMA ForeignWriteStep ==
  ASSUME IInv, ForeignWrite
  PROVE  /\ IInv' /\ WrittenBack'
         /\ \A p \in Promotions : CanRollBack(p)' <=> CanRollBack(p)
         /\ \A p \in Promotions : Old(p)' = Old(p) /\ New(p)' = New(p)
         /\ target' = [target EXCEPT ![Shared] = <<Foreign>>]
<1>1. /\ UNCHANGED <<tmp, txn, rootImg, storeImg, visible, parentImg, holder, run, phase, base, answer>>
      /\ holder = Nobody /\ WrittenBack /\ events' \in 0..MaxEvents
      /\ target' = [target EXCEPT ![Shared] = <<Foreign>>]
      /\ fileImg' = [fileImg EXCEPT ![Shared] = {<<<<Foreign>>, tmp[Shared]>>}]
  BY EventCounted DEF ForeignWrite, IInv
<1>2. Shared \in Files /\ <<Foreign>> \in Contents /\ <<Foreign>> # NoFile
  <2>1. \A S, x : x \in S => <<x>> \in Seq(S)
    BY SMT
  <2> QED BY <2>1, DistinctAssumption DEF Files, Contents
<1>3. FileType' /\ target'[Shared] = <<Foreign>>
      /\ fileImg' = [f \in Files |-> {<<target'[f], tmp'[f]>>}]
  <2> DEFINE c == <<Foreign>>
  <2>1. /\ target' = [target EXCEPT ![Shared] = c]
        /\ fileImg' = [fileImg EXCEPT ![Shared] = {<<c, tmp[Shared]>>}]
        /\ c \in Contents /\ Shared \in Files /\ tmp' = tmp
        /\ fileImg = [f \in Files |-> {<<target[f], tmp[f]>>}]
    BY <1>1, <1>2 DEF WrittenBack
  <2> HIDE DEF c
  <2>2. FileType' /\ target'[Shared] = c
    BY SMT, <2>1 DEF IInv, DiskOK, FileType, Trees
  <2>3. fileImg' = [f \in Files |-> {<<target'[f], tmp'[f]>>}]
    BY <2>1 DEF IInv, DiskOK, FileType, Trees
  <2> QED BY <2>2, <2>3 DEF c
<1>4. /\ WrittenBack' /\ TxnType' /\ ParentType'
      /\ \A p \in Promotions : Old(p)' = Old(p) /\ New(p)' = New(p) /\ Logged(p)' = Logged(p)
  BY <1>1, <1>3 DEF WrittenBack, IInv, DiskOK, TxnType, ParentType, Old, New, Promoted, Logged
<1>5. \A p \in Promotions : CanRollBack(p)' <=> CanRollBack(p)
  BY <1>1, <1>4, RollBackDef
<1>6. DiskOK'
  <2>1. \A p \in Promotions : CanRollBack(p)' => BaseOK(p, Old(p))'
    <3>1. \A p \in Promotions : CanRollBack(p)' => BaseOK(p, Old(p)) /\ Old(p)' = Old(p)
      BY <1>4, <1>5 DEF IInv, DiskOK, DiskInv, FilesOK
    <3> QED BY <3>1 DEF BaseOK, Trees, Files
  <2>2. target'[Shared] # NoFile /\ \A p, q \in visible' : p = q
    BY <1>1, <1>2, <1>3 DEF IInv, DiskOK, DiskInv, ParentType
  <2> QED BY <1>3, <1>4, <2>1, <2>2, CaughtUpIsOK
<1>7. ControlType'
  BY <1>1 DEF IInv, ControlType
<1>8. Waiting' /\ RunOK'
  BY <1>1, <1>5 DEF IInv, Waiting, RunOK, BaseOK, Trees, Files
<1> QED BY <1>1, <1>4, <1>5, <1>6, <1>7, <1>8 DEF IInv

-----------------------------------------------------------------------------
(* The invariant. *)

LEMMA InitialState == Init => IInv
<1> SUFFICES ASSUME Init PROVE IInv
  OBVIOUS
<1>1. /\ <<>> \in Contents /\ NoFile \in Contents /\ NoFile # <<>> /\ Shared \in Files
      /\ NoTree \in Trees /\ Nobody \notin Promotions
  <2>1. \A S : <<>> \in Seq(S)
    BY SMT
  <2>2. <<>> \in Contents /\ NoFile \in Contents /\ NoFile # <<>>
    BY <2>1, DistinctAssumption DEF Contents
  <2> QED BY <2>2, DistinctAssumption DEF NoTree, Trees, Files
<1>2. FileType
  <2>1. target \in Trees
    BY <1>1 DEF Init, Trees
  <2>2. \A f \in Files : {<<target[f], NoFile>>} \in SUBSET (Contents \X (Contents \cup {Partial}))
    BY SMT, <1>1, <2>1 DEF Trees
  <2>3. fileImg \in [Files -> SUBSET (Contents \X (Contents \cup {Partial}))]
    BY <2>2 DEF Init
  <2>4. tmp \in [Files -> Contents \cup {Partial}] /\ \A f \in Files : <<target[f], tmp[f]>> \in fileImg[f]
    BY <1>1 DEF Init
  <2> QED BY <2>1, <2>3, <2>4 DEF FileType
<1>3. TxnType
  <2>1. NoJournal \in Journals /\ <<NoJournal, FALSE>> \in Journals \X BOOLEAN
    BY DEF Journals
  <2>2. NoTxn \in [journal : Journals, next : BOOLEAN, stored : BOOLEAN, old : Trees]
        /\ NoTxn.journal = NoJournal /\ NoTxn.next = FALSE /\ NoTxn.stored = FALSE
    BY <1>1, <2>1 DEF NoTxn
  <2>3. /\ txn = [p \in Promotions |-> NoTxn] /\ rootImg = [p \in Promotions |-> {<<NoJournal, FALSE>>}]
        /\ storeImg = [p \in Promotions |-> {FALSE}]
    BY DEF Init
  <2> HIDE DEF NoTxn, NoJournal
  <2> QED BY <2>1, <2>2, <2>3 DEF TxnType
<1>4. ParentType /\ \A p \in Promotions : ~ CanRollBack(p)
  BY RollBackDef DEF Init, ParentType
<1>5. \A f \in Files : Seen(f) = {target[f]}
  <2>1. \A a, b : {i[1] : i \in {<<a, b>>}} = {a}
    BY SMT
  <2>2. \A f \in Files : fileImg[f] = {<<target[f], NoFile>>}
    BY DEF Init
  <2> QED BY <2>1, <2>2 DEF Seen
<1>6. DiskInv
  <2>1. target[Shared] # NoFile /\ parentImg = {{}}
    BY <1>1 DEF Init
  <2> QED BY <1>1, <1>4, <1>5, <2>1 DEF DiskInv, Only
<1>7. ControlType
  BY SMT, <1>1, BoundAssumption DEF Init, ControlType, Answers
<1>8. Waiting /\ RunOK
  BY DEF Init, Waiting, RunOK
<1> QED BY <1>2, <1>3, <1>4, <1>6, <1>7, <1>8 DEF IInv, DiskOK

LEMMA Stutters == ASSUME IInv, UNCHANGED vars PROVE IInv'
<1>1. UNCHANGED disk /\ UNCHANGED <<holder, run, phase, base, answer, events>>
  BY DEF vars
<1>2. DiskOK' /\ \A p \in Promotions : CanRollBack(p)' <=> CanRollBack(p)
  BY <1>1, DiskUnchanged DEF IInv
<1>3. RunOK'
  BY <1>1, HolderUndisturbed
<1>4. ControlType'
  BY <1>1 DEF IInv, ControlType
<1>5. Waiting'
  BY <1>1, <1>2 DEF IInv, Waiting, BaseOK, Trees, Files
<1> QED BY <1>2, <1>3, <1>4, <1>5 DEF IInv

LEMMA InvariantKept == IInv /\ [Next]_vars => IInv'
<1> SUFFICES ASSUME IInv, [Next]_vars PROVE IInv'
  OBVIOUS
<1>1. CASE UNCHANGED vars
  BY <1>1, Stutters
<1>2. CASE \E p \in Promotions : CheckPending(p) \/ Capture(p) \/ Lock(p) \/ Recover(p)
  BY <1>2, CheckPendingStep, CaptureStep, LockStep, RecoverStep
<1>3. CASE Step
  BY <1>3, PreflightStep, PrepareStep, SyncPreparedStep, PublishStep, AttachStep,
     SyncPublishedStep, CreateTmpStep, WriteTmpStep, RenameStep, SyncRowStep, JournalNextStep,
     JournalRenameStep, JournalSyncStep, ValidateStep, UndoTmpStep, UndoSyncStep, UndoFileStep,
     CleanStoresStep, SyncStoresStep, UnlinkJournalStep, SyncEmptyStep, RmdirStep,
     SyncRemovedStep, InspectStep
     DEF Step
<1>4. CASE Fault \/ Crash \/ PowerLoss \/ WriteBack \/ ForeignWrite
  BY <1>4, FaultStep, CrashStep, PowerLossStep, WriteBackStep, ForeignWriteStep
<1> QED BY <1>1, <1>2, <1>3, <1>4 DEF Next

\* The disk and the lock holder fit together in every reachable state.
LEMMA Invariance == Spec => []IInv
BY InitialState, InvariantKept, PTL DEF Spec

\* Whatever the number of promotions and of deaths, power losses, I/O errors and
\* foreign writes between the system calls of materialize-promotion: a journal of
\* the transaction directory is one its parser accepts, the lock holder is in one
\* of its rows, and every directory is in one of the states it may come back in.
THEOREM PromotionTypes == Spec => []TypeOK
BY Invariance, InvariantImpliesType, PTL
=============================================================================
