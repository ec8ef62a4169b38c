---------------------------- MODULE GovernanceWriter ----------------------------
(***************************************************************************)
(* The writer of governance artifacts: several commands that update one    *)
(* canonical JSON file, each under the sibling lock file, by a temporary   *)
(* file that is synced and renamed.                                        *)
(*                                                                         *)
(* The content of the artifact is the set of commands whose contribution   *)
(* it holds; {} is a missing file.  images is the set of contents a power  *)
(* loss may leave.  A command uses one of three protocols:                 *)
(*   merge    lock, read, replace_if_unchanged with the lock retained      *)
(*            (package_l2_acceptance_aggregate, in place);                 *)
(*   replace  read, lock, replace_if_unchanged                             *)
(*            (register-equivalent, registry reconciliation);              *)
(*   create   lock, write CreateOrIdentical.                               *)
(***************************************************************************)
EXTENDS Naturals, FiniteSets

CONSTANTS
  Commands,     \* commands, each with a contribution of its own
  Nobody,       \* the holder of a free lock
  Policy        \* the protocol of each command

ASSUME NobodyAssumption == Nobody \notin Commands
ASSUME PolicyAssumption == Policy \in [Commands -> {"merge", "replace", "create"}]

VARIABLES
  content,      \* the artifact as every process sees it
  images,       \* the contents a power loss may leave
  holder,       \* who has the flock of the sibling lock file
  pc,           \* where each command is
  expected,     \* expected_existing of each command
  bytes,        \* what each command writes
  written       \* commands that passed after writing

vars == <<content, images, holder, pc, expected, bytes, written>>

Locked == {"read", "compare", "publish", "sync"}

Init ==
  /\ content = {}
  /\ images = {{}}
  /\ holder = Nobody
  /\ pc = [c \in Commands |-> "idle"]
  /\ expected = [c \in Commands |-> {}]
  /\ bytes = [c \in Commands |-> {c}]
  /\ written = {}

\* The command ends; dropping GovernanceArtifactLock unlocks.
Finish(c) ==
  /\ pc' = [pc EXCEPT ![c] = "idle"]
  /\ holder' = IF holder = c THEN Nobody ELSE holder

\* A replace command reads the file and prepares its bytes without the lock.
ReadUnlocked(c) ==
  /\ pc[c] = "idle"
  /\ Policy[c] = "replace"
  /\ content # {}
  /\ expected' = [expected EXCEPT ![c] = content]
  /\ bytes' = [bytes EXCEPT ![c] = content \cup {c}]
  /\ pc' = [pc EXCEPT ![c] = "prepared"]
  /\ UNCHANGED <<content, images, holder, written>>

\* lock_governance_artifact: flock without waiting.
Acquire(c) ==
  /\ \/ pc[c] = "prepared"
     \/ pc[c] = "idle" /\ Policy[c] # "replace"
  /\ holder = Nobody
  /\ holder' = c
  /\ pc' = [pc EXCEPT ![c] = IF Policy[c] = "merge" THEN "read" ELSE "compare"]
  /\ UNCHANGED <<content, images, expected, bytes, written>>

\* The lock is taken: concurrent_update.
AcquireRefused(c) ==
  /\ pc[c] = "prepared"
  /\ holder # Nobody
  /\ Finish(c)
  /\ UNCHANGED <<content, images, expected, bytes, written>>

\* read_existing under the lock; a missing file ends the command.
ReadLocked(c) ==
  /\ pc[c] = "read"
  /\ IF content = {}
       THEN Finish(c) /\ UNCHANGED <<expected, bytes>>
       ELSE /\ expected' = [expected EXCEPT ![c] = content]
            /\ bytes' = [bytes EXCEPT ![c] = content \cup {c}]
            /\ pc' = [pc EXCEPT ![c] = "compare"]
            /\ UNCHANGED holder
  /\ UNCHANGED <<content, images, written>>

\* Mutant: write_locked without the comparison with expected_existing.
MutNoCompare(c) ==
  /\ pc[c] = "compare"
  /\ pc' = [pc EXCEPT ![c] = "publish"]
  /\ UNCHANGED <<content, images, expected, bytes, holder, written>>

\* write_locked up to the temporary file: the captured bytes must still be
\* there, identical bytes are success, and create never replaces.
Compare(c) ==
  /\ pc[c] = "compare"
  /\ \/ /\ Policy[c] # "create" /\ content # expected[c]
        /\ Finish(c)
     \/ /\ Policy[c] # "create" => content = expected[c]
        /\ content = bytes[c]
        /\ Finish(c)
     \/ /\ Policy[c] = "create" /\ content \notin {{}, bytes[c]}
        /\ Finish(c)
     \/ /\ IF Policy[c] = "create" THEN content = {} ELSE content = expected[c]
        /\ content # bytes[c]
        /\ pc' = [pc EXCEPT ![c] = "publish"]
        /\ UNCHANGED holder
  /\ UNCHANGED <<content, images, expected, bytes, written>>

\* The synced temporary file takes the name of the artifact.
Publish(c) ==
  /\ pc[c] = "publish"
  /\ content' = bytes[c]
  /\ images' = images \cup {bytes[c]}
  /\ pc' = [pc EXCEPT ![c] = "sync"]
  /\ UNCHANGED <<expected, bytes, holder, written>>

SyncDirectory(c) ==
  /\ pc[c] = "sync"
  /\ images' = {content}
  /\ written' = written \cup {c}
  /\ Finish(c)
  /\ UNCHANGED <<content, expected, bytes>>

\* The process dies, or a system call fails: the flock goes with it and a
\* temporary file may stay, under a name nobody else uses.
Stop(c) ==
  /\ pc[c] # "idle"
  /\ Finish(c)
  /\ UNCHANGED <<content, images, expected, bytes, written>>

PowerLoss ==
  /\ content' \in images
  /\ images' = {content'}
  /\ holder' = Nobody
  /\ pc' = [c \in Commands |-> "idle"]
  /\ UNCHANGED <<expected, bytes, written>>

Next ==
  \/ PowerLoss
  \/ \E c \in Commands :
       \/ ReadUnlocked(c) \/ Acquire(c) \/ AcquireRefused(c) \/ ReadLocked(c)
       \/ Compare(c) \/ Publish(c) \/ SyncDirectory(c) \/ Stop(c)

Spec == Init /\ [][Next]_vars

-----------------------------------------------------------------------------
TypeOK ==
  /\ content \in SUBSET Commands
  /\ images \in SUBSET SUBSET Commands
  /\ content \in images
  /\ holder \in Commands \cup {Nobody}
  /\ pc \in [Commands -> {"idle", "prepared"} \cup Locked]
  /\ expected \in [Commands -> SUBSET Commands]
  /\ bytes \in [Commands -> SUBSET Commands]
  /\ written \in SUBSET Commands

\* No update is lost: whatever a command wrote before it passed is in the
\* artifact for good, in every state a power loss may leave, however the
\* commands interleave, die and start again.
WrittenIsKept ==
  \A image \in images : written \subseteq image
=============================================================================
