--------------------------- MODULE AtomicPromotion ---------------------------
(***************************************************************************)
(* What package materialize-promotion promises its users: the target       *)
(* package changes from one tree to the next in a single step, in spite of *)
(* interruptions, concurrent promotions and other package commands, and    *)
(* the command's answer says whether that step was taken.                  *)
(***************************************************************************)
EXTENDS Integers, Sequences

CONSTANTS
  Promotions,   \* promotion plans; p is also the file that plan p adds
  Shared,       \* the generated file that every promotion replaces
  Foreign,      \* the content another package command gives that file
  NoFile        \* the content of a file that does not exist

VARIABLES
  tree,         \* the package, as files and contents
  stage,        \* how far the run of each promotion is
  answer        \* the last answer given to each promotion's user

Files == Promotions \cup {Shared}

\* The tree after promotion p of tree t: its artifact is added, and the shared
\* file is regenerated to include it.
Promoted(p, t) == [t EXCEPT ![p] = <<p>>, ![Shared] = Append(t[Shared], p)]

Answers == {"none", "passed", "concurrent_update", "identity_mismatch",
            "target_not_clean", "recovery_required"}

-----------------------------------------------------------------------------
Init ==
  /\ tree = [f \in Files |-> IF f = Shared THEN <<>> ELSE NoFile]
  /\ stage = [p \in Promotions |-> "out"]
  /\ answer = [p \in Promotions |-> "none"]

\* A run of promotion p starts, and has no answer yet.
Enter(p) ==
  /\ stage[p] = "out"
  /\ stage' = [stage EXCEPT ![p] = "in"]
  /\ answer' = [answer EXCEPT ![p] = "none"]
  /\ UNCHANGED tree

\* The one step that changes the package.
Commit(p) ==
  /\ stage[p] = "in"
  /\ tree[p] = NoFile
  /\ tree' = Promoted(p, tree)
  /\ stage' = [stage EXCEPT ![p] = "committed"]
  /\ UNCHANGED answer

\* A run ends.  One that has committed answers passed, or asks for recovery when
\* it could not clean up; one that has not never answers passed, and leaves its
\* fate open only when it asks for recovery or never got to replace a file.
Answer(p) ==
  /\ stage[p] \in {"in", "committed"}
  /\ \E a \in Answers \ {"none"}, s \in {"out", "open"} :
       /\ a = "passed" => stage[p] = "committed"
       /\ stage[p] = "committed" => a \in {"passed", "recovery_required"}
       /\ s = "open" => a \in {"recovery_required", "concurrent_update"}
       /\ answer' = [answer EXCEPT ![p] = a]
       /\ stage' = [stage EXCEPT ![p] = s]
  /\ UNCHANGED tree

\* A command is refused before it does anything.
Refuse(p) ==
  /\ stage[p] \in {"out", "open"}
  /\ \E a \in Answers \ {"none", "passed"} : answer' = [answer EXCEPT ![p] = a]
  /\ UNCHANGED <<tree, stage>>

\* The runs in P are cut off without an answer.  One of them may commit in the
\* same instant, when its last write turns out to have reached the disk.
Interrupt(P) ==
  /\ \A p \in P : stage[p] # "out"
  /\ \E S \in [P -> {"out", "open"}] :
       stage' = [p \in Promotions |-> IF p \in P THEN S[p] ELSE stage[p]]
  /\ \/ UNCHANGED tree
     \/ \E p \in P : /\ stage[p] \in {"in", "open"}
                     /\ tree[p] = NoFile
                     /\ tree' = Promoted(p, tree)
  /\ UNCHANGED answer

\* Recovery settles a run whose fate was open, one way or the other.
Settle(p) ==
  /\ stage[p] = "open"
  /\ stage' = [stage EXCEPT ![p] = "out"]
  /\ \/ UNCHANGED tree
     \/ tree[p] = NoFile /\ tree' = Promoted(p, tree)
  /\ UNCHANGED answer

\* Another package command regenerates the shared file.
ForeignWrite ==
  /\ tree' = [tree EXCEPT ![Shared] = <<Foreign>>]
  /\ UNCHANGED <<stage, answer>>

Next ==
  \/ \E p \in Promotions : Enter(p) \/ Commit(p) \/ Answer(p) \/ Refuse(p) \/ Settle(p)
  \/ \E P \in SUBSET Promotions : Interrupt(P)
  \/ ForeignWrite

Spec == Init /\ [][Next]_<<tree, stage, answer>>
=============================================================================
