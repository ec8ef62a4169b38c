-------------------------- MODULE MCVerificationPlan --------------------------
(* Small locks for VerificationPlan. *)
EXTENDS VerificationPlan

\* Every graph without an import of itself, all entries local and current.
Graphs == {[imports |-> g, external |-> {}, stale |-> {}] :
             g \in {h \in [Entries -> SUBSET Entries] : \A e \in Entries : e \notin h[e]}}

\* Every graph over the first two entries, with missing modules, imports of
\* oneself, external entries and at most one stale hash.
Flawed ==
  {[imports |-> [e \in Entries |-> IF e = 1 THEN a ELSE IF e = 2 THEN b ELSE {}],
    external |-> x, stale |-> s] :
     a \in SUBSET {Absent, 1, 2}, b \in SUBSET {Absent, 1, 2}, x \in SUBSET {1, 2},
     s \in {{}} \cup {{<<e, i, h>>} : e \in {1, 2}, i \in {1, 2}, h \in Hashes}}

MCLocks == Graphs \cup Flawed
=============================================================================
