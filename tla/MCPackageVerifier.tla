-------------------------- MODULE MCPackageVerifier --------------------------
(***************************************************************************)
(* PackageVerifier for two runs over two packages of three modules: in     *)
(* Fork two modules share a layer and the third imports both, in Chain the *)
(* first module is imported twice.  The checkers disagree on one module.   *)
(***************************************************************************)
EXTENDS PackageVerifier

Fork ==
  [imports |-> <<{}, {}, {1, 2}>>, layer |-> <<0, 0, 1>>,
   sound |-> [m \in Modes |-> IF m = "fast" THEN {1, 2, 3} ELSE {1, 3}]]

Chain ==
  [imports |-> <<{}, {1}, {1, 2}>>, layer |-> <<0, 1, 2>>,
   sound |-> [m \in Modes |-> {1, 2, 3}]]

MCPackages == {Fork, Chain}

\* All bytes as locked, or one entry with other bytes or none.
MCArtifacts ==
  {<<"locked", "locked", "locked">>, <<"locked", "other", "locked">>,
   <<"missing", "locked", "locked">>}

\* The whole package, the closure of entry 2 or nothing; with or without cache hits.
MCRequests ==
  {q \in [package : MCPackages, strategy : {"layered", "serial", "reference"},
          artifact : MCArtifacts, selected : {{1, 2, 3}, {1, 2}, {}},
          live : {{1, 2, 3}, {1, 2}, {1}, {}}] :
     /\ q.selected = {1, 2} => q.package = Chain /\ q.strategy = "reference"
     /\ IF q.strategy = "serial" THEN q.package = Chain ELSE q.live = q.selected
     /\ q.live \subseteq q.selected
     /\ q.selected = {} => q.artifact = <<"locked", "locked", "locked">>
     /\ \A e \in q.selected \ q.live :
          q.artifact[e] = "locked" /\ e \in q.package.sound["fast"]}
=============================================================================
