--------------------------- MODULE MCGovernanceWriter ---------------------------
(***************************************************************************)
(* A command that creates the artifact, one that replaces it and two that  *)
(* merge into it.                                                          *)
(***************************************************************************)
EXTENDS GovernanceWriter, TLC

CONSTANTS c1, r1, a1, a2

MCPolicy == c1 :> "create" @@ r1 :> "replace" @@ a1 :> "merge" @@ a2 :> "merge"
=============================================================================
