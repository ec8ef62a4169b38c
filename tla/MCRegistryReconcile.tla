-------------------------- MODULE MCRegistryReconcile --------------------------
(***************************************************************************)
(* Four releases of a catalog of at most two modules.  The first has a     *)
(* whole-module entry (m1) and a declaration entry (m2).  The second       *)
(* revises m1 or renames it to m3; the third revises m2 and brings m1 back *)
(* or leaves it out; the fourth adds m4.  A release may be skipped.  The   *)
(* limits are the least at which ordinary histories of two events pass, so *)
(* that a fourth entry, a third event, a second row of one kind and the    *)
(* journals of long histories are over them.                               *)
(***************************************************************************)
EXTENDS RegistryReconcile, TLC

CONSTANTS m1, m2, m3, m4

Release(v, rows) == [version |-> v, rows |-> [m \in DOMAIN rows |-> [body |-> rows[m], side |-> 1]]]

MCReleases ==
  << {Release(1, m1 :> 1 @@ m2 :> 1)},
     {Release(2, rows) : rows \in {m1 :> 2 @@ m2 :> 1, m3 :> 1 @@ m2 :> 1}},
     {Release(3, rows) : rows \in {m1 :> 1 @@ m2 :> 2, m2 :> 2}},
     {Release(4, m2 :> 2 @@ m4 :> 1)} >>

MCRequests ==
  {{}, {[old |-> {m1}, new |-> {m3}]}} \cup {{[old |-> {m}, new |-> {}]} : m \in {m1, m3}}
=============================================================================
