--------------------------- MODULE MCUniverseLevels ---------------------------
(* Three universe parameters, so that bounds have to be chained through two   *)
(* nodes.  The constraints include unsatisfiable, malformed and unsupported   *)
(* ones; MCImaxConstraints has an imax on the left.                           *)
EXTENDS UniverseLevels

U == Par(1)
V == Par(2)
W == Par(3)
One == Succ(ZeroL)
Two == Succ(One)
MaxUV == <<"Max", U, V>>

MCWeights == -3 .. 3
MCValues == 0 .. 5

LeSet(ls, rs) == {[lhs |-> l, relation |-> "Le", rhs |-> r] : l \in ls, r \in rs}
EqSet(ls, rs) == {[lhs |-> l, relation |-> "Eq", rhs |-> r] : l \in ls, r \in rs}

MCConstraints ==
    LeSet({Succ(U)}, {V, W})
        \cup LeSet({V, Succ(V)}, {W})
        \cup LeSet({W}, {U, Succ(U), One})
        \cup LeSet({One}, {U})
        \cup LeSet({MaxUV}, {Succ(W), Two})
        \cup LeSet({U}, {MaxUV, <<"IMax", U, V>>})
        \cup LeSet({<<"Max", V, U>>}, {Two})
        \cup EqSet({U}, {Succ(W)})

MCImaxConstraints == LeSet({<<"IMax", U, V>>}, {V, ZeroL, One}) \cup LeSet({U}, {V})

MCArguments == {ZeroL, One, V, Succ(W)}

MCBothCallers == {"bare", "same"}
MCBareCaller == {"bare"}

Simple == {ZeroL, One, Two, U, V, Succ(W)}

MCObligations ==
    ({<<h, a, b>> : h \in {"Max", "IMax"}, a \in Simple, b \in Simple} \cup Simple \cup {Succ(MaxUV)})
        \X (Simple \cup {MaxUV, <<"IMax", V, U>>, <<"IMax", U, V>>, <<"Max", One, U>>})
=============================================================================
