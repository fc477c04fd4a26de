---------------------------- MODULE MCRbMiniflt ----------------------------
(* Instances of RbMiniflt for TLC.                                         *)
EXTENDS RbMiniflt, TLC

CONSTANTS f1, f2, tmp, c1, c2, p1, p2

OneFile      == {f1}
TwoFiles     == {f1, f2}
AllFiles     == {f1, f2, tmp}
JustTmp      == {tmp}
TwoCallbacks == {c1, c2}
OnePort      == {p1}
TwoPorts     == {p1, p2}
NoFiles      == {}
BothPolicies   == BOOLEAN
FailClosedOnly == {TRUE}

CallbackSymmetry == Permutations(Callbacks) \cup Permutations(Ports)
=============================================================================
