--------------------------- MODULE MCRbLifecycle ---------------------------
(* Instances of RbLifecycle for TLC.                                       *)
EXTENDS RbLifecycle, TLC

CONSTANTS a, b

OnePath   == {a}
TwoPaths  == {a, b}
NoneOld   == {}
FirstOld  == {1}

\* Every bound in full; or a command and a clock beside one item, and a backlog
\* of two items with neither.
FullLimits == {[data |-> MaxData, items |-> MaxItems, ops |-> MaxOps, clock |-> MaxClock,
                faults |-> MaxFaults, crashes |-> MaxCrashes]}
\* Every step beside every other without a failure; one item with a failure and
\* a crash; and two with a failure, the clock and no command.
MixedLimits == {[data |-> 2, items |-> 2, ops |-> 1, clock |-> 1, faults |-> 0, crashes |-> 0],
                [data |-> 1, items |-> 1, ops |-> 1, clock |-> 1, faults |-> 1, crashes |-> 1],
                [data |-> 2, items |-> 2, ops |-> 0, clock |-> 1, faults |-> 1, crashes |-> 0]}
TwoLimits  == {[data |-> 1, items |-> 1, ops |-> 1, clock |-> 1, faults |-> 1, crashes |-> 1],
               [data |-> 2, items |-> 2, ops |-> 0, clock |-> 0, faults |-> 1, crashes |-> 1]}

PathSymmetry == Permutations(Paths)
=============================================================================
