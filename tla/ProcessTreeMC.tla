--------------------------- MODULE ProcessTreeMC ---------------------------
EXTENDS ProcessTree, TLC

CONSTANTS c1, c2

\* A command whose processes fork twice, among others; two commands for one reservation.
Alone ==
    [commands |-> {c1}, forks |-> c1 :> 2 @@ c2 :> 0, shed |-> 1, strangers |-> 1, faults |-> 2]

Both ==
    [commands |-> {c1, c2}, forks |-> c1 :> 1 @@ c2 :> 0, shed |-> 0, strangers |-> 0, faults |-> 1]

MCScripts == {Alone, Both}
=============================================================================
