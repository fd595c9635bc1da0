---------------------------- MODULE AgentLoopMC ----------------------------
(***************************************************************************)
(* Instances of AgentLoop: two loops with a writing call and a delegation, *)
(* and one loop with every kind of call.                                   *)
(***************************************************************************)
EXTENDS AgentLoop, TLC

CONSTANTS a1, write, task, other, typo, file

MCTargetOf == [c \in Risky |-> file]
\* The first loop makes calls of every kind, alone, in a row and as batches; the second one writes
\* and delegates.
MCReplies == [a \in Agents |->
                 IF a = a1 THEN {<<write>>, <<task>>, <<typo>>, <<write, task>>, <<task, other>>,
                                 <<task, task>>, <<task, other, other>>}
                 ELSE {<<write>>}]
MCMax3 == [a \in Agents |-> IF a = a1 THEN 3 ELSE 2]
MCAnywhere == [yes : BOOLEAN, remote : BOOLEAN] \ {[yes |-> FALSE, remote |-> TRUE]}

Symmetry == Permutations(Agents)
=============================================================================
