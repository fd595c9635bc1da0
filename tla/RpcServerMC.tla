---------------------------- MODULE RpcServerMC ----------------------------
(***************************************************************************)
(* Instances of RpcServer: the requests a client sends in any order.       *)
(***************************************************************************)
EXTENDS RpcServer

CONSTANTS init, open, turn, yes, no, stop, get, other, s

\* A turn, its answers and a cancel, with a permit to spare and a question that may stay open; and
\* single permits before and after initialize.
MCScripts ==
    {[sends |-> {open, turn, yes, no, stop}, permits |-> 2, greeted |-> TRUE, patient |-> TRUE],
     [sends |-> {init, open, turn, get}, permits |-> 1, greeted |-> FALSE, patient |-> FALSE],
     [sends |-> {init, other}, permits |-> 1, greeted |-> FALSE, patient |-> FALSE]}
MCOp == [r \in Requests |->
            CASE r = init -> "initialize" [] r = open -> "open" [] r = turn -> "turn"
              [] r \in {yes, no} -> "resolve" [] r = stop -> "cancel"
              [] r = get -> "get" [] r = other -> "other"]
MCOn == [r \in Requests |-> IF r \in {open, turn, get, other} THEN s ELSE turn]
MCSays == [r \in Requests |-> IF r = yes THEN "yes" ELSE "no"]
=============================================================================
