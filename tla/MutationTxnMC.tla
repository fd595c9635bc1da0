--------------------------- MODULE MutationTxnMC ---------------------------
(***************************************************************************)
(* MutationTxn with three operations: the first file lies in one           *)
(* directory, the other two in a second one.                               *)
(***************************************************************************)
EXTENDS MutationTxn, TLC

CONSTANTS top, sub

MCDirOf == [i \in 1 .. 3 |-> IF i = 1 THEN top ELSE sub]

Symmetry == Permutations(Bytes)
=============================================================================
