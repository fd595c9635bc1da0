----------------------------- MODULE RunTreeMC -----------------------------
(***************************************************************************)
(* RunTree on a small instance.  The identities below the root are         *)
(* interchangeable, and so are the callers of cancel.                      *)
(***************************************************************************)
EXTENDS RunTree, TLC

Symmetry == Permutations(Runs \ {Root}) \cup Permutations(Cancellers)
=============================================================================
