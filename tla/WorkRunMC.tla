------------------------------ MODULE WorkRunMC ------------------------------
(***************************************************************************)
(* A plan of two tasks, the second with commands that pass in any case.    *)
(* Every command can be followed by any other: three make a run with or    *)
(* without checkpoints that is killed, gives up or cannot save, a resume   *)
(* and a rollback of either task.                                          *)
(***************************************************************************)
EXTENDS WorkRun

AllTasks == 1..2
LastTask == {2}
=============================================================================
