----------------------------- MODULE ToolProofs -----------------------------
(***************************************************************************)
(* What tools do to files and to processes, proved for any number of them. *)
(*                                                                         *)
(* Files (MutationTxn): for any contents, and any number of failed calls   *)
(* and of writes by other programs.  IInv says, for each phase, in which   *)
(* of four conditions the files before, at and after the current operation *)
(* are.                                                                    *)
(*                                                                         *)
(* Processes (ProcessTree): for any number of commands and PIDs, and any   *)
(* scripts.  ProcInv says what each command knows at each place of its     *)
(* cleanup, and that it is true of processes which go on by themselves;    *)
(* ProcessStep says all a command has to know of a step of anybody else.   *)
(***************************************************************************)
EXTENDS MutationTxn, ProcessTree, SequenceTheorems, WellFoundedInduction, TLAPS

(***************************************************************************)
(* Files                                                                   *)
(***************************************************************************)

\* The file was not reached: it is as others left it, and no write of theirs came late.
Untouched(i) == i \notin late /\ disk[i] = theirs[i] /\ backup[i] = NoFile

\* The file was moved away and its new content is not there yet.
Moved(i) == i \notin late => disk[i] = NoFile /\ theirs[i] = before[i] /\ backup[i] = before[i]

\* The operation was applied and can be reverted.
Applied(i) == i \notin late => disk[i] = after[i] /\ theirs[i] = before[i] /\ backup[i] = before[i]

\* The file is back, or its backup is still there and a failure says so: one that the rollback
\* reports, or a second failed call.
Safe(i) == i \notin late => \/ disk[i] = theirs[i]
                            \/ backup[i] = theirs[i] /\ (failures \/ faults >= 2)

Before == {"validate", "open", "stage"}
Loop == {"verify", "moveaway", "mkdir", "install", "restore"}
Undoing == {"remove", "putback"}

\* Where each phase can be, and what it has decided to return.
PlaceInv ==
    /\ pc \notin {"cleanup", "done"} => at \in Ops
    /\ pc = "open" => at = 1
    /\ pc \in Undoing => undo \in Ops /\ undo < at
    /\ pc \in Before \cup Loop => result = "none"
    /\ pc \in Undoing \cup {"rmdirs"} => result = "error"
    /\ pc \in {"cleanup", "done"} => result \in {"ok", "error"}
    /\ pc = "cleanup" /\ result = "ok" => at = N + 1
    /\ pc = "restore" => faults >= 1

\* A file that existed lies in a directory that existed, so the transaction never makes it.
DirInv == \A i \in Ops : Existed(i) => DirOf[i] \in dirs /\ DirOf[i] \notin made

\* Up to the first system call that changes the workspace.
BeforeInv == pc \in Before => \A i \in Ops : Untouched(i) /\ (i < at /\ pc = "stage" => staged[i] = after[i])

LoopInv ==
    pc \in Loop =>
        /\ \A i \in Ops : i < at => Applied(i)
        /\ \A i \in Ops : i > at => Untouched(i)
        /\ \A i \in Ops : i >= at => staged[i] = after[i]
        /\ pc = "verify" => Untouched(at)
        /\ pc = "moveaway" => backup[at] = NoFile
                              /\ (at \notin late => disk[at] = theirs[at] /\ theirs[at] = before[at])
        /\ pc \in {"mkdir", "install", "restore"} => Installs(at) /\ Moved(at)

UndoInv ==
    pc \in Undoing =>
        /\ \A i \in Ops : i < undo => Applied(i)
        /\ \A i \in Ops : i > undo => Safe(i)
        /\ pc = "remove" => Applied(undo)
        /\ pc = "putback" /\ undo \notin late =>
               /\ theirs[undo] = before[undo] /\ backup[undo] = before[undo]
               /\ disk[undo] = NoFile \/ failures

EndInv ==
    /\ pc \in {"rmdirs", "cleanup"} /\ result = "error" => \A i \in Ops : Safe(i)
    /\ pc = "cleanup" /\ result = "ok" => \A i \in Ops : Applied(i)
    /\ pc = "done" => \A i \in Ops \ late :
           IF result = "ok" THEN disk[i] = after[i] /\ theirs[i] = before[i]
                            ELSE disk[i] = theirs[i] \/ failures \/ faults >= 2

FileInv == BeforeInv /\ LoopInv /\ UndoInv /\ EndInv

IInv == TypeOK /\ PlaceInv /\ DirInv /\ FileInv

-----------------------------------------------------------------------------
(* Type correctness *)

LEMMA TypeStep ==
  ASSUME TypeOK, PlaceInv, [Next]_vars
  PROVE  TypeOK' /\ PlaceInv'
<1> USE TxnAssumption DEF TypeOK, PlaceInv, Before, Loop, Undoing, Ops, Contents, Phases, Results, NoFault, Fault, counters, history, plan
<1>1. CASE Validate BY <1>1 DEF Validate, Finish
<1>2. CASE OpenTxn BY <1>2 DEF OpenTxn, Finish
<1>3. CASE Stage BY <1>3 DEF Stage
<1>4. CASE Verify BY <1>4 DEF Verify, StartRollback
<1>5. CASE MoveAway
  <2>1. at \in Ops /\ at \in Nat /\ N \in Nat
    BY <1>5 DEF MoveAway, Existed
  <2>2. disk' \in [Ops -> Contents]
    BY <1>5 DEF MoveAway, Existed
  <2>3. backup' \in [Ops -> Contents]
    BY <1>5 DEF MoveAway, Existed
  <2> QED BY <1>5, <2>1, <2>2, <2>3 DEF MoveAway, StartRollback, AfterMove, NextItem, Installs, Existed
<1>6. CASE MakeDirs BY <1>6 DEF MakeDirs, StartRollback
<1>7. CASE Install
  <2>1. at \in Ops /\ at \in Nat /\ N \in Nat
    BY <1>7 DEF Install
  <2>2. disk' \in [Ops -> Contents]
    BY <1>7 DEF Install
  <2>3. staged' \in [Ops -> Contents]
    BY <1>7 DEF Install
  <2>4. faults' \in 0 .. MaxFaults /\ edits' = edits
    BY <1>7 DEF Install
  <2>5. /\ pc = "install" /\ UNCHANGED <<dirs, before, after, backup, made, failures, theirs, late>>
    BY <1>7 DEF Install
  <2>6. \/ NextItem /\ undo' = undo
        \/ at' = at /\ StartRollback
        \/ at' = at /\ faults' = faults + 1 /\ pc' = "restore" /\ UNCHANGED <<result, undo>>
    BY <1>7 DEF Install
  <2> QED BY <2>1, <2>2, <2>3, <2>4, <2>5, <2>6 DEF StartRollback, NextItem
<1>8. CASE Restore
  <2>1. at \in Ops /\ at \in Nat /\ N \in Nat
    BY <1>8 DEF Restore
  <2>2. disk' \in [Ops -> Contents]
    BY <1>8 DEF Restore
  <2>3. backup' \in [Ops -> Contents]
    BY <1>8 DEF Restore
  <2> QED BY <1>8, <2>1, <2>2, <2>3 DEF Restore, StartRollback
<1>9. CASE UndoRemove
  <2>1. undo \in Ops
    BY <1>9 DEF UndoRemove
  <2>2. disk' \in [Ops -> Contents]
    BY <1>9 DEF UndoRemove
  <2>3. faults' \in 0 .. MaxFaults /\ edits' = edits
    BY <1>9 DEF UndoRemove
  <2>3a. failures' \in BOOLEAN
    <3>1. failures' = TRUE \/ failures' = failures BY <1>9 DEF UndoRemove
    <3> QED BY <3>1
  <2>4. /\ pc = "remove" /\ pc' = "putback"
        /\ UNCHANGED <<dirs, before, after, staged, backup, made, at, undo, result, theirs, late>>
    BY <1>9 DEF UndoRemove
  <2> QED BY <2>1, <2>2, <2>3, <2>3a, <2>4
<1>10. CASE UndoPutBack
  <2>1. undo \in Ops /\ undo \in Nat
    BY <1>10 DEF UndoPutBack
  <2>2. disk' \in [Ops -> Contents]
    BY <1>10 DEF UndoPutBack
  <2>3. backup' \in [Ops -> Contents]
    BY <1>10 DEF UndoPutBack
  <2>4. faults' \in 0 .. MaxFaults /\ edits' = edits
    BY <1>10 DEF UndoPutBack
  <2>4a. failures' \in BOOLEAN
    <3>1. failures' = TRUE \/ failures' = failures BY <1>10 DEF UndoPutBack
    <3> QED BY <3>1
  <2>5. /\ pc = "putback" /\ undo' = undo - 1
        /\ pc' = IF undo = 1 THEN "rmdirs" ELSE "remove"
        /\ UNCHANGED <<dirs, before, after, staged, made, at, result, theirs, late>>
    BY <1>10 DEF UndoPutBack
  <2> QED BY <2>1, <2>2, <2>3, <2>4, <2>4a, <2>5
<1>11. CASE RemoveDirs BY <1>11 DEF RemoveDirs, Empty
<1>12. CASE Cleanup BY <1>12 DEF Cleanup
<1>13. CASE Environment BY <1>13 DEF Environment, Edit
<1>14. CASE UNCHANGED vars BY <1>14 DEF vars
<1> QED BY <1>1, <1>2, <1>3, <1>4, <1>5, <1>6, <1>7, <1>8, <1>9, <1>10, <1>11, <1>12, <1>13, <1>14 DEF Next, Step, Returned
-----------------------------------------------------------------------------
(* The directories of the original files stay *)

LEMMA DirStep ==
  ASSUME TypeOK, DirInv, [Next]_vars
  PROVE  DirInv'
<1> USE TxnAssumption DEF TypeOK, DirInv, Existed, plan
<1>1. CASE Validate BY <1>1 DEF Validate
<1>2. CASE OpenTxn BY <1>2 DEF OpenTxn
<1>3. CASE Stage BY <1>3 DEF Stage
<1>4. CASE Verify BY <1>4 DEF Verify
<1>5. CASE MoveAway BY <1>5 DEF MoveAway
<1>6. CASE MakeDirs BY <1>6 DEF MakeDirs
<1>7. CASE Install BY <1>7 DEF Install
<1>8. CASE Restore BY <1>8 DEF Restore
<1>9. CASE UndoRemove BY <1>9 DEF UndoRemove
<1>10. CASE UndoPutBack BY <1>10 DEF UndoPutBack
<1>11. CASE RemoveDirs BY <1>11 DEF RemoveDirs
<1>12. CASE Cleanup BY <1>12 DEF Cleanup
<1>13. CASE Environment BY <1>13 DEF Environment, Edit
<1>14. CASE UNCHANGED vars BY <1>14 DEF vars
<1> QED BY <1>1, <1>2, <1>3, <1>4, <1>5, <1>6, <1>7, <1>8, <1>9, <1>10, <1>11, <1>12, <1>13, <1>14 DEF Next, Step, Returned

-----------------------------------------------------------------------------
(* The condition of the files *)

LEMMA ValidateFiles ==
  ASSUME TypeOK, PlaceInv, DirInv, FileInv, Validate
  PROVE  FileInv'
BY TxnAssumption DEF TypeOK, PlaceInv, DirInv, FileInv, BeforeInv, LoopInv, UndoInv, EndInv,
   Untouched, Applied, Moved, Safe, Existed, Installs, Before, Loop, Undoing, Ops, Contents,
   NoFault, Fault, counters, history, plan, Validate, Finish

LEMMA OpenTxnFiles ==
  ASSUME TypeOK, PlaceInv, DirInv, FileInv, OpenTxn
  PROVE  FileInv'
BY TxnAssumption DEF TypeOK, PlaceInv, DirInv, FileInv, BeforeInv, LoopInv, UndoInv, EndInv,
   Untouched, Applied, Moved, Safe, Existed, Installs, Before, Loop, Undoing, Ops, Contents,
   NoFault, Fault, counters, history, plan, OpenTxn, Finish

LEMMA StageFiles ==
  ASSUME TypeOK, PlaceInv, DirInv, FileInv, Stage
  PROVE  FileInv'
BY TxnAssumption DEF TypeOK, PlaceInv, DirInv, FileInv, BeforeInv, LoopInv, UndoInv, EndInv,
   Untouched, Applied, Moved, Safe, Existed, Installs, Before, Loop, Undoing, Ops, Contents,
   NoFault, Fault, counters, history, plan, Stage

LEMMA VerifyFiles ==
  ASSUME TypeOK, PlaceInv, DirInv, FileInv, Verify
  PROVE  FileInv'
BY TxnAssumption DEF TypeOK, PlaceInv, DirInv, FileInv, BeforeInv, LoopInv, UndoInv, EndInv,
   Untouched, Applied, Moved, Safe, Existed, Installs, Before, Loop, Undoing, Ops, Contents,
   NoFault, Fault, counters, history, plan, Verify, StartRollback

LEMMA MoveAwayFiles ==
  ASSUME TypeOK, PlaceInv, DirInv, FileInv, MoveAway
  PROVE  FileInv'
BY TxnAssumption DEF TypeOK, PlaceInv, DirInv, FileInv, BeforeInv, LoopInv, UndoInv, EndInv,
   Untouched, Applied, Moved, Safe, Existed, Installs, Before, Loop, Undoing, Ops, Contents,
   NoFault, Fault, counters, history, plan, MoveAway, StartRollback, AfterMove, NextItem

LEMMA MakeDirsFiles ==
  ASSUME TypeOK, PlaceInv, DirInv, FileInv, MakeDirs
  PROVE  FileInv'
BY TxnAssumption DEF TypeOK, PlaceInv, DirInv, FileInv, BeforeInv, LoopInv, UndoInv, EndInv,
   Untouched, Applied, Moved, Safe, Existed, Installs, Before, Loop, Undoing, Ops, Contents,
   NoFault, Fault, counters, history, plan, MakeDirs, StartRollback

LEMMA InstallFiles ==
  ASSUME TypeOK, PlaceInv, DirInv, FileInv, Install
  PROVE  FileInv'
BY TxnAssumption DEF TypeOK, PlaceInv, DirInv, FileInv, BeforeInv, LoopInv, UndoInv, EndInv,
   Untouched, Applied, Moved, Safe, Existed, Installs, Before, Loop, Undoing, Ops, Contents,
   NoFault, Fault, counters, history, plan, Install, StartRollback, NextItem

LEMMA RestoreFiles ==
  ASSUME TypeOK, PlaceInv, DirInv, FileInv, Restore
  PROVE  FileInv'
BY TxnAssumption DEF TypeOK, PlaceInv, DirInv, FileInv, BeforeInv, LoopInv, UndoInv, EndInv,
   Untouched, Applied, Moved, Safe, Existed, Installs, Before, Loop, Undoing, Ops, Contents,
   NoFault, Fault, counters, history, plan, Restore, StartRollback

LEMMA UndoRemoveFiles ==
  ASSUME TypeOK, PlaceInv, DirInv, FileInv, UndoRemove
  PROVE  FileInv'
BY TxnAssumption DEF TypeOK, PlaceInv, DirInv, FileInv, BeforeInv, LoopInv, UndoInv, EndInv,
   Untouched, Applied, Moved, Safe, Existed, Installs, Before, Loop, Undoing, Ops, Contents,
   NoFault, Fault, counters, history, plan, UndoRemove

LEMMA UndoPutBackFiles ==
  ASSUME TypeOK, PlaceInv, DirInv, FileInv, UndoPutBack
  PROVE  FileInv'
<1> USE TxnAssumption DEF TypeOK, PlaceInv, Before, Loop, Undoing, Ops, Contents, plan, history
<1>1. /\ pc = "putback" /\ undo' = undo - 1 /\ undo \in Nat
      /\ pc' = IF undo = 1 THEN "rmdirs" ELSE "remove"
      /\ before' = before /\ after' = after /\ theirs' = theirs /\ late' = late
      /\ result' = result /\ at' = at
  BY DEF UndoPutBack
<1>2. PICK u \in Ops : u = undo
  BY <1>1
<1>3. \A i \in Ops : i < u => Applied(i)
  BY <1>1, <1>2 DEF FileInv, UndoInv
<1>4. \A i \in Ops : i > u => Safe(i)
  BY <1>1, <1>2 DEF FileInv, UndoInv
<1>5. u \notin late => /\ theirs[u] = before[u] /\ backup[u] = before[u]
                       /\ disk[u] = NoFile \/ failures
  BY <1>1, <1>2 DEF FileInv, UndoInv
<1>6. \A i \in Ops : i # u => disk'[i] = disk[i] /\ backup'[i] = backup[i]
  BY <1>2 DEF UndoPutBack
<1>7. (failures => failures') /\ (faults >= 2 => faults' >= 2)
  <2>1. failures => failures'
    <3>1. failures' = TRUE \/ failures' = failures BY DEF UndoPutBack
    <3> QED BY <3>1
  <2>2. faults >= 2 => faults' >= 2 BY DEF UndoPutBack, NoFault, Fault, counters
  <2> QED BY <2>1, <2>2
<1>8. \A i \in Ops : i < u => Applied(i)'
  BY <1>1, <1>3, <1>6 DEF Applied
<1>9. \A i \in Ops : i > u => Safe(i)'
  BY <1>1, <1>4, <1>6, <1>7 DEF Safe
<1>10. Safe(u)'
  <2>1. CASE backup[u] # NoFile /\ disk' = [disk EXCEPT ![u] = backup[u]]
    BY <2>1, <1>1, <1>5 DEF Safe
  <2>2. CASE backup[u] = NoFile /\ disk' = disk /\ backup' = backup
    BY <2>2, <1>1, <1>5, <1>7 DEF Safe
  <2>3. CASE failures' = TRUE /\ disk' = disk /\ backup' = backup
    BY <2>3, <1>1, <1>5 DEF Safe
  <2> QED BY <2>1, <2>2, <2>3, <1>2 DEF UndoPutBack
<1>11. \A i \in Ops : i >= u => Safe(i)'
  BY <1>9, <1>10
<1>12. UndoInv'
  BY <1>1, <1>2, <1>8, <1>11 DEF UndoInv
<1>13. EndInv'
  BY <1>1, <1>2, <1>11 DEF EndInv
<1> QED BY <1>1, <1>12, <1>13 DEF FileInv, BeforeInv, LoopInv

LEMMA RemoveDirsFiles ==
  ASSUME TypeOK, PlaceInv, DirInv, FileInv, RemoveDirs
  PROVE  FileInv'
BY TxnAssumption DEF TypeOK, PlaceInv, DirInv, FileInv, BeforeInv, LoopInv, UndoInv, EndInv,
   Untouched, Applied, Moved, Safe, Existed, Installs, Before, Loop, Undoing, Ops, Contents,
   NoFault, Fault, counters, history, plan, RemoveDirs, Empty

LEMMA CleanupFiles ==
  ASSUME TypeOK, PlaceInv, DirInv, FileInv, Cleanup
  PROVE  FileInv'
BY TxnAssumption DEF TypeOK, PlaceInv, DirInv, FileInv, BeforeInv, LoopInv, UndoInv, EndInv,
   Untouched, Applied, Moved, Safe, Existed, Installs, Before, Loop, Undoing, Ops, Contents,
   NoFault, Fault, counters, history, plan, Cleanup

LEMMA EditFiles ==
  ASSUME TypeOK, PlaceInv, DirInv, FileInv, NEW i \in Ops, NEW c \in Contents, Edit(i, c)
  PROVE  FileInv'
BY TxnAssumption DEF TypeOK, PlaceInv, DirInv, FileInv, BeforeInv, LoopInv, UndoInv, EndInv,
   Untouched, Applied, Moved, Safe, Existed, Installs, Before, Loop, Undoing, Ops, Contents,
   Edit, plan

LEMMA FileStep ==
  ASSUME TypeOK, PlaceInv, DirInv, FileInv, [Next]_vars
  PROVE  FileInv'
<1>1. CASE Validate BY <1>1, ValidateFiles
<1>2. CASE OpenTxn BY <1>2, OpenTxnFiles
<1>3. CASE Stage BY <1>3, StageFiles
<1>4. CASE Verify BY <1>4, VerifyFiles
<1>5. CASE MoveAway BY <1>5, MoveAwayFiles
<1>6. CASE MakeDirs BY <1>6, MakeDirsFiles
<1>7. CASE Install BY <1>7, InstallFiles
<1>8. CASE Restore BY <1>8, RestoreFiles
<1>9. CASE UndoRemove BY <1>9, UndoRemoveFiles
<1>10. CASE UndoPutBack BY <1>10, UndoPutBackFiles
<1>11. CASE RemoveDirs BY <1>11, RemoveDirsFiles
<1>12. CASE Cleanup BY <1>12, CleanupFiles
<1>13. CASE Environment BY <1>13, EditFiles DEF Environment
<1>14. CASE UNCHANGED vars
  BY <1>14 DEF vars, FileInv, BeforeInv, LoopInv, UndoInv, EndInv, Untouched, Applied, Moved, Safe,
     Existed, Installs
<1> QED BY <1>1, <1>2, <1>3, <1>4, <1>5, <1>6, <1>7, <1>8, <1>9, <1>10, <1>11, <1>12, <1>13, <1>14
   DEF Next, Step, Returned

-----------------------------------------------------------------------------
(* The theorems *)

LEMMA InitInv == Init => IInv
<1> SUFFICES ASSUME Init PROVE IInv
  OBVIOUS
<1>1. TypeOK
  <2>1. /\ disk \in [Ops -> Contents] /\ before \in [Ops -> Contents] /\ after \in [Ops -> Contents]
        /\ theirs \in [Ops -> Contents]
    BY DEF Init
  <2>2. staged \in [Ops -> Contents] /\ backup \in [Ops -> Contents]
    BY DEF Init, Contents
  <2>3. at \in 1 .. N + 1 /\ undo \in 0 .. N /\ faults \in 0 .. MaxFaults /\ edits \in 0 .. MaxEdits
    BY TxnAssumption DEF Init
  <2> QED BY <2>1, <2>2, <2>3 DEF Init, TypeOK, Phases, Results
<1>2. PlaceInv /\ DirInv
  BY TxnAssumption DEF Init, PlaceInv, DirInv, Ops, Before, Loop, Undoing
<1>3. FileInv
  BY TxnAssumption DEF Init, FileInv, BeforeInv, LoopInv, UndoInv, EndInv, Untouched, Ops, Contents,
     Loop, Undoing
<1> QED BY <1>1, <1>2, <1>3 DEF IInv

\* IInv holds in every state of every transaction: where each file is, phase by phase.
THEOREM InvCorrect == Spec => []IInv
<1>1. Init => IInv BY InitInv
<1>2. IInv /\ [Next]_vars => IInv' BY TypeStep, DirStep, FileStep DEF IInv
<1> QED BY <1>1, <1>2, PTL DEF Spec

\* The variables keep their types, however many files, failures and foreign writes there are.
THEOREM TypeCorrect == Spec => []TypeOK
<1>1. IInv => TypeOK BY DEF IInv
<1> QED BY <1>1, InvCorrect, PTL

LEMMA KeptByInv == IInv => NothingLost
<1> SUFFICES ASSUME IInv, pc # "done", NEW i \in Ops \ late
             PROVE  theirs[i] \in {disk[i], backup[i]}
  BY DEF NothingLost
<1> USE TxnAssumption DEF IInv, TypeOK, PlaceInv, FileInv, Ops
<1>1. CASE pc \in Before BY <1>1 DEF BeforeInv, Untouched
<1>2. CASE pc \in Loop
  BY <1>2 DEF LoopInv, Untouched, Applied, Moved, Loop
<1>3. CASE pc \in Undoing
  BY <1>3 DEF UndoInv, Applied, Safe, Undoing
<1>4. CASE pc \in {"rmdirs", "cleanup"}
  BY <1>4 DEF EndInv, Applied, Safe, Undoing
<1> QED BY <1>1, <1>2, <1>3, <1>4 DEF Phases, Before, Loop, Undoing

\* A crash at any step of any transaction leaves every original in the workspace or in backup/.
THEOREM KeptCorrect == Spec => []NothingLost
BY InvCorrect, KeptByInv, PTL

LEMMA CommitByInv == IInv => CommitIsWhole
BY DEF IInv, FileInv, EndInv, CommitIsWhole

\* A transaction that returns a receipt replaced all of its files, and only what the tool had read.
THEOREM CommitCorrect == Spec => []CommitIsWhole
BY InvCorrect, CommitByInv, PTL

LEMMA RestoredByInv == IInv => FailureRestores
BY DEF IInv, TypeOK, PlaceInv, FileInv, EndInv, FailureRestores

\* A single failure, wherever it hits, restores every file or is reported as a failed rollback.
THEOREM RestoreCorrect == Spec => []FailureRestores
BY InvCorrect, RestoredByInv, PTL

(***************************************************************************)
(* Processes                                                               *)
(***************************************************************************)
ProcRecords ==
    [state : {"free", "run", "stop", "zombie"}, gen : Nat, of : Commands \cup {NoCommand}, parent : Pids \cup {0},
     group : Pids \cup {0}, env : BOOLEAN, fd : BOOLEAN]

Identities == [pid : Pids, gen : Nat]

Early == {"reserve", "spawn", "running", "quiesce", "stop", "root", "first"}
Places ==
    Early \cup {"look", "capture", "judge", "kill", "killgroup", "reap", "killfresh", "fallback", "killall", "finish", "done"}
Rounds == {"first", "second", "verdict", "fallback"}

\* The lookups a round may still have to do, and those among them that have a lookup of one kind.
EnvLists == {<<"env">>, <<"env", "fd">>, <<"fd", "env">>, <<"env", "tree">>, <<"fd", "env", "tree">>}
FdLists == {<<"fd">>, <<"env", "fd">>, <<"fd", "env">>, <<"fd", "env", "tree">>}
TreeLists == {<<"tree">>, <<"env", "tree">>, <<"fd", "env", "tree">>}
StageLists == {<<>>} \cup EnvLists \cup FdLists \cup TreeLists

CmdRecords ==
    [at : Places, root : Pids \cup {0}, live : BOOLEAN, target : Pids \cup {0}, round : Rounds \cup {"none"},
     stages : StageLists, todo : SUBSET Pids, found : SUBSET (Pids \X (Pids \cup {0})), cand : SUBSET Pids,
     visible : SUBSET Pids, captured : SUBSET Identities, fresh : SUBSET Identities, errors : BOOLEAN, begun : Nat]

\* A process of others.  It is a child of init and leads a group of its own.
Foreign(p) == Alive(p) /\ proc[p].of = NoCommand

\* The system's processes.
ProcessInv ==
    /\ proc \in [Pids -> ProcRecords]
    /\ gens \in Nat
    /\ \A p \in Pids :
          /\ proc[p].gen <= gens
          /\ Alive(p) => proc[p].gen > 0
          /\ Foreign(p) => proc[p].parent = 0 /\ proc[p].group = p

Scanning(c) == cmd[c].at \in {"look", "capture"}

\* Places where the target, if there is one, is the child that was not reaped yet.
Targets(c) ==
    cmd[c].at \in {"stop", "first", "judge", "kill", "killgroup"} \/ (Scanning(c) /\ cmd[c].round = "first")

\* Where each command can be and what it knows there.
CmdPlaceInv(c) ==
    /\ cmd[c].at \in Early =>
          cmd[c].captured = {} /\ cmd[c].fresh = {} /\ cmd[c].visible = {} /\ ~cmd[c].errors /\ cmd[c].begun = 0
    /\ cmd[c].at \in {"reserve", "spawn"} => ~cmd[c].live
    /\ cmd[c].at \notin {"reserve", "done"} => c \in held
    /\ c \in threads => c \in held /\ cmd[c].errors
    /\ cmd[c].at \in {"fallback", "killall"} => cmd[c].errors
    /\ cmd[c].at \in {"judge", "kill", "killgroup", "reap"} => cmd[c].round = "first"
    /\ Scanning(c) => cmd[c].round \in Rounds /\ cmd[c].stages # <<>>
    /\ cmd[c].at = "capture" => cmd[c].found = {}
    /\ Scanning(c) /\ cmd[c].round = "fallback" => cmd[c].errors
    /\ Scanning(c) /\ cmd[c].round # "first" => cmd[c].target = 0
    /\ Scanning(c) /\ cmd[c].round = "verdict" /\ ~cmd[c].errors => cmd[c].visible = {}
    /\ Scanning(c) /\ cmd[c].stages \in TreeLists => cmd[c].target # 0
    /\ cmd[c].begun <= gens

\* A child that was not reaped is there, as the command's.
ChildInv(c) ==
    /\ cmd[c].live => Root(c) \in Pids /\ proc[Root(c)].state # "free" /\ proc[Root(c)].of = c
    /\ Targets(c) /\ cmd[c].target # 0 => cmd[c].live /\ cmd[c].target = Root(c)

\* If the PID names a process of others, that one came after a lookup had listed the PID.
Excused(p) == Foreign(p) => proc[p].gen \in reused

\* What a lookup has listed so far, but for others' processes in the table of all, which have no parent there.
ListInv(c) ==
    Scanning(c) =>
        /\ \A e \in cmd[c].found : Excused(e[1]) \/ (Head(cmd[c].stages) = "tree" /\ e[2] = 0)
        /\ \A p \in cmd[c].cand : Excused(p)

\* What was captured is of the command or excused, and dies in time.
CaptureInv(c) ==
    /\ cmd[c].fresh \subseteq cmd[c].captured
    /\ \A i \in cmd[c].captured : i.gen <= gens /\ (i.gen = proc[i.pid].gen => Excused(i.pid))
    /\ cmd[c].at = "judge" \/ (Scanning(c) /\ cmd[c].round = "first") => \A i \in cmd[c].captured : i.pid \in cmd[c].visible
    /\ cmd[c].at = "killfresh" \/ (Scanning(c) /\ cmd[c].round = "second") => Hit(cmd[c].captured) \subseteq Hit(cmd[c].fresh)
    /\ cmd[c].at \in {"killgroup", "reap", "fallback", "finish", "done"} \/ (Scanning(c) /\ cmd[c].round = "verdict") =>
          Hit(cmd[c].captured) = {}

\* The command's processes that were there when the round began.
Older(c) == {p \in Pids : proc[p].of = c /\ Alive(p) /\ proc[p].gen <= cmd[c].begun}

\* Nothing was missed and nothing found so far.
Nothing(c) == ~cmd[c].errors /\ cmd[c].visible = {} /\ cmd[c].target = 0

\* What is still to be done in a round that found nothing: a process with a mark is listed, or to be listed,
\* by the lookup for this mark.
Ahead(c, p) == IF cmd[c].at = "look" THEN p \in cmd[c].todo \cup PidsOf(cmd[c].found) ELSE p \in cmd[c].cand

CoverInv(c) ==
    /\ Scanning(c) /\ Nothing(c) =>
          \A p \in Older(c) :
             /\ proc[p].env => cmd[c].stages \in EnvLists /\ (Head(cmd[c].stages) = "env" => Ahead(c, p))
             /\ proc[p].fd => cmd[c].stages \in FdLists /\ (Head(cmd[c].stages) = "fd" => Ahead(c, p))
    /\ cmd[c].at = "judge" /\ Nothing(c) => \A p \in Older(c) : ~Marked(p)
    /\ cmd[c].at \in {"finish", "done"} /\ ~cmd[c].errors => \A p \in Older(c) : ~Marked(p)

CmdInv(c) == CmdPlaceInv(c) /\ ChildInv(c) /\ ListInv(c) /\ CaptureInv(c) /\ CoverInv(c)

ProcInv ==
    /\ ProcessInv
    /\ cmd \in [Commands -> CmdRecords]
    /\ held \subseteq Commands /\ threads \subseteq held
    /\ \A c \in Commands : CmdInv(c)

-----------------------------------------------------------------------------
(* What the processes do in a step, whoever takes it *)

\* A process that is alive was so before, as the same process with no more marks than now; or it is new,
\* and it is noted if a lookup had listed its PID.
ProcessStep ==
    /\ gens' \in Nat /\ gens <= gens' /\ reused \subseteq reused'
    /\ \A p \in Pids : Alive(p)' =>
          \/ /\ Alive(p) /\ proc'[p].gen = proc[p].gen /\ proc'[p].of = proc[p].of
             /\ (proc'[p].env => proc[p].env) /\ (proc'[p].fd => proc[p].fd)
          \/ proc'[p].gen = gens + 1 /\ gens' = gens + 1 /\ (Listed(p) => gens + 1 \in reused')

\* The child of a command is not reaped by the step.
ChildStays(c) == cmd[c].live => proc'[Root(c)].state # "free" /\ proc'[Root(c)].of = c

\* Nothing happens to the processes.
LEMMA StillStep ==
  ASSUME ProcInv, proc' = proc, gens' = gens, reused' = reused
  PROVE  ProcessInv' /\ ProcessStep /\ \A c \in Commands : ChildStays(c)
<1>1. ProcessInv'
  BY DEF ProcInv, ProcessInv, Foreign, Alive
<1>2. ProcessStep
  BY DEF ProcInv, ProcessInv, ProcessStep, Alive
<1>3. \A c \in Commands : ChildStays(c)
  BY DEF ProcInv, CmdInv, ChildInv, ChildStays
<1> QED BY <1>1, <1>2, <1>3

\* Processes are killed.
LEMMA KillStep ==
  ASSUME ProcInv, NEW ps \in SUBSET Pids, proc' = Dead(ps), gens' = gens, reused' = reused
  PROVE  /\ ProcessInv' /\ ProcessStep /\ \A c \in Commands : ChildStays(c)
         /\ \A p \in ps : ~Alive(p)'
<1>1. /\ DOMAIN proc' = Pids
      /\ \A p \in Pids : proc'[p] \in ProcRecords
      /\ \A p \in ps : proc'[p] = Free \/ proc'[p] = [proc[p] EXCEPT !.state = "zombie"]
      /\ \A p \in Pids \ ps : proc'[p] = proc[p] \/ proc'[p] = [proc[p] EXCEPT !.parent = 0]
  BY DEF ProcInv, ProcessInv, Dead, Free, ProcRecords
<1>2. proc' \in [Pids -> ProcRecords]
  BY <1>1 DEF Dead
<1>3. ASSUME NEW p \in ps PROVE ~Alive(p)' /\ proc'[p].gen <= gens
  <2>1. proc[p] \in ProcRecords /\ proc[p].gen <= gens /\ gens \in Nat
    BY DEF ProcInv, ProcessInv
  <2>2. proc'[p].state \in {"free", "zombie"} /\ proc'[p].gen \in {0, proc[p].gen}
    <3>1. CASE proc'[p] = Free BY <2>1, <3>1 DEF Free
    <3>2. CASE proc'[p] = [proc[p] EXCEPT !.state = "zombie"] BY <2>1, <3>2 DEF ProcRecords
    <3> QED BY <1>1, <3>1, <3>2
  <2> QED BY <2>1, <2>2 DEF Alive
<1>4. ASSUME NEW p \in Pids \ ps
      PROVE  /\ proc'[p].state = proc[p].state /\ proc'[p].gen = proc[p].gen /\ proc'[p].of = proc[p].of
             /\ proc'[p].group = proc[p].group /\ proc'[p].env = proc[p].env /\ proc'[p].fd = proc[p].fd
             /\ proc'[p].parent \in {proc[p].parent, 0}
  BY <1>1 DEF ProcInv, ProcessInv, ProcRecords
<1>5. ProcessInv'
  <2>1. ASSUME NEW p \in Pids
        PROVE  proc'[p].gen <= gens' /\ (Alive(p)' => proc'[p].gen > 0)
               /\ (Foreign(p)' => proc'[p].parent = 0 /\ proc'[p].group = p)
    <3>1. CASE p \in ps BY <1>3, <3>1 DEF Foreign
    <3>2. CASE p \notin ps BY <1>4, <3>2 DEF ProcInv, ProcessInv, Foreign, Alive
    <3> QED BY <3>1, <3>2
  <2> QED BY <1>2, <2>1 DEF ProcInv, ProcessInv
<1>6. ProcessStep
  BY <1>3, <1>4 DEF ProcInv, ProcessInv, ProcessStep, Alive
<1>7. ASSUME NEW c \in Commands PROVE ChildStays(c)
  <2>1. SUFFICES ASSUME cmd[c].live PROVE proc'[Root(c)].state # "free" /\ proc'[Root(c)].of = c
    BY DEF ChildStays
  <2>2. Root(c) \in Pids /\ proc[Root(c)].state # "free" /\ proc[Root(c)].of = c
    BY <2>1 DEF ProcInv, CmdInv, ChildInv
  <2>3. CASE Root(c) \in ps
    <3>1. proc'[Root(c)] = [proc[Root(c)] EXCEPT !.state = "zombie"]
      BY <2>1, <2>2, <2>3 DEF Dead
    <3> QED BY <2>2, <3>1 DEF ProcInv, ProcessInv, ProcRecords
  <2>4. CASE Root(c) \notin ps BY <1>4, <2>2, <2>4
  <2> QED BY <2>3, <2>4
<1> QED BY <1>3, <1>5, <1>6, <1>7

\* Processes are stopped.
LEMMA StopStep ==
  ASSUME ProcInv, NEW ps \in SUBSET Pids, \A p \in ps : Alive(p), proc' = Stopped(ps), gens' = gens, reused' = reused
  PROVE  /\ ProcessInv' /\ ProcessStep /\ \A c \in Commands : ChildStays(c)
         /\ \A p \in Pids : Alive(p)' = Alive(p) /\ proc'[p].gen = proc[p].gen /\ proc'[p].of = proc[p].of
<1>1. /\ proc' \in [Pids -> ProcRecords]
      /\ \A p \in ps : proc'[p] = [proc[p] EXCEPT !.state = "stop"]
      /\ \A p \in Pids \ ps : proc'[p] = proc[p]
  BY DEF ProcInv, ProcessInv, Stopped, ProcRecords
<1>2. ASSUME NEW p \in Pids
      PROVE  /\ Alive(p)' = Alive(p) /\ proc'[p].gen = proc[p].gen /\ proc'[p].of = proc[p].of
             /\ proc'[p].group = proc[p].group /\ proc'[p].env = proc[p].env /\ proc'[p].fd = proc[p].fd
             /\ proc'[p].parent = proc[p].parent /\ (proc'[p].state = "free" => proc[p].state = "free")
  <2>1. CASE p \in ps
    <3>1. proc[p] \in ProcRecords /\ Alive(p) /\ proc'[p] = [proc[p] EXCEPT !.state = "stop"]
      BY <1>1, <2>1 DEF ProcInv, ProcessInv
    <3> QED BY <3>1 DEF ProcRecords, Alive
  <2>2. CASE p \notin ps BY <1>1, <2>2 DEF Alive
  <2> QED BY <2>1, <2>2
<1>3. ProcessInv'
  BY <1>1, <1>2 DEF ProcInv, ProcessInv, Foreign
<1>4. ProcessStep
  BY <1>2 DEF ProcInv, ProcessInv, ProcessStep
<1>5. \A c \in Commands : ChildStays(c)
  BY <1>2 DEF ProcInv, CmdInv, ChildInv, ChildStays
<1> QED BY <1>2, <1>3, <1>4, <1>5

\* A command reaps its child.
LEMMA ReapStep ==
  ASSUME ProcInv, NEW c \in Commands, cmd[c].live, Reaped(c), gens' = gens, reused' = reused
  PROVE  /\ ProcessInv' /\ ProcessStep /\ \A d \in Commands \ {c} : ChildStays(d)
         /\ \A p \in Pids : proc'[p] = proc[p] \/ proc[p].of = c
<1>1. Root(c) \in Pids /\ proc[Root(c)].of = c
  BY DEF ProcInv, CmdInv, ChildInv
<1>2. /\ proc' \in [Pids -> ProcRecords]
      /\ proc'[Root(c)] = Free
      /\ \A p \in Pids \ {Root(c)} : proc'[p] = proc[p]
  BY <1>1 DEF ProcInv, ProcessInv, Reaped, ProcRecords, Free
<1>4. ProcessInv'
  <2>1. ASSUME NEW p \in Pids
        PROVE  proc'[p].gen <= gens' /\ (Alive(p)' => proc'[p].gen > 0)
               /\ (Foreign(p)' => proc'[p].parent = 0 /\ proc'[p].group = p)
    <3>1. CASE p = Root(c) BY <1>2, <3>1 DEF ProcInv, ProcessInv, Free, Foreign, Alive
    <3>2. CASE p # Root(c) BY <1>2, <3>2 DEF ProcInv, ProcessInv, Foreign, Alive
    <3> QED BY <3>1, <3>2
  <2> QED BY <1>2, <2>1 DEF ProcInv, ProcessInv
<1>5. ProcessStep
  <2>1. ASSUME NEW p \in Pids, Alive(p)' PROVE proc'[p] = proc[p]
    BY <1>2, <2>1 DEF Alive, Free
  <2> QED BY <2>1 DEF ProcInv, ProcessInv, ProcessStep, Alive
<1>6. ASSUME NEW d \in Commands \ {c} PROVE ChildStays(d)
  BY <1>1, <1>2 DEF ProcInv, CmdInv, ChildInv, ChildStays
<1> QED BY <1>1, <1>2, <1>4, <1>5, <1>6

\* A process is born.
LEMMA BirthStep ==
  ASSUME ProcInv, NEW q \in Pids, NEW process \in ProcRecords, Born(q, process), process.state = "run",
         process.of = NoCommand => process.parent = 0 /\ process.group = q
  PROVE  /\ ProcessInv' /\ ProcessStep /\ \A c \in Commands : ChildStays(c)
         /\ proc[q].state = "free" /\ \A p \in Pids \ {q} : proc'[p] = proc[p]
         /\ proc'[q].state = "run" /\ proc'[q].of = process.of
<1>1. /\ proc[q].state = "free" /\ gens' = gens + 1 /\ gens \in Nat
      /\ proc'[q] = [process EXCEPT !.gen = gens']
      /\ \A p \in Pids \ {q} : proc'[p] = proc[p]
      /\ reused' = IF Listed(q) THEN reused \cup {gens'} ELSE reused
      /\ proc' = [proc EXCEPT ![q] = [process EXCEPT !.gen = gens']]
  BY DEF ProcInv, ProcessInv, Born, Unused
<1>2. /\ proc'[q] \in ProcRecords /\ proc'[q].gen = gens + 1 /\ proc'[q].state = "run" /\ proc'[q].of = process.of
      /\ proc'[q].parent = process.parent /\ proc'[q].group = process.group
  BY <1>1 DEF ProcRecords
<1>3. proc' \in [Pids -> ProcRecords]
  BY <1>1, <1>2 DEF ProcInv, ProcessInv
<1>4. ProcessInv'
  <2>1. ASSUME NEW p \in Pids
        PROVE  proc'[p].gen <= gens' /\ (Alive(p)' => proc'[p].gen > 0)
               /\ (Foreign(p)' => proc'[p].parent = 0 /\ proc'[p].group = p)
    <3>1. CASE p = q
      <4>1. gens + 1 > 0 /\ gens + 1 <= gens + 1 BY <1>1
      <4>2. proc'[q].gen <= gens' /\ proc'[q].gen > 0 BY <1>1, <1>2, <4>1
      <4>3. proc'[q].of = NoCommand => proc'[q].parent = 0 /\ proc'[q].group = q BY <1>2
      <4> QED BY <3>1, <4>2, <4>3 DEF Foreign, Alive
    <3>2. CASE p # q
      <4>1. proc[p].gen \in Nat BY DEF ProcInv, ProcessInv, ProcRecords
      <4> QED BY <1>1, <3>2, <4>1 DEF ProcInv, ProcessInv, Foreign, Alive
    <3> QED BY <3>1, <3>2
  <2>2. gens' \in Nat BY <1>1
  <2> QED BY <1>3, <2>1, <2>2 DEF ProcessInv
<1>5. ProcessStep
  BY <1>1, <1>2 DEF ProcessStep, Alive
<1>6. \A c \in Commands : ChildStays(c)
  BY <1>1 DEF ProcInv, CmdInv, ChildInv, ChildStays
<1> QED BY <1>1, <1>2, <1>4, <1>5, <1>6

-----------------------------------------------------------------------------
(* What a command knows of the processes stays true *)

\* A PID that is excused stays so, if the process is an old one or the PID is listed.
LEMMA ExcusedKeeps ==
  ASSUME ProcInv, ProcessStep, NEW p \in Pids, Excused(p), proc'[p].gen <= gens \/ Listed(p)
  PROVE  Excused(p)'
<1>1. gens \in Nat
  BY DEF ProcInv, ProcessInv
<1>2. SUFFICES ASSUME Alive(p)', proc'[p].of = NoCommand PROVE proc'[p].gen \in reused'
  BY DEF Excused, Foreign
<1>3. CASE Alive(p) /\ proc'[p].gen = proc[p].gen /\ proc'[p].of = proc[p].of
  BY <1>2, <1>3 DEF Excused, Foreign, ProcessStep
<1>4. CASE proc'[p].gen = gens + 1 /\ (Listed(p) => gens + 1 \in reused')
  BY <1>1, <1>4
<1> QED BY <1>2, <1>3, <1>4 DEF ProcessStep

\* A captured process that is alive is the one that was alive.
LEMMA IdentityKeeps ==
  ASSUME ProcInv, ProcessStep, NEW c \in Commands, NEW i \in cmd[c].captured
  PROVE  /\ i.pid \in Pids /\ i.gen <= gens'
         /\ Alive(i.pid)' /\ i.gen = proc'[i.pid].gen => Alive(i.pid) /\ i.gen = proc[i.pid].gen
         /\ i.gen = proc'[i.pid].gen => Excused(i.pid)'
<1>1. i \in Identities /\ i.gen <= gens /\ gens \in Nat /\ cmd[c] \in CmdRecords
  BY DEF ProcInv, ProcessInv, CmdInv, CaptureInv, CmdRecords
<1>2. i.pid \in Pids /\ i.gen \in Nat
  BY <1>1 DEF Identities
<1>3. i.gen <= gens'
  BY <1>1, <1>2 DEF ProcessStep
<1>4. ASSUME Alive(i.pid)', i.gen = proc'[i.pid].gen PROVE Alive(i.pid) /\ i.gen = proc[i.pid].gen
  BY <1>1, <1>2, <1>4 DEF ProcessStep
<1>5. ASSUME i.gen = proc'[i.pid].gen PROVE Excused(i.pid)'
  <2>1. CASE Alive(i.pid)'
    <3>1. Excused(i.pid)
      BY <1>4, <1>5, <2>1 DEF ProcInv, CmdInv, CaptureInv
    <3> QED BY <1>1, <1>2, <1>5, <3>1, ExcusedKeeps
  <2>2. CASE ~Alive(i.pid)' BY <2>2 DEF Excused, Foreign
  <2> QED BY <2>1, <2>2
<1> QED BY <1>2, <1>3, <1>4, <1>5

\* So a signal to what was captured hits nobody new.
LEMMA HitKeeps ==
  ASSUME ProcInv, ProcessInv', ProcessStep, NEW c \in Commands, NEW p \in Pids, Alive(p)', Identity(p)' \in cmd[c].captured
  PROVE  p \in Hit(cmd[c].captured) /\ Identity(p)' = Identity(p)
<1>1. Identity(p)' = [pid |-> p, gen |-> proc'[p].gen]
  BY DEF Identity
<1>2. Alive(p) /\ proc'[p].gen = proc[p].gen
  BY <1>1, IdentityKeeps
<1> QED BY <1>1, <1>2 DEF Hit, Identity

\* A process that is older than the round was there before the step.
LEMMA OlderKeeps ==
  ASSUME ProcInv, ProcessStep, NEW c \in Commands, NEW p \in Pids,
         Alive(p)', proc'[p].of = c, proc'[p].gen <= cmd[c].begun
  PROVE  p \in Older(c) /\ (proc'[p].env => proc[p].env) /\ (proc'[p].fd => proc[p].fd) /\ (Marked(p)' => Marked(p))
<1>1. gens \in Nat /\ cmd[c].begun \in Nat /\ cmd[c].begun <= gens
  BY DEF ProcInv, ProcessInv, CmdInv, CmdPlaceInv, CmdRecords
<1>2. proc'[p].gen # gens + 1
  BY <1>1
<1>3. /\ Alive(p) /\ proc'[p].gen = proc[p].gen /\ proc'[p].of = proc[p].of
      /\ (proc'[p].env => proc[p].env) /\ (proc'[p].fd => proc[p].fd)
  BY <1>2 DEF ProcessStep
<1> QED BY <1>3 DEF Older, Marked

\* The lists of a lookup stay good.
LEMMA ListKeeps ==
  ASSUME ProcInv, ProcessStep, NEW c \in Commands, Scanning(c)
  PROVE  /\ \A e \in cmd[c].found : Excused(e[1])' \/ (Head(cmd[c].stages) = "tree" /\ e[2] = 0)
         /\ \A p \in cmd[c].cand : Excused(p)'
<1>1. cmd[c].found \subseteq Pids \X (Pids \cup {0}) /\ cmd[c].cand \subseteq Pids
  BY DEF ProcInv, CmdRecords
<1>2. ASSUME NEW e \in cmd[c].found, ~(Head(cmd[c].stages) = "tree" /\ e[2] = 0)
      PROVE  Excused(e[1])'
  <2>1. Excused(e[1]) /\ e[1] \in Pids
    BY <1>1, <1>2 DEF ProcInv, CmdInv, ListInv
  <2>2. Listed(e[1])
    BY DEF Listed, PidsOf, Scanning
  <2> QED BY <2>1, <2>2, ExcusedKeeps
<1>3. ASSUME NEW p \in cmd[c].cand PROVE Excused(p)'
  <2>1. Excused(p) /\ p \in Pids
    BY <1>1 DEF ProcInv, CmdInv, ListInv
  <2>2. Listed(p)
    BY DEF Listed, Scanning
  <2> QED BY <2>1, <2>2, ExcusedKeeps
<1> QED BY <1>2, <1>3

\* A command that does not move keeps its invariant, whatever the others do.
LEMMA OthersKeep ==
  ASSUME ProcInv, ProcessInv', ProcessStep, NEW d \in Commands, cmd'[d] = cmd[d], ChildStays(d),
         cmd[d].at \notin {"reserve", "done"} /\ d \in held => d \in held',
         d \in threads' => d \in threads /\ d \in held'
  PROVE  CmdInv(d)'
<1>1. CmdInv(d) /\ cmd[d] \in CmdRecords
  BY DEF ProcInv
<1>2. CmdPlaceInv(d)'
  <2>1. cmd[d].begun <= gens'
    BY <1>1 DEF CmdInv, CmdPlaceInv, ProcInv, ProcessInv, ProcessStep, CmdRecords
  <2>2. Scanning(d)' = Scanning(d)
    BY DEF Scanning
  <2> QED BY <1>1, <2>1, <2>2 DEF CmdInv, CmdPlaceInv
<1>3. ChildInv(d)'
  BY <1>1 DEF CmdInv, ChildInv, ChildStays, Root, Targets, Scanning
<1>4. ListInv(d)'
  <2>1. CASE Scanning(d) BY <2>1, ListKeeps DEF ListInv
  <2>2. CASE ~Scanning(d) BY <2>2 DEF ListInv, Scanning
  <2> QED BY <2>1, <2>2
<1>5. CaptureInv(d)'
  <2>1. \A i \in cmd[d].captured : i.gen <= gens' /\ (i.gen = proc'[i.pid].gen => Excused(i.pid)')
    BY IdentityKeeps
  <2>2. Hit(cmd[d].captured)' \subseteq Hit(cmd[d].captured)
    BY HitKeeps DEF Hit
  <2>3. ASSUME Hit(cmd[d].captured) \subseteq Hit(cmd[d].fresh)
        PROVE  Hit(cmd[d].captured)' \subseteq Hit(cmd[d].fresh)'
    <3>1. SUFFICES ASSUME NEW p \in Pids, Alive(p)', Identity(p)' \in cmd[d].captured
                   PROVE  Identity(p)' \in cmd[d].fresh
      BY DEF Hit
    <3> QED BY <2>3, <3>1, HitKeeps DEF Hit
  <2>4. Scanning(d)' = Scanning(d)
    BY DEF Scanning
  <2> QED BY <1>1, <2>1, <2>2, <2>3, <2>4 DEF CmdInv, CaptureInv
<1>6. CoverInv(d)'
  <2>1. \A p \in Older(d)' : p \in Older(d) /\ (proc'[p].env => proc[p].env) /\ (proc'[p].fd => proc[p].fd)
                             /\ (Marked(p)' => Marked(p))
    BY OlderKeeps DEF Older
  <2>2. \A p \in Pids : Ahead(d, p)' = Ahead(d, p)
    BY DEF Ahead
  <2>3. Scanning(d)' = Scanning(d) /\ Nothing(d)' = Nothing(d)
    BY DEF Scanning, Nothing
  <2>4. Older(d)' \subseteq Pids
    BY DEF Older
  <2> QED BY <1>1, <2>1, <2>2, <2>3, <2>4 DEF CmdInv, CoverInv
<1> QED BY <1>2, <1>3, <1>4, <1>5, <1>6 DEF CmdInv

\* A step of one command.
LEMMA OneMoves ==
  ASSUME ProcInv, ProcessInv', ProcessStep, NEW c \in Commands, NEW r \in CmdRecords, cmd' = [cmd EXCEPT ![c] = r],
         \A d \in Commands \ {c} : ChildStays(d),
         held' \subseteq Commands, threads' \subseteq held',
         \A d \in Commands \ {c} : (d \in held => d \in held') /\ (d \in threads' => d \in threads),
         CmdInv(c)'
  PROVE  ProcInv'
<1>1. cmd' \in [Commands -> CmdRecords] /\ \A d \in Commands \ {c} : cmd'[d] = cmd[d]
  BY DEF ProcInv
<1>2. ASSUME NEW d \in Commands \ {c} PROVE CmdInv(d)'
  BY <1>1, OthersKeep
<1> QED BY <1>1, <1>2 DEF ProcInv

\* A step of the processes alone.
LEMMA NoneMoves ==
  ASSUME ProcInv, ProcessInv', ProcessStep, UNCHANGED <<cmd, held, threads>>, \A c \in Commands : ChildStays(c)
  PROVE  ProcInv'
<1>1. ASSUME NEW d \in Commands PROVE CmdInv(d)'
  BY OthersKeep DEF ProcInv
<1> QED BY <1>1 DEF ProcInv

-----------------------------------------------------------------------------
(* A command that moves on *)

\* The command changes its place, and perhaps has seen an error.
OnlyGoes(c, r) ==
    /\ r.root = cmd[c].root /\ r.live = cmd[c].live /\ r.target = cmd[c].target /\ r.round = cmd[c].round
    /\ r.visible = cmd[c].visible /\ r.captured = cmd[c].captured /\ r.fresh = cmd[c].fresh /\ r.begun = cmd[c].begun

LEMMA GoesOn ==
  ASSUME ProcInv, ProcessInv', ProcessStep, NEW c \in Commands, NEW r \in CmdRecords,
         cmd' = [cmd EXCEPT ![c] = r], OnlyGoes(c, r),
         \A d \in Commands : ChildStays(d),
         held' \subseteq Commands, threads' \subseteq held',
         \A d \in Commands \ {c} : (d \in held => d \in held') /\ (d \in threads' => d \in threads),
         r.at \notin {"look", "capture", "judge", "killfresh"},
         r.at \in Early => cmd[c].at \in Early /\ ~r.errors,
         r.at \in {"reserve", "spawn"} => cmd[c].at \in {"reserve", "spawn"},
         r.at \notin {"reserve", "done"} => c \in held',
         c \in threads' => r.errors,
         r.at \in {"fallback", "killall"} => r.errors,
         r.at \in {"kill", "killgroup", "reap"} => cmd[c].round = "first",
         r.at \in {"stop", "first", "kill", "killgroup"} => Targets(c),
         r.at \in {"killgroup", "reap", "fallback", "finish", "done"} =>
            \A p \in Pids : Alive(p)' => Identity(p)' \notin cmd[c].captured,
         r.at \in {"finish", "done"} /\ ~r.errors => \A p \in Older(c) : ~Marked(p)
  PROVE  ProcInv'
<1>1. cmd'[c] = r /\ cmd[c] \in CmdRecords /\ CmdInv(c)
  BY DEF ProcInv
<1>2. CmdPlaceInv(c)'
  <2>1. cmd[c].begun <= gens'
    BY <1>1 DEF CmdInv, CmdPlaceInv, ProcInv, ProcessInv, ProcessStep, CmdRecords
  <2>2. ~Scanning(c)'
    BY <1>1 DEF Scanning
  <2> QED BY <1>1, <2>1, <2>2 DEF OnlyGoes, CmdInv, CmdPlaceInv
<1>3. ChildInv(c)'
  <2>1. Root(c)' = Root(c)
    BY <1>1 DEF Root, OnlyGoes
  <2>2. Targets(c)' => Targets(c)
    BY <1>1 DEF Targets, Scanning
  <2> QED BY <1>1, <2>1, <2>2 DEF OnlyGoes, CmdInv, ChildInv, ChildStays
<1>4. ListInv(c)'
  BY <1>1 DEF ListInv, Scanning
<1>5. CaptureInv(c)'
  <2>1. \A i \in cmd[c].captured : i.gen <= gens' /\ (i.gen = proc'[i.pid].gen => Excused(i.pid)')
    BY IdentityKeeps
  <2>2. ~Scanning(c)' /\ cmd'[c].at \notin {"judge", "killfresh"}
    BY <1>1 DEF Scanning
  <2>3. Hit(cmd[c].captured)' = {p \in Pids : Alive(p)' /\ Identity(p)' \in r.captured}
    BY <1>1 DEF Hit
  <2> QED BY <1>1, <2>1, <2>2, <2>3 DEF OnlyGoes, CmdInv, CaptureInv
<1>6. CoverInv(c)'
  <2>1. \A p \in Older(c)' : p \in Older(c) /\ (Marked(p)' => Marked(p))
    BY <1>1, OlderKeeps DEF Older, OnlyGoes
  <2> QED BY <1>1, <2>1 DEF CoverInv, Scanning
<1>7. CmdInv(c)'
  BY <1>2, <1>3, <1>4, <1>5, <1>6 DEF CmdInv
<1> QED BY <1>7, OneMoves

\* Lists of lookups are put together.
LEMMA JoinOne ==
  ASSUME NEW a, NEW b
  PROVE  <<a>> \o <<b>> = <<a, b>>
<1> DEFINE s == <<a>> \o <<b>>
           t == <<a, b>>
<1>1. <<a>> \in Seq({a, b}) /\ <<b>> \in Seq({a, b}) /\ t \in Seq({a, b}) /\ Len(t) = 2 /\ t[1] = a /\ t[2] = b
  OBVIOUS
<1>2. s \in Seq({a, b}) /\ Len(s) = 2 /\ s[1] = a /\ s[2] = b
  BY <1>1
<1>3. \A i \in 1 .. 2 : s[i] = t[i]
  BY <1>1, <1>2
<1> HIDE DEF s, t
<1>4. s = t
  BY <1>1, <1>2, <1>3, SeqEqual
<1> QED BY <1>4 DEF s, t

LEMMA JoinTwo ==
  ASSUME NEW a, NEW b, NEW d
  PROVE  <<a, b>> \o <<d>> = <<a, b, d>>
<1> DEFINE s == <<a, b>> \o <<d>>
           t == <<a, b, d>>
<1>1. /\ <<a, b>> \in Seq({a, b, d}) /\ <<d>> \in Seq({a, b, d}) /\ t \in Seq({a, b, d})
      /\ Len(t) = 3 /\ t[1] = a /\ t[2] = b /\ t[3] = d
  OBVIOUS
<1>2. s \in Seq({a, b, d}) /\ Len(s) = 3 /\ s[1] = a /\ s[2] = b /\ s[3] = d
  BY <1>1
<1>3. \A i \in 1 .. 3 : s[i] = t[i]
  BY <1>1, <1>2
<1> HIDE DEF s, t
<1>4. s = t
  BY <1>1, <1>2, <1>3, SeqEqual
<1> QED BY <1>4 DEF s, t

\* What is left of the lookups when the first is done.
LEMMA StageFacts ==
  ASSUME NEW s \in StageLists, s # <<>>
  PROVE  /\ Tail(s) \in StageLists /\ Head(s) \in {"fd", "env", "tree"}
         /\ s \in EnvLists <=> Head(s) = "env" \/ Tail(s) \in EnvLists
         /\ s \in FdLists <=> Head(s) = "fd" \/ Tail(s) \in FdLists
         /\ s \in TreeLists <=> Head(s) = "tree" \/ Tail(s) \in TreeLists
         /\ Head(s) = "env" => Tail(s) \notin EnvLists
         /\ Head(s) = "fd" => Tail(s) \notin FdLists
         /\ <<>> \notin EnvLists \cup FdLists \cup TreeLists
<1> USE DEF StageLists, EnvLists, FdLists, TreeLists
<1>1. CASE s = <<"env">> BY <1>1
<1>2. CASE s = <<"fd">> BY <1>2
<1>3. CASE s = <<"tree">> BY <1>3
<1>4. CASE s = <<"env", "fd">>
  <2>1. Head(s) = "env" /\ Tail(s) = <<"fd">> BY <1>4
  <2> QED BY <1>4, <2>1
<1>5. CASE s = <<"fd", "env">>
  <2>1. Head(s) = "fd" /\ Tail(s) = <<"env">> BY <1>5
  <2> QED BY <1>5, <2>1
<1>6. CASE s = <<"env", "tree">>
  <2>1. Head(s) = "env" /\ Tail(s) = <<"tree">> BY <1>6
  <2> QED BY <1>6, <2>1
<1>7. CASE s = <<"fd", "env", "tree">>
  <2>1. Head(s) = "fd" /\ Tail(s) = <<"env", "tree">> BY <1>7
  <2> QED BY <1>7, <2>1
<1> QED BY <1>1, <1>2, <1>3, <1>4, <1>5, <1>6, <1>7

\* The lookups a round begins with.
LEMMA StagesBegin ==
  ASSUME NEW c, NEW root, NEW round \in Rounds, root # 0 => round # "verdict"
  PROVE  /\ Stages(c, root, round) \in StageLists \ {<<>>}
         /\ Stages(c, root, round) \in EnvLists
         /\ c \notin threads => Stages(c, root, round) \in FdLists
         /\ Stages(c, root, round) \in TreeLists => root # 0
<1>1. /\ <<>> \o <<"env">> = <<"env">> /\ <<"env">> \o <<>> = <<"env">> /\ <<"env">> \o <<"fd">> = <<"env", "fd">>
      /\ <<"fd">> \o <<"env">> = <<"fd", "env">> /\ <<"env">> \o <<"tree">> = <<"env", "tree">>
      /\ <<"fd", "env">> \o <<>> = <<"fd", "env">> /\ <<"fd", "env">> \o <<"tree">> = <<"fd", "env", "tree">>
  <2>1. <<>> \o <<"env">> = <<"env">> /\ <<"env">> \o <<>> = <<"env">> /\ <<"fd", "env">> \o <<>> = <<"fd", "env">>
    OBVIOUS
  <2> QED BY <2>1, JoinOne, JoinTwo
<1>2. Stages(c, root, round) =
         IF round = "verdict" THEN IF c \in threads THEN <<"env">> ELSE <<"env", "fd">>
         ELSE IF c \in threads THEN IF root = 0 THEN <<"env">> ELSE <<"env", "tree">>
         ELSE IF root = 0 THEN <<"fd", "env">> ELSE <<"fd", "env", "tree">>
  BY <1>1, Zenon DEF Stages
<1>3. /\ <<"env">> \in EnvLists \ TreeLists /\ <<"env", "fd">> \in (EnvLists \cap FdLists) \ TreeLists
      /\ <<"env", "tree">> \in EnvLists /\ <<"fd", "env">> \in (EnvLists \cap FdLists) \ TreeLists
      /\ <<"fd", "env", "tree">> \in EnvLists \cap FdLists
      /\ <<>> \notin EnvLists
  BY DEF EnvLists, FdLists, TreeLists
<1>4. EnvLists \subseteq StageLists
  BY DEF StageLists
<1> QED BY <1>2, <1>3, <1>4

\* A round begins, with a child or without.
RoundWith(c, round, target, live) ==
    [cmd[c] EXCEPT !.at = "look", !.round = round, !.target = target, !.stages = Stages(c, target, round),
                   !.todo = Pids, !.found = {}, !.cand = {}, !.visible = {}, !.fresh = {}, !.begun = gens,
                   !.live = live]

LEMMA RoundBegins ==
  ASSUME ProcInv, ProcessInv', ProcessStep, NEW c \in Commands, NEW round \in Rounds, NEW live \in BOOLEAN,
         NEW target \in Pids \cup {0}, target = IF round = "first" THEN cmd[c].target ELSE 0,
         cmd' = [cmd EXCEPT ![c] = RoundWith(c, round, target, live)],
         gens' = gens, held' = held, threads' = threads, c \in held,
         \A d \in Commands \ {c} : ChildStays(d),
         live => cmd[c].live /\ ChildStays(c),
         round = "first" => cmd[c].at = "first" /\ live = cmd[c].live,
         round # "first" => \A p \in Pids : Alive(p)' => Identity(p)' \notin cmd[c].captured,
         round = "fallback" => cmd[c].errors
  PROVE  ProcInv'
<1>1. /\ cmd[c] \in CmdRecords /\ CmdInv(c) /\ gens \in Nat
      /\ Stages(c, target, round) \in StageLists /\ Stages(c, target, round) # <<>>
  BY StagesBegin DEF ProcInv, ProcessInv
<1> DEFINE r == RoundWith(c, round, target, live)
<1>2. r \in CmdRecords
  <2>1. "look" \in Places /\ round \in Rounds \cup {"none"} /\ Pids \in SUBSET Pids
        /\ {} \in SUBSET Pids /\ {} \in SUBSET Identities /\ {} \in SUBSET (Pids \X (Pids \cup {0}))
    BY DEF Places
  <2> DEFINE s == Stages(c, target, round)
  <2>2. r = [cmd[c] EXCEPT !.at = "look", !.round = round, !.target = target, !.stages = s,
                           !.todo = Pids, !.found = {}, !.cand = {}, !.visible = {}, !.fresh = {}, !.begun = gens,
                           !.live = live]
    BY DEF RoundWith
  <2>3. s \in StageLists /\ cmd[c] \in CmdRecords /\ gens \in Nat
    BY <1>1
  <2> HIDE DEF r, s
  <2> QED BY <2>1, <2>2, <2>3 DEF CmdRecords
<1>3. cmd'[c] = r
  BY DEF ProcInv
<1>4. /\ r.at = "look" /\ r.round = round /\ r.target = target /\ r.stages = Stages(c, target, round)
      /\ r.todo = Pids /\ r.found = {} /\ r.cand = {} /\ r.visible = {} /\ r.fresh = {} /\ r.begun = gens
      /\ r.live = live /\ r.root = cmd[c].root /\ r.captured = cmd[c].captured /\ r.errors = cmd[c].errors
  BY <1>1 DEF CmdRecords, RoundWith
<1> HIDE DEF r
<1>5. Scanning(c)'
  BY <1>3, <1>4 DEF Scanning
<1>6. CmdPlaceInv(c)'
  <2>1. r.stages \in TreeLists => target # 0
    BY <1>4, StagesBegin
  <2> QED BY <1>1, <1>3, <1>4, <1>5, <2>1 DEF CmdPlaceInv, CmdInv, Early
<1>7. ChildInv(c)'
  <2>1. Root(c)' = Root(c)
    BY <1>3, <1>4 DEF Root
  <2>2. target # 0 => cmd[c].live /\ target = Root(c) /\ live
    BY <1>1 DEF CmdInv, ChildInv, Targets
  <2> QED BY <1>1, <1>3, <1>4, <2>1, <2>2 DEF CmdInv, ChildInv, ChildStays
<1>8. ListInv(c)'
  BY <1>3, <1>4 DEF ListInv
<1>9. CaptureInv(c)'
  <2>1. \A i \in cmd[c].captured : i.gen <= gens' /\ (i.gen = proc'[i.pid].gen => Excused(i.pid)')
    BY IdentityKeeps
  <2>2. round = "first" => cmd[c].captured = {}
    BY <1>1 DEF CmdInv, CmdPlaceInv, Early
  <2>3. round # "first" => Hit(cmd[c].captured)' = {}
    BY <1>3, <1>4 DEF Hit
  <2>4. (cmd[c].captured)' = cmd[c].captured /\ (cmd[c].fresh)' = {} /\ (cmd[c].round)' = round /\ (cmd[c].at)' = "look"
    BY <1>3, <1>4
  <2>5. \A i \in (cmd[c].captured)' : i.gen <= gens' /\ (i.gen = proc'[i.pid].gen => Excused(i.pid)')
    BY <2>1, <2>4
  <2> QED BY <2>2, <2>3, <2>4, <2>5 DEF CaptureInv
<1>10. CoverInv(c)'
  <2>1. ~cmd[c].errors => r.stages \in EnvLists \cap FdLists
    BY <1>1, <1>4, StagesBegin DEF CmdInv, CmdPlaceInv
  <2>2. \A p \in Pids : Ahead(c, p)'
    BY <1>3, <1>4 DEF Ahead
  <2>3. Older(c)' \subseteq Pids
    BY DEF Older
  <2> QED BY <1>3, <1>4, <1>5, <2>1, <2>2, <2>3 DEF CoverInv, Nothing
<1>11. CmdInv(c)'
  BY <1>6, <1>7, <1>8, <1>9, <1>10 DEF CmdInv
<1> QED BY <1>1, <1>2, <1>3, <1>11, OneMoves DEF ProcInv, r

-----------------------------------------------------------------------------
(* The steps of a command that look for nobody *)

\* The command changes its place only.
LEMMA GoesTo ==
  ASSUME ProcInv, ProcessInv', ProcessStep, NEW c \in Commands, NEW a \in Places, Goto(c, a),
         \A d \in Commands : ChildStays(d),
         held' \subseteq Commands, threads' \subseteq held',
         \A d \in Commands \ {c} : (d \in held => d \in held') /\ (d \in threads' => d \in threads),
         a \notin {"look", "capture", "judge", "killfresh"},
         a \in Early => cmd[c].at \in Early,
         a \in {"reserve", "spawn"} => cmd[c].at \in {"reserve", "spawn"},
         a \notin {"reserve", "done"} => c \in held',
         c \in threads' => cmd[c].errors,
         a \in {"fallback", "killall"} => cmd[c].errors,
         a \in {"kill", "killgroup", "reap"} => cmd[c].round = "first",
         a \in {"stop", "first", "kill", "killgroup"} => Targets(c),
         a \in {"killgroup", "reap", "fallback", "finish", "done"} =>
            \A p \in Pids : Alive(p)' => Identity(p)' \notin cmd[c].captured,
         a \in {"finish", "done"} /\ ~cmd[c].errors => \A p \in Older(c) : ~Marked(p)
  PROVE  ProcInv'
<1> DEFINE r == [cmd[c] EXCEPT !.at = a]
<1>1. r \in CmdRecords /\ OnlyGoes(c, r) /\ r.at = a /\ r.errors = cmd[c].errors
  BY DEF ProcInv, CmdRecords, OnlyGoes
<1>2. cmd' = [cmd EXCEPT ![c] = r]
  BY DEF Goto, Update
<1>3. r.at \in Early => cmd[c].at \in Early /\ ~r.errors
  BY <1>1 DEF ProcInv, CmdInv, CmdPlaceInv
<1> HIDE DEF r
<1> QED BY <1>1, <1>2, <1>3, GoesOn

\* Before the first round nobody is captured and no process is older than it.
LEMMA EarlyFacts ==
  ASSUME ProcInv, NEW c \in Commands, cmd[c].at \in Early
  PROVE  cmd[c].captured = {} /\ ~cmd[c].errors /\ Older(c) = {} /\ c \notin threads
<1>1. cmd[c].captured = {} /\ ~cmd[c].errors /\ cmd[c].begun = 0 /\ c \notin threads
  BY DEF ProcInv, CmdInv, CmdPlaceInv
<1>2. \A p \in Pids : Alive(p) => proc[p].gen > 0 /\ proc[p].gen \in Nat
  BY DEF ProcInv, ProcessInv, ProcRecords
<1>3. Older(c) = {}
  BY <1>1, <1>2 DEF Older
<1> QED BY <1>1, <1>3

\* If everybody who was captured is dead, that remains so.
LEMMA DeadStayDead ==
  ASSUME ProcInv, ProcessInv', ProcessStep, NEW c \in Commands, Hit(cmd[c].captured) = {}
  PROVE  \A p \in Pids : Alive(p)' => Identity(p)' \notin cmd[c].captured
BY HitKeeps

LEMMA KilledAreDead ==
  ASSUME ProcInv, NEW c \in Commands, proc' = Dead(Hit(cmd[c].captured)), gens' = gens, reused' = reused
  PROVE  /\ ProcessInv' /\ ProcessStep /\ \A d \in Commands : ChildStays(d)
         /\ \A p \in Pids : Alive(p)' => Identity(p)' \notin cmd[c].captured
<1>1. Hit(cmd[c].captured) \in SUBSET Pids
  BY DEF Hit
<1>2. /\ ProcessInv' /\ ProcessStep /\ \A d \in Commands : ChildStays(d)
      /\ \A p \in Hit(cmd[c].captured) : ~Alive(p)'
  BY <1>1, KillStep
<1> QED BY <1>2, HitKeeps

LEMMA ReserveStep ==
  ASSUME ProcInv, NEW c \in Commands, Reserve(c)
  PROVE  ProcInv'
<1>1. ProcessInv' /\ ProcessStep /\ \A d \in Commands : ChildStays(d)
  BY StillStep DEF Reserve
<1>2. cmd[c].at \in Early /\ "spawn" \in Places
  BY DEF Reserve, Early, Places
<1>3. Goto(c, "spawn") /\ held' = held \cup {c} /\ threads' = threads
  BY DEF Reserve
<1>4. held' \subseteq Commands /\ threads' \subseteq held' /\ c \in held'
  BY <1>3 DEF ProcInv
<1>5. cmd[c].at = "reserve"
  BY DEF Reserve
<1> QED BY <1>1, <1>2, <1>3, <1>4, <1>5, EarlyFacts, GoesTo

LEMMA StopWaitingStep ==
  ASSUME ProcInv, NEW c \in Commands, GiveUpWaiting(c) \/ SpawnFails(c)
  PROVE  ProcInv'
<1>1. ProcessInv' /\ ProcessStep /\ \A d \in Commands : ChildStays(d)
  BY StillStep DEF GiveUpWaiting, SpawnFails
<1>2. cmd[c].at \in Early /\ "done" \in Places /\ "done" \notin Early
  BY DEF GiveUpWaiting, SpawnFails, Early, Places
<1>3. /\ Goto(c, "done")
      /\ held' \in {held, held \ {c}} /\ threads' = threads
  BY DEF GiveUpWaiting, SpawnFails
<1>4. held' \subseteq Commands /\ threads' \subseteq held'
  BY <1>2, <1>3, EarlyFacts DEF ProcInv
<1> QED BY <1>1, <1>2, <1>3, <1>4, EarlyFacts, GoesTo

LEMMA GiveUpStep ==
  ASSUME ProcInv, NEW c \in Commands, GiveUp(c)
  PROVE  ProcInv'
<1>1. ProcessInv' /\ ProcessStep /\ \A d \in Commands : ChildStays(d)
  BY StillStep DEF GiveUp
<1>2. cmd[c].at = "running" /\ cmd[c].at \in Early /\ "quiesce" \in Places /\ "quiesce" \in Early
  BY DEF GiveUp, Early, Places
<1>3. Goto(c, "quiesce") /\ held' = held /\ threads' = threads
  BY DEF GiveUp
<1>4. held' \subseteq Commands /\ threads' \subseteq held' /\ c \in held'
  BY <1>2, <1>3 DEF ProcInv, CmdInv, CmdPlaceInv
<1> QED BY <1>1, <1>2, <1>3, <1>4, EarlyFacts, GoesTo

LEMMA StopGroupStep ==
  ASSUME ProcInv, NEW c \in Commands, StopGroup(c)
  PROVE  ProcInv'
<1>1. Members(cmd[c].target) \in SUBSET Pids /\ \A p \in Members(cmd[c].target) : Alive(p)
  BY DEF Members
<1>2. ProcessInv' /\ ProcessStep /\ \A d \in Commands : ChildStays(d)
  BY <1>1, StopStep DEF StopGroup
<1>3. cmd[c].at = "stop" /\ cmd[c].at \in Early /\ "root" \in Places /\ "root" \in Early
  BY DEF StopGroup, Early, Places
<1>4. Goto(c, "root") /\ held' = held /\ threads' = threads
  BY DEF StopGroup
<1>5. held' \subseteq Commands /\ threads' \subseteq held' /\ c \in held'
  BY <1>3, <1>4 DEF ProcInv, CmdInv, CmdPlaceInv
<1> QED BY <1>2, <1>3, <1>4, <1>5, EarlyFacts, GoesTo

LEMMA JudgeStep ==
  ASSUME ProcInv, NEW c \in Commands, Judge(c)
  PROVE  ProcInv'
<1>1. ProcessInv' /\ ProcessStep /\ \A d \in Commands : ChildStays(d)
  BY StillStep DEF Judge
<1> DEFINE clean == cmd[c].target = 0 /\ cmd[c].visible = {}
           a == IF clean THEN "finish" ELSE "kill"
<1>2. cmd[c].at = "judge" /\ a \in Places /\ a \notin Early
  BY DEF Judge, Early, Places
<1>3. Goto(c, a) /\ held' = held /\ threads' = threads
  BY DEF Judge
<1>4. /\ held' \subseteq Commands /\ threads' \subseteq held' /\ c \in held' /\ cmd[c].round = "first"
      /\ (c \in threads => cmd[c].errors)
  BY <1>2, <1>3 DEF ProcInv, CmdInv, CmdPlaceInv
<1>5. Targets(c)
  BY <1>2 DEF Targets
<1>6. ASSUME clean PROVE cmd[c].captured = {}
  BY <1>2, <1>6 DEF ProcInv, CmdInv, CaptureInv
<1>7. ASSUME clean, ~cmd[c].errors PROVE \A p \in Older(c) : ~Marked(p)
  BY <1>2, <1>7 DEF ProcInv, CmdInv, CoverInv, Nothing
<1>8. a \in {"finish", "kill"} /\ (a = "finish" => clean)
  OBVIOUS
<1> HIDE DEF a, clean
<1> QED BY <1>1, <1>2, <1>3, <1>4, <1>5, <1>6, <1>7, <1>8, GoesTo

LEMMA KillsStep ==
  ASSUME ProcInv, NEW c \in Commands, Kill(c) \/ KillAll(c)
  PROVE  ProcInv'
<1>1. /\ ProcessInv' /\ ProcessStep /\ \A d \in Commands : ChildStays(d)
      /\ \A p \in Pids : Alive(p)' => Identity(p)' \notin cmd[c].captured
  BY KilledAreDead DEF Kill, KillAll
<1>2. CASE Kill(c)
  <2>1. cmd[c].at = "kill" /\ "killgroup" \in Places /\ "killgroup" \notin Early
    BY <1>2 DEF Kill, Early, Places
  <2>2. Goto(c, "killgroup") /\ held' = held /\ threads' = threads
    BY <1>2 DEF Kill
  <2>3. /\ held' \subseteq Commands /\ threads' \subseteq held' /\ c \in held' /\ cmd[c].round = "first" /\ Targets(c)
        /\ (c \in threads => cmd[c].errors)
    BY <2>1, <2>2 DEF ProcInv, CmdInv, CmdPlaceInv, Targets
  <2> QED BY <1>1, <2>1, <2>2, <2>3, GoesTo
<1>3. CASE KillAll(c)
  <2>1. cmd[c].at = "killall" /\ "finish" \in Places /\ "finish" \notin Early
    BY <1>3 DEF KillAll, Early, Places
  <2>2. Goto(c, "finish") /\ held' = held /\ threads' = threads
    BY <1>3 DEF KillAll
  <2>3. held' \subseteq Commands /\ threads' \subseteq held' /\ c \in held' /\ cmd[c].errors
    BY <2>1, <2>2 DEF ProcInv, CmdInv, CmdPlaceInv
  <2> QED BY <1>1, <2>1, <2>2, <2>3, GoesTo
<1> QED BY <1>2, <1>3

LEMMA KillGroupStep ==
  ASSUME ProcInv, NEW c \in Commands, KillGroup(c)
  PROVE  ProcInv'
<1>1. ProcessInv' /\ ProcessStep /\ \A d \in Commands : ChildStays(d)
  <2>1. Members(cmd[c].target) \in SUBSET Pids
    BY DEF Members
  <2> QED BY <2>1, KillStep, StillStep DEF KillGroup
<1>2. cmd[c].at = "killgroup" /\ "reap" \in Places /\ "reap" \notin Early
  BY DEF KillGroup, Early, Places
<1>3. Goto(c, "reap") /\ held' = held /\ threads' = threads
  BY DEF KillGroup
<1>4. /\ held' \subseteq Commands /\ threads' \subseteq held' /\ c \in held' /\ cmd[c].round = "first"
      /\ (c \in threads => cmd[c].errors)
  BY <1>2, <1>3 DEF ProcInv, CmdInv, CmdPlaceInv
<1>5. Hit(cmd[c].captured) = {}
  BY <1>2 DEF ProcInv, CmdInv, CaptureInv
<1> QED BY <1>1, <1>2, <1>3, <1>4, <1>5, DeadStayDead, GoesTo

LEMMA EndCleanupStep ==
  ASSUME ProcInv, NEW c \in Commands, EndCleanup(c)
  PROVE  ProcInv'
<1>1. ProcessInv' /\ ProcessStep /\ \A d \in Commands : ChildStays(d)
  BY StillStep DEF EndCleanup
<1>2. cmd[c].at = "finish" /\ "done" \in Places /\ "done" \notin Early
  BY DEF EndCleanup, Early, Places
<1>3. /\ Goto(c, "done") /\ threads' = threads
      /\ held' = IF c \in threads THEN held ELSE held \ {c}
  BY DEF EndCleanup
<1>4. /\ held' \subseteq Commands /\ threads' \subseteq held'
      /\ (c \in threads => cmd[c].errors)
  BY <1>2, <1>3 DEF ProcInv, CmdInv, CmdPlaceInv
<1>5. Hit(cmd[c].captured) = {} /\ (~cmd[c].errors => \A p \in Older(c) : ~Marked(p))
  BY <1>2 DEF ProcInv, CmdInv, CaptureInv, CoverInv
<1>6. \A d \in Commands \ {c} : (d \in held => d \in held') /\ (d \in threads' => d \in threads)
  BY <1>3
<1> QED BY <1>1, <1>2, <1>3, <1>4, <1>5, <1>6, DeadStayDead, GoesTo

LEMMA FallbackTimesOutStep ==
  ASSUME ProcInv, NEW c \in Commands, FallbackTimesOut(c)
  PROVE  ProcInv'
<1>1. ProcessInv' /\ ProcessStep /\ \A d \in Commands : ChildStays(d)
  BY StillStep DEF FallbackTimesOut
<1>2. cmd[c].at = "look" /\ cmd[c].round = "fallback" /\ "killall" \in Places /\ "killall" \notin Early
  BY DEF FallbackTimesOut, Early, Places
<1>3. /\ Goto(c, "killall") /\ held' = held
      /\ threads' \in {threads, threads \cup {c}}
  BY DEF FallbackTimesOut, LeftScan
<1>4. held' \subseteq Commands /\ threads' \subseteq held' /\ c \in held' /\ cmd[c].errors
  BY <1>2, <1>3 DEF ProcInv, CmdInv, CmdPlaceInv, Scanning
<1> QED BY <1>1, <1>2, <1>3, <1>4, GoesTo

LEMMA TimesOutStep ==
  ASSUME ProcInv, NEW c \in Commands, TimesOut(c)
  PROVE  ProcInv'
<1>1. /\ ProcessInv' /\ ProcessStep /\ \A d \in Commands : ChildStays(d)
      /\ \A p \in Pids : Alive(p)' => Identity(p)' \notin cmd[c].captured
  BY KilledAreDead DEF TimesOut
<1> DEFINE r == [cmd[c] EXCEPT !.at = "fallback", !.errors = TRUE]
<1>2. cmd[c].at \in {"reap", "look"} /\ "fallback" \in Places /\ "fallback" \notin Early
  BY DEF TimesOut, Early, Places
<1>3. r \in CmdRecords /\ OnlyGoes(c, r) /\ r.at = "fallback" /\ r.errors
  BY <1>2 DEF ProcInv, CmdRecords, OnlyGoes
<1>4. cmd' = [cmd EXCEPT ![c] = r] /\ held' = held /\ threads' \in {threads, threads \cup {c}}
  BY DEF TimesOut, Update, LeftScan
<1>5. held' \subseteq Commands /\ threads' \subseteq held' /\ c \in held'
  BY <1>2, <1>4 DEF ProcInv, CmdInv, CmdPlaceInv
<1> HIDE DEF r
<1> QED BY <1>1, <1>2, <1>3, <1>4, <1>5, GoesOn

-----------------------------------------------------------------------------
(* The child, and the rounds *)

LEMMA SpawnStep ==
  ASSUME ProcInv, NEW c \in Commands, Spawn(c)
  PROVE  ProcInv'
<1> DEFINE process(q) == [Free EXCEPT !.state = "run", !.of = c, !.group = q, !.env = TRUE, !.fd = TRUE]
           r(q) == [cmd[c] EXCEPT !.at = "running", !.root = q, !.live = TRUE]
<1>1. PICK q \in Pids : Born(q, process(q)) /\ Update(c, r(q))
  BY DEF Spawn
<1>2. process(q) \in ProcRecords /\ process(q).state = "run" /\ process(q).of = c
  BY DEF ProcRecords, Free
<1>3. c # NoCommand
  BY CommandsAssumption
<1>4. /\ ProcessInv' /\ ProcessStep /\ \A d \in Commands : ChildStays(d)
      /\ proc'[q].state = "run" /\ proc'[q].of = c
  <2> HIDE DEF process
  <2> QED BY <1>1, <1>2, <1>3, BirthStep
<1>5. /\ cmd[c] \in CmdRecords /\ CmdInv(c) /\ cmd[c].at = "spawn" /\ held' = held /\ threads' = threads
      /\ held \subseteq Commands /\ threads \subseteq held
  BY DEF ProcInv, Spawn
<1>6. /\ r(q) \in CmdRecords /\ r(q).at = "running" /\ r(q).root = q /\ r(q).live
      /\ r(q).captured = {} /\ r(q).fresh = {} /\ r(q).visible = {} /\ ~r(q).errors /\ r(q).begun = 0
  BY <1>5 DEF CmdRecords, Places, Early, CmdInv, CmdPlaceInv
<1>7. cmd' = [cmd EXCEPT ![c] = r(q)] /\ cmd'[c] = r(q)
  BY <1>1 DEF Update, ProcInv
<1> HIDE DEF r, process
<1>8. CmdPlaceInv(c)'
  BY <1>4, <1>5, <1>6, <1>7 DEF CmdPlaceInv, CmdInv, Early, Scanning, ProcessInv
<1>9. ChildInv(c)'
  BY <1>4, <1>6, <1>7 DEF ChildInv, Root, Targets, Scanning
<1>10. ListInv(c)' /\ CoverInv(c)' /\ CaptureInv(c)'
  BY <1>6, <1>7 DEF ListInv, CoverInv, CaptureInv, Scanning
<1> QED BY <1>4, <1>5, <1>6, <1>7, <1>8, <1>9, <1>10, OneMoves DEF CmdInv

\* The command sees whether its child is still there, and forgets one that it reaped.
LEMMA LooksAtChild ==
  ASSUME ProcInv, ProcessInv', ProcessStep, NEW c \in Commands, NEW r \in CmdRecords, cmd' = [cmd EXCEPT ![c] = r],
         \A d \in Commands \ {c} : ChildStays(d),
         held' = held, threads' = threads,
         cmd[c].at \in Early \ {"reserve"}, r.at \in {"quiesce", "stop", "root", "first"},
         r.root = cmd[c].root, r.captured = cmd[c].captured, r.fresh = cmd[c].fresh, r.visible = cmd[c].visible,
         r.errors = cmd[c].errors, r.begun = cmd[c].begun,
         r.live => cmd[c].live /\ ChildStays(c),
         r.at \in {"stop", "first"} /\ r.target # 0 => r.live /\ r.target = Root(c)
  PROVE  ProcInv'
<1>1. cmd'[c] = r /\ cmd[c] \in CmdRecords /\ CmdInv(c) /\ held' \subseteq Commands /\ threads' \subseteq held'
  BY DEF ProcInv
<1>2. /\ cmd[c].captured = {} /\ cmd[c].fresh = {} /\ cmd[c].visible = {} /\ ~cmd[c].errors /\ cmd[c].begun = 0
      /\ c \in held /\ c \notin threads /\ 0 <= gens'
  BY <1>1 DEF CmdInv, CmdPlaceInv, Early, ProcessInv
<1>3. r.at \in Early
  BY DEF Early
<1>4. CmdPlaceInv(c)'
  BY <1>1, <1>2, <1>3 DEF CmdPlaceInv, Early, Scanning
<1>5. ChildInv(c)'
  <2>1. Root(c)' = Root(c) /\ (Targets(c)' => r.at \in {"stop", "first"})
    BY <1>1 DEF Root, Targets, Scanning
  <2> QED BY <1>1, <2>1 DEF ChildInv, ChildStays, CmdInv
<1>6. ListInv(c)' /\ CoverInv(c)' /\ CaptureInv(c)'
  BY <1>1, <1>2 DEF ListInv, CoverInv, CaptureInv, Scanning
<1> QED BY <1>1, <1>4, <1>5, <1>6, OneMoves DEF CmdInv

LEMMA WaitedStep ==
  ASSUME ProcInv, NEW c \in Commands, Waited(c)
  PROVE  ProcInv'
<1>1. ProcessInv' /\ ProcessStep /\ \A d \in Commands \ {c} : ChildStays(d)
  BY ReapStep DEF Waited, RootIs
<1> DEFINE r == [cmd[c] EXCEPT !.at = "quiesce", !.live = FALSE]
<1>a. "quiesce" \in Places /\ cmd[c] \in CmdRecords
  BY DEF ProcInv, Places, Early
<1>2. /\ r \in CmdRecords /\ r.at = "quiesce" /\ ~r.live /\ r.root = cmd[c].root /\ r.captured = cmd[c].captured
      /\ r.fresh = cmd[c].fresh /\ r.visible = cmd[c].visible /\ r.errors = cmd[c].errors /\ r.begun = cmd[c].begun
  BY <1>a DEF CmdRecords
<1>3. cmd' = [cmd EXCEPT ![c] = r] /\ held' = held /\ threads' = threads /\ cmd[c].at \in Early \ {"reserve"}
  BY DEF Waited, Update, Early
<1> HIDE DEF r
<1> QED BY <1>1, <1>2, <1>3, LooksAtChild

LEMMA LookAtRootStep ==
  ASSUME ProcInv, NEW c \in Commands, Quiesce(c) \/ FindRoot(c)
  PROVE  ProcInv'
<1>1. PICK alive \in {"stop", "first"}, gone \in {"root", "first"} :
         LookAtRoot(c, alive, gone) /\ cmd[c].at \in Early \ {"reserve"}
  BY DEF Quiesce, FindRoot, Early
<1>2. UNCHANGED <<gens, held, threads, reused>> /\ alive \in Places /\ gone \in Places
  BY DEF Quiesce, FindRoot, Places, Early
<1>3. CASE RootIs(c, "zombie")
  <2>1. ProcessInv' /\ ProcessStep /\ \A d \in Commands \ {c} : ChildStays(d)
    BY <1>1, <1>2, <1>3, ReapStep DEF LookAtRoot, RootIs
  <2> DEFINE r == [cmd[c] EXCEPT !.live = FALSE, !.target = 0, !.at = gone]
  <2>2. /\ r \in CmdRecords /\ r.at = gone /\ ~r.live /\ r.target = 0 /\ r.root = cmd[c].root
        /\ r.captured = cmd[c].captured /\ r.fresh = cmd[c].fresh /\ r.visible = cmd[c].visible
        /\ r.errors = cmd[c].errors /\ r.begun = cmd[c].begun
    BY <1>2 DEF ProcInv, CmdRecords
  <2>3. cmd' = [cmd EXCEPT ![c] = r]
    BY <1>1, <1>3 DEF LookAtRoot, Update
  <2> HIDE DEF r
  <2> QED BY <1>1, <1>2, <2>1, <2>2, <2>3, LooksAtChild
<1>4. CASE ~RootIs(c, "zombie")
  <2>1. ProcessInv' /\ ProcessStep /\ \A d \in Commands : ChildStays(d)
    BY <1>1, <1>2, <1>4, StillStep DEF LookAtRoot
  <2> DEFINE t == IF cmd[c].live THEN Root(c) ELSE 0
             a == IF cmd[c].live THEN alive ELSE gone
             r == [cmd[c] EXCEPT !.target = t, !.at = a]
  <2>2. t \in Pids \cup {0} /\ a \in Places /\ a \in {"stop", "root", "first"}
    BY <1>1, <1>2 DEF ProcInv, CmdRecords, Root
  <2>3. cmd' = [cmd EXCEPT ![c] = r]
    BY <1>1, <1>4 DEF LookAtRoot, Update
  <2>4. t # 0 => cmd[c].live /\ t = Root(c)
    OBVIOUS
  <2> HIDE DEF t, a
  <2>5. /\ r \in CmdRecords /\ r.at = a /\ r.live = cmd[c].live /\ r.target = t /\ r.root = cmd[c].root
        /\ r.captured = cmd[c].captured /\ r.fresh = cmd[c].fresh /\ r.visible = cmd[c].visible
        /\ r.errors = cmd[c].errors /\ r.begun = cmd[c].begun
    BY <2>2 DEF ProcInv, CmdRecords
  <2> HIDE DEF r
  <2> QED BY <1>1, <1>2, <2>1, <2>2, <2>3, <2>4, <2>5, LooksAtChild
<1> QED BY <1>3, <1>4

\* A round as the code begins it.
LEMMA RoundIs ==
  ASSUME ProcInv, NEW c \in Commands, NEW round \in Rounds, NEW live \in BOOLEAN,
         NEW target, target = IF round = "first" THEN cmd[c].target ELSE 0
  PROVE  /\ target \in Pids \cup {0}
         /\ [Round(c, round) EXCEPT !.live = live] = RoundWith(c, round, target, live)
         /\ Round(c, round) = RoundWith(c, round, target, cmd[c].live)
BY DEF ProcInv, CmdRecords, Round, RoundWith

LEMMA BeginFirstStep ==
  ASSUME ProcInv, NEW c \in Commands, BeginFirst(c)
  PROVE  ProcInv'
<1>1. ProcessInv' /\ ProcessStep /\ \A d \in Commands : ChildStays(d)
  BY StillStep DEF BeginFirst
<1>2. cmd[c].at = "first" /\ c \in held /\ cmd[c].live \in BOOLEAN /\ "first" \in Rounds
  BY DEF BeginFirst, ProcInv, CmdInv, CmdPlaceInv, CmdRecords, Rounds
<1> DEFINE t == cmd[c].target
<1>3. /\ cmd' = [cmd EXCEPT ![c] = RoundWith(c, "first", t, cmd[c].live)]
      /\ t \in Pids \cup {0}
  BY <1>2, RoundIs DEF BeginFirst, Update
<1>4. UNCHANGED <<gens, held, threads>>
  BY DEF BeginFirst
<1> QED BY <1>1, <1>2, <1>3, <1>4, RoundBegins

\* A cleanup waits for the child that was killed and begins another round.
LEMMA ReapsStep ==
  ASSUME ProcInv, NEW c \in Commands, Reap(c) \/ Fallback(c)
  PROVE  ProcInv'
<1>1. ProcessInv' /\ ProcessStep /\ \A d \in Commands \ {c} : ChildStays(d)
  <2>1. CASE cmd[c].live BY <2>1, ReapStep DEF Reap, Fallback
  <2>2. CASE ~cmd[c].live BY <2>2, StillStep DEF Reap, Fallback
  <2> QED BY <2>1, <2>2
<1>2. cmd[c].at \in {"reap", "fallback"} /\ UNCHANGED <<gens, held, threads>>
  BY DEF Reap, Fallback
<1>3. c \in held /\ Hit(cmd[c].captured) = {}
  BY <1>2 DEF ProcInv, CmdInv, CmdPlaceInv, CaptureInv
<1>4. \A p \in Pids : Alive(p)' => Identity(p)' \notin cmd[c].captured
  BY <1>1, <1>3, DeadStayDead
<1>5. PICK round \in {"second", "fallback"} :
         /\ cmd' = [cmd EXCEPT ![c] = [Round(c, round) EXCEPT !.live = FALSE]]
         /\ round = "fallback" => cmd[c].errors
  BY DEF Reap, Fallback, Update, ProcInv, CmdInv, CmdPlaceInv
<1>6. round \in Rounds /\ round # "first" /\ 0 \in Pids \cup {0} /\ FALSE \in BOOLEAN
  BY DEF Rounds
<1>7. cmd' = [cmd EXCEPT ![c] = RoundWith(c, round, 0, FALSE)]
  BY <1>5, <1>6, RoundIs
<1> QED BY <1>1, <1>2, <1>3, <1>4, <1>5, <1>6, <1>7, RoundBegins

LEMMA KillFreshStep ==
  ASSUME ProcInv, NEW c \in Commands, KillFresh(c)
  PROVE  ProcInv'
<1>1. Hit(cmd[c].fresh) \in SUBSET Pids
  BY DEF Hit
<1>2. /\ ProcessInv' /\ ProcessStep /\ \A d \in Commands : ChildStays(d)
      /\ \A p \in Hit(cmd[c].fresh) : ~Alive(p)'
  BY <1>1, KillStep DEF KillFresh
<1>3. /\ cmd[c].at = "killfresh" /\ c \in held /\ Hit(cmd[c].captured) \subseteq Hit(cmd[c].fresh)
      /\ UNCHANGED <<gens, held, threads>> /\ cmd[c].live \in BOOLEAN
  BY DEF KillFresh, ProcInv, CmdInv, CmdPlaceInv, CaptureInv, CmdRecords
<1>4. \A p \in Pids : Alive(p)' => Identity(p)' \notin cmd[c].captured
  BY <1>2, <1>3, HitKeeps
<1>5. "verdict" \in Rounds /\ "verdict" # "first" /\ 0 \in Pids \cup {0}
  BY DEF Rounds
<1>6. Round(c, "verdict") = RoundWith(c, "verdict", 0, cmd[c].live)
  BY <1>3, <1>5, RoundIs
<1>7. cmd' = [cmd EXCEPT ![c] = RoundWith(c, "verdict", 0, cmd[c].live)]
  BY <1>6 DEF KillFresh, Update
<1> QED BY <1>2, <1>3, <1>4, <1>5, <1>7, RoundBegins

-----------------------------------------------------------------------------
(* Lookups *)

LEMMA MinIn ==
  ASSUME NEW T \in SUBSET Pids, T # {}
  PROVE  Min(T) \in T
<1>1. PICK R : IsWellFoundedOn(R, Nat) /\ \A m, n \in Nat : <<m, n>> \in R <=> m < n
  <2>1. \A m, n \in Nat : <<m, n>> \in OpToRel(<, Nat) <=> m < n
    BY DEF OpToRel
  <2> QED BY <2>1, NatLessThanWellFounded, Zenon
<1>2. T \subseteq Nat
  BY PidsAssumption
<1>3. IsWellFoundedOn(R, Nat)
  BY <1>1
<1>4. PICK n \in T : \A m \in T : ~ (<<m, n>> \in R)
  BY <1>2, <1>3, WFMin
<1>5. ASSUME NEW m \in T PROVE n =< m
  <2>1. m \in Nat /\ n \in Nat /\ ~ (m < n)
    BY <1>1, <1>2, <1>4
  <2> QED BY <2>1
<1> QED BY <1>5 DEF Min

\* Who is found below the root was listed with a parent.
LEMMA DescendantsAreListed ==
  ASSUME NEW pairs \in SUBSET (Pids \X (Pids \cup {0})), NEW root \in Pids, NEW p \in Descendants(pairs, root), p # root
  PROVE  \E e \in pairs : e[1] = p /\ e[2] # 0
<1> DEFINE S == {root} \cup {x \in Pids : \E e \in pairs : e[1] = x /\ e[2] # 0}
<1>1. S \in SUBSET Pids /\ root \in S
  OBVIOUS
<1>2. ASSUME NEW e \in pairs, e[2] \in S PROVE e[1] \in S
  <2>1. e[1] \in Pids /\ e[2] \in Pids
    BY <1>1, <1>2
  <2> QED BY <2>1, PidsAssumption
<1>3. p \in S
  <2> HIDE DEF S
  <2> QED BY <1>1, <1>2 DEF Descendants
<1> QED BY <1>3

\* A command's own process is nobody else's.
LEMMA OwnIsExcused ==
  ASSUME ProcInv, NEW p \in Pids, proc[p].of \in Commands
  PROVE  Excused(p)
BY CommandsAssumption DEF Excused, Foreign

\* Only the lists of a lookup change, and perhaps an error is seen.
OnlyLists(c, r) ==
    /\ r.root = cmd[c].root /\ r.live = cmd[c].live /\ r.target = cmd[c].target /\ r.round = cmd[c].round
    /\ r.stages = cmd[c].stages /\ r.visible = cmd[c].visible /\ r.captured = cmd[c].captured
    /\ r.fresh = cmd[c].fresh /\ r.begun = cmd[c].begun

LEMMA ListsChange ==
  ASSUME ProcInv, NEW c \in Commands, NEW r \in CmdRecords, Scanning(c), OnlyLists(c, r),
         cmd' = [cmd EXCEPT ![c] = r], UNCHANGED <<proc, gens, reused, held>>,
         threads' \subseteq threads \cup {c}, c \in threads' => r.errors, cmd[c].errors => r.errors,
         r.at \in {"look", "capture"}, r.at = "capture" => r.found = {},
         \A e \in r.found : Excused(e[1]) \/ (Head(r.stages) = "tree" /\ e[2] = 0),
         \A p \in r.cand : Excused(p),
         ~r.errors /\ Nothing(c) =>
            \A p \in Older(c) :
               (proc[p].env /\ Head(r.stages) = "env") \/ (proc[p].fd /\ Head(r.stages) = "fd") =>
                  IF r.at = "look" THEN p \in r.todo \cup PidsOf(r.found) ELSE p \in r.cand
  PROVE  ProcInv'
<1>1. ProcessInv' /\ ProcessStep /\ \A d \in Commands : ChildStays(d)
  BY StillStep
<1>2. cmd'[c] = r /\ cmd[c] \in CmdRecords /\ CmdInv(c) /\ c \in held /\ held' \subseteq Commands /\ threads' \subseteq held'
  BY DEF ProcInv, CmdInv, CmdPlaceInv, Scanning
<1>3. /\ (\A p \in Pids : Alive(p)' = Alive(p) /\ Excused(p)' = Excused(p) /\ Identity(p)' = Identity(p))
      /\ Scanning(c)'
  BY <1>2 DEF Alive, Excused, Foreign, Identity, Scanning
<1>4. CmdPlaceInv(c)'
  BY <1>2, <1>3 DEF CmdPlaceInv, CmdInv, OnlyLists, Scanning, Early
<1>5. ChildInv(c)'
  BY <1>1, <1>2 DEF ChildInv, CmdInv, OnlyLists, Root, Targets, Scanning
<1>6. ListInv(c)'
  <2>1. r.found \subseteq Pids \X (Pids \cup {0}) /\ r.cand \subseteq Pids
    BY DEF CmdRecords
  <2>2. \A e \in r.found : e[1] \in Pids
    BY <2>1
  <2> QED BY <1>2, <1>3, <2>1, <2>2 DEF ListInv
<1>7. CaptureInv(c)'
  <2>1. /\ Hit(cmd[c].captured)' = {p \in Pids : Alive(p) /\ Identity(p) \in r.captured}
        /\ Hit(cmd[c].fresh)' = {p \in Pids : Alive(p) /\ Identity(p) \in r.fresh}
    BY <1>2, <1>3 DEF Hit
  <2>2. Hit(cmd[c].captured)' = Hit(cmd[c].captured) /\ Hit(cmd[c].fresh)' = Hit(cmd[c].fresh)
    BY <2>1 DEF Hit, OnlyLists
  <2>3. \A i \in r.captured : i.gen <= gens' /\ (i.gen = proc'[i.pid].gen => Excused(i.pid)')
    BY <1>1, IdentityKeeps DEF OnlyLists
  <2> QED BY <1>2, <2>2, <2>3 DEF CaptureInv, CmdInv, OnlyLists, Scanning
<1>8. CoverInv(c)'
  <2>1. SUFFICES ASSUME Nothing(c)', NEW p \in Pids, p \in Older(c)'
                 PROVE  /\ proc[p].env => r.stages \in EnvLists /\ (Head(r.stages) = "env" => Ahead(c, p)')
                        /\ proc[p].fd => r.stages \in FdLists /\ (Head(r.stages) = "fd" => Ahead(c, p)')
    BY <1>2, <1>3 DEF CoverInv, Scanning, Older
  <2>2. Nothing(c) /\ ~r.errors
    BY <1>2, <2>1 DEF Nothing, OnlyLists
  <2>3. p \in Older(c)
    BY <1>2, <1>3, <2>1 DEF Older, OnlyLists
  <2>4. Ahead(c, p)' <=> (IF r.at = "look" THEN p \in r.todo \cup PidsOf(r.found) ELSE p \in r.cand)
    BY <1>2 DEF Ahead
  <2> QED BY <1>2, <2>2, <2>3, <2>4 DEF CmdInv, CoverInv, OnlyLists
<1> QED BY <1>1, <1>2, <1>4, <1>5, <1>6, <1>7, <1>8, OneMoves DEF CmdInv

LEMMA LookFailsStep ==
  ASSUME ProcInv, NEW c \in Commands, LookFails(c)
  PROVE  ProcInv'
<1> DEFINE r == [cmd[c] EXCEPT !.at = "capture", !.todo = {}, !.found = {}, !.cand = {}, !.errors = TRUE]
<1>a. "capture" \in Places /\ cmd[c] \in CmdRecords
  BY DEF ProcInv, Places
<1>1. /\ r \in CmdRecords /\ OnlyLists(c, r) /\ r.at = "capture" /\ r.errors /\ r.found = {} /\ r.cand = {}
  BY <1>a DEF CmdRecords, OnlyLists
<1>2. cmd' = [cmd EXCEPT ![c] = r] /\ UNCHANGED <<proc, gens, reused, held>> /\ threads' \subseteq threads \cup {c}
  BY DEF LookFails, Update, LeftScan
<1>3. Scanning(c)
  BY DEF LookFails, Scanning
<1> HIDE DEF r
<1> QED BY <1>1, <1>2, <1>3, ListsChange

\* What is noted of a PID, and that nobody with the mark that is looked for is passed over.
LEMMA NotedIsGood ==
  ASSUME ProcInv, NEW c \in Commands, Scanning(c), NEW p \in Pids
  PROVE  /\ Noted(c, p) \subseteq Pids \X (Pids \cup {0})
         /\ \A e \in Noted(c, p) : Excused(e[1]) \/ (Head(cmd[c].stages) = "tree" /\ e[2] = 0)
         /\ p \in Older(c) =>
               ((proc[p].env /\ Head(cmd[c].stages) = "env") \/ (proc[p].fd /\ Head(cmd[c].stages) = "fd") =>
                   p \in PidsOf(Noted(c, p)))
<1>1. Head(cmd[c].stages) \in {"fd", "env", "tree"}
  BY StageFacts DEF ProcInv, CmdInv, CmdPlaceInv, CmdRecords
<1>2. proc[p].parent \in Pids \cup {0}
  BY DEF ProcInv, ProcessInv, ProcRecords
<1>3. Noted(c, p) \subseteq {<<p, proc[p].parent>>}
  BY DEF Noted
<1>4. ASSUME Noted(c, p) # {} PROVE Excused(p) \/ (Head(cmd[c].stages) = "tree" /\ proc[p].parent = 0)
  <2>1. Alive(p) /\ Seen(c, p)
    BY <1>4 DEF Noted
  <2>2. CASE Head(cmd[c].stages) = "fd" BY <2>1, <2>2, OwnIsExcused DEF Seen
  <2>3. CASE Head(cmd[c].stages) = "env" BY <2>1, <2>3, OwnIsExcused DEF Seen
  <2>4. CASE Head(cmd[c].stages) = "tree" BY <2>1, <2>4 DEF Excused, ProcInv, ProcessInv
  <2> QED BY <1>1, <2>2, <2>3, <2>4
<1>5. ASSUME p \in Older(c), (proc[p].env /\ Head(cmd[c].stages) = "env") \/ (proc[p].fd /\ Head(cmd[c].stages) = "fd")
      PROVE  p \in PidsOf(Noted(c, p))
  <2>1. Alive(p) /\ Seen(c, p)
    BY <1>5 DEF Older, Seen
  <2>2. Noted(c, p) = {<<p, proc[p].parent>>}
    BY <2>1 DEF Noted
  <2> QED BY <2>2 DEF PidsOf
<1> QED BY <1>2, <1>3, <1>4, <1>5

LEMMA CandidatesAreGood ==
  ASSUME ProcInv, NEW c \in Commands, Scanning(c), NEW found \in SUBSET (Pids \X (Pids \cup {0})),
         \A e \in found : Excused(e[1]) \/ (Head(cmd[c].stages) = "tree" /\ e[2] = 0)
  PROVE  /\ Candidates(c, found) \subseteq Pids
         /\ \A p \in Candidates(c, found) : Excused(p)
         /\ Nothing(c) /\ Head(cmd[c].stages) # "tree" => PidsOf(found) \subseteq Candidates(c, found)
<1>1. PidsOf(found) \subseteq Pids /\ \A e \in found : e[1] \in Pids
  BY DEF PidsOf
<1>2. CASE Head(cmd[c].stages) = "tree"
  <2>1. cmd[c].stages \in TreeLists
    BY <1>2, StageFacts DEF ProcInv, CmdInv, CmdPlaceInv, CmdRecords
  <2>2. cmd[c].target \in Pids
    BY <2>1 DEF ProcInv, CmdInv, CmdPlaceInv, CmdRecords
  <2>3. \A p \in Candidates(c, found) : p \in Descendants(found, cmd[c].target) /\ p # cmd[c].target
    BY <1>2 DEF Candidates
  <2>4. ASSUME NEW p \in Candidates(c, found) PROVE p \in Pids /\ Excused(p)
    <3>1. PICK e \in found : e[1] = p /\ e[2] # 0
      BY <2>2, <2>3, DescendantsAreListed
    <3> QED BY <1>1, <3>1
  <2> QED BY <1>2, <2>4
<1>3. CASE Head(cmd[c].stages) # "tree"
  <2>1. Candidates(c, found) = PidsOf(found) \ ({cmd[c].target} \cup cmd[c].visible)
    BY <1>3 DEF Candidates
  <2>2. \A p \in PidsOf(found) : Excused(p)
    BY <1>3 DEF PidsOf
  <2>3. Nothing(c) => Candidates(c, found) = PidsOf(found)
    BY <1>1, <2>1, PidsAssumption DEF Nothing
  <2> QED BY <1>1, <1>3, <2>1, <2>2, <2>3
<1> QED BY <1>2, <1>3

LEMMA LookStep ==
  ASSUME ProcInv, NEW c \in Commands, Look(c)
  PROVE  ProcInv'
<1> DEFINE p == Min(cmd[c].todo)
           found == cmd[c].found \cup Noted(c, p)
           last == [cmd[c] EXCEPT !.at = "capture", !.todo = {}, !.found = {}, !.cand = Candidates(c, found)]
           more == [cmd[c] EXCEPT !.todo = cmd[c].todo \ {p}, !.found = found]
<1>1. cmd[c] \in CmdRecords /\ CmdInv(c) /\ cmd[c].at = "look" /\ Scanning(c) /\ p \in cmd[c].todo /\ p \in Pids
  BY MinIn DEF ProcInv, Look, Scanning, CmdRecords
<1>2. UNCHANGED <<proc, gens, reused, held, threads>> /\ (c \in threads' => cmd[c].errors) /\ threads' \subseteq threads \cup {c}
  BY <1>1 DEF Look, CmdInv, CmdPlaceInv
<1>3. cmd' = IF cmd[c].todo = {p} THEN [cmd EXCEPT ![c] = last] ELSE [cmd EXCEPT ![c] = more]
  BY DEF Look, Update
<1>4. cmd[c].found \in SUBSET (Pids \X (Pids \cup {0})) /\ cmd[c].todo \subseteq Pids
  BY <1>1 DEF CmdRecords
<1>5. /\ found \in SUBSET (Pids \X (Pids \cup {0}))
      /\ \A e \in found : Excused(e[1]) \/ (Head(cmd[c].stages) = "tree" /\ e[2] = 0)
  BY <1>1, <1>4, NotedIsGood DEF CmdInv, ListInv
<1>6. ASSUME Nothing(c), NEW q \in Older(c),
             (proc[q].env /\ Head(cmd[c].stages) = "env") \/ (proc[q].fd /\ Head(cmd[c].stages) = "fd")
      PROVE  q \in (cmd[c].todo \ {p}) \cup PidsOf(found) /\ Head(cmd[c].stages) # "tree"
  <2>1. q \in cmd[c].todo \cup PidsOf(cmd[c].found)
    BY <1>1, <1>6 DEF CmdInv, CoverInv, Ahead
  <2>2. q = p => q \in PidsOf(Noted(c, p))
    BY <1>1, <1>6, NotedIsGood
  <2> QED BY <1>6, <2>1, <2>2 DEF PidsOf
<1>7. /\ Candidates(c, found) \subseteq Pids /\ \A q \in Candidates(c, found) : Excused(q)
      /\ Nothing(c) /\ Head(cmd[c].stages) # "tree" => PidsOf(found) \subseteq Candidates(c, found)
  BY <1>1, <1>5, CandidatesAreGood
<1> DEFINE cand == Candidates(c, found)
<1>8. last = [cmd[c] EXCEPT !.at = "capture", !.todo = {}, !.found = {}, !.cand = cand]
  OBVIOUS
<1> HIDE DEF cand, found, last, p
<1>9. CASE cmd[c].todo = {p}
  <2>1. /\ last \in CmdRecords /\ OnlyLists(c, last) /\ last.at = "capture" /\ last.found = {}
        /\ last.cand = cand /\ last.errors = cmd[c].errors
    <3>1. cand \subseteq Pids
      BY <1>7 DEF cand
    <3> QED BY <1>1, <1>8, <3>1 DEF CmdRecords, OnlyLists, Places
  <2>2. last.stages = cmd[c].stages
    BY <2>1 DEF OnlyLists
  <2>3. ASSUME Nothing(c), NEW q \in Older(c),
               (proc[q].env /\ Head(cmd[c].stages) = "env") \/ (proc[q].fd /\ Head(cmd[c].stages) = "fd")
        PROVE  q \in cand
    BY <1>6, <1>7, <1>9, <2>3 DEF cand
  <2>4. \A q \in cand : Excused(q)
    BY <1>7 DEF cand
  <2> QED BY <1>1, <1>2, <1>3, <1>9, <2>1, <2>2, <2>3, <2>4, ListsChange
<1>10. CASE cmd[c].todo # {p}
  <2>1. /\ more \in CmdRecords /\ OnlyLists(c, more) /\ more.at = "look" /\ more.found = found
        /\ more.cand = cmd[c].cand /\ more.errors = cmd[c].errors /\ more.todo = cmd[c].todo \ {p}
    BY <1>1, <1>4, <1>5 DEF CmdRecords, OnlyLists
  <2>2. more.stages = cmd[c].stages
    BY <2>1 DEF OnlyLists
  <2>3. \A q \in cmd[c].cand : Excused(q)
    BY <1>1 DEF CmdInv, ListInv
  <2> HIDE DEF more
  <2> QED BY <1>1, <1>2, <1>3, <1>5, <1>6, <1>10, <2>1, <2>2, <2>3, ListsChange
<1> QED BY <1>9, <1>10

\* A PID that was found is captured, or is gone.
LEMMA CaptureStep ==
  ASSUME ProcInv, NEW c \in Commands, Capture(c)
  PROVE  ProcInv'
<1> DEFINE p == Min(cmd[c].cand)
           i == Identity(p)
           gone == [cmd[c] EXCEPT !.cand = cmd[c].cand \ {p}, !.visible = cmd[c].visible \cup {p}]
           counted == [gone EXCEPT !.errors = TRUE]
           caught == [gone EXCEPT !.captured = cmd[c].captured \cup {i}, !.fresh = cmd[c].fresh \cup {i}]
<1>1. cmd[c] \in CmdRecords /\ CmdInv(c) /\ cmd[c].at = "capture" /\ Scanning(c) /\ p \in cmd[c].cand /\ p \in Pids
  BY MinIn DEF ProcInv, Capture, Scanning, CmdRecords
<1>2. UNCHANGED <<gens, reused, held, threads>> /\ held' \subseteq Commands /\ threads' \subseteq held' /\ c \in held
  BY <1>1 DEF Capture, ProcInv, CmdInv, CmdPlaceInv
<1>3. i \in Identities /\ i.pid = p /\ i.gen = proc[p].gen /\ i.gen <= gens /\ Excused(p)
  BY <1>1 DEF ProcInv, ProcessInv, ProcRecords, Identity, Identities, CmdInv, ListInv
<1>4. \/ cmd[c].round = "verdict" /\ cmd' = [cmd EXCEPT ![c] = counted] /\ UNCHANGED proc
      \/ cmd[c].round # "verdict" /\ ~Alive(p) /\ cmd' = [cmd EXCEPT ![c] = gone] /\ UNCHANGED proc
      \/ cmd[c].round # "verdict" /\ Alive(p) /\ cmd' = [cmd EXCEPT ![c] = caught] /\ proc' = Stopped({p})
  BY <1>1 DEF Capture, Update
<1> HIDE DEF p, i
<1>5. PICK r \in CmdRecords :
         /\ cmd' = [cmd EXCEPT ![c] = r]
         /\ r.at = "capture" /\ r.root = cmd[c].root /\ r.live = cmd[c].live /\ r.target = cmd[c].target
         /\ r.round = cmd[c].round /\ r.stages = cmd[c].stages /\ r.found = cmd[c].found /\ r.cand = cmd[c].cand \ {p}
         /\ r.visible = cmd[c].visible \cup {p} /\ r.begun = cmd[c].begun
         /\ cmd[c].errors => r.errors
         /\ \/ cmd[c].round = "verdict" /\ r.errors /\ r.captured = cmd[c].captured /\ r.fresh = cmd[c].fresh /\ UNCHANGED proc
            \/ /\ cmd[c].round # "verdict" /\ r.captured = cmd[c].captured /\ r.fresh = cmd[c].fresh /\ UNCHANGED proc
               /\ r.errors = cmd[c].errors
            \/ /\ cmd[c].round # "verdict" /\ Alive(p) /\ proc' = Stopped({p}) /\ r.errors = cmd[c].errors
               /\ r.captured = cmd[c].captured \cup {i} /\ r.fresh = cmd[c].fresh \cup {i}
  <2>1. /\ gone \in CmdRecords /\ gone.at = "capture" /\ gone.root = cmd[c].root /\ gone.live = cmd[c].live
        /\ gone.target = cmd[c].target /\ gone.round = cmd[c].round /\ gone.stages = cmd[c].stages
        /\ gone.found = cmd[c].found /\ gone.cand = cmd[c].cand \ {p}
        /\ gone.visible = cmd[c].visible \cup {p} /\ gone.begun = cmd[c].begun /\ gone.errors = cmd[c].errors
        /\ gone.captured = cmd[c].captured /\ gone.fresh = cmd[c].fresh
    BY <1>1 DEF CmdRecords
  <2> HIDE DEF gone
  <2>2. /\ counted \in CmdRecords /\ counted.at = "capture" /\ counted.root = cmd[c].root /\ counted.live = cmd[c].live
        /\ counted.target = cmd[c].target /\ counted.round = cmd[c].round /\ counted.stages = cmd[c].stages
        /\ counted.found = cmd[c].found /\ counted.cand = cmd[c].cand \ {p}
        /\ counted.visible = cmd[c].visible \cup {p} /\ counted.begun = cmd[c].begun /\ counted.errors
        /\ counted.captured = cmd[c].captured /\ counted.fresh = cmd[c].fresh
    BY <2>1 DEF CmdRecords
  <2>3. /\ cmd[c].captured \cup {i} \in SUBSET Identities /\ cmd[c].fresh \cup {i} \in SUBSET Identities
    BY <1>1, <1>3 DEF CmdRecords
  <2>4. /\ caught \in CmdRecords /\ caught.at = "capture" /\ caught.root = cmd[c].root /\ caught.live = cmd[c].live
        /\ caught.target = cmd[c].target /\ caught.round = cmd[c].round /\ caught.stages = cmd[c].stages
        /\ caught.found = cmd[c].found /\ caught.cand = cmd[c].cand \ {p}
        /\ caught.visible = cmd[c].visible \cup {p} /\ caught.begun = cmd[c].begun /\ caught.errors = cmd[c].errors
        /\ caught.captured = cmd[c].captured \cup {i} /\ caught.fresh = cmd[c].fresh \cup {i}
    BY <2>1, <2>3 DEF CmdRecords
  <2> HIDE DEF counted, caught
  <2> QED BY <1>4, <2>1, <2>2, <2>4
<1> HIDE DEF gone, counted, caught
<1>6. /\ ProcessInv' /\ ProcessStep /\ \A d \in Commands : ChildStays(d)
      /\ \A q \in Pids : Alive(q)' = Alive(q) /\ proc'[q].gen = proc[q].gen /\ proc'[q].of = proc[q].of
  <2>1. CASE UNCHANGED proc BY <1>2, <2>1, StillStep DEF Alive
  <2>2. CASE Alive(p) /\ proc' = Stopped({p})
    <3>1. {p} \in SUBSET Pids /\ \A q \in {p} : Alive(q)
      BY <1>1, <2>2
    <3> QED BY <1>2, <2>2, <3>1, StopStep
  <2> QED BY <1>5, <2>1, <2>2
<1>7. cmd'[c] = r
  BY <1>5 DEF ProcInv
<1>8. \A q \in Pids : Excused(q) => Excused(q)'
  BY <1>2, <1>6 DEF Excused, Foreign
<1>9. CmdPlaceInv(c)'
  BY <1>1, <1>2, <1>5, <1>7 DEF CmdPlaceInv, CmdInv, Scanning, Early
<1>10. ChildInv(c)'
  BY <1>1, <1>5, <1>6, <1>7 DEF ChildInv, CmdInv, ChildStays, Root, Targets, Scanning
<1>11. ListInv(c)'
  <2>1. /\ \A e \in cmd[c].found : Excused(e[1])' \/ (Head(cmd[c].stages) = "tree" /\ e[2] = 0)
        /\ \A q \in cmd[c].cand : Excused(q)'
    BY <1>1, <1>6, ListKeeps
  <2>2. \A q \in r.cand : q \in cmd[c].cand
    BY <1>5
  <2> QED BY <1>5, <1>7, <2>1, <2>2 DEF ListInv
<1>12. CaptureInv(c)'
  <2>1. \A j \in cmd[c].captured : j.gen <= gens' /\ (j.gen = proc'[j.pid].gen => Excused(j.pid)')
    BY <1>6, IdentityKeeps
  <2>2. \A j \in r.captured : j.gen <= gens' /\ (j.gen = proc'[j.pid].gen => Excused(j.pid)')
    BY <1>1, <1>2, <1>3, <1>5, <1>8, <2>1
  <2>3. r.fresh \subseteq r.captured
    BY <1>1, <1>5 DEF CmdInv, CaptureInv
  <2>4. cmd[c].round = "first" => \A j \in r.captured : j.pid \in r.visible
    BY <1>1, <1>3, <1>5 DEF CmdInv, CaptureInv
  <2>5. \A q \in Pids : Identity(q)' = Identity(q)
    BY <1>6 DEF Identity
  <2>6. /\ Hit(cmd[c].captured)' = {q \in Pids : Alive(q) /\ Identity(q) \in r.captured}
        /\ Hit(cmd[c].fresh)' = {q \in Pids : Alive(q) /\ Identity(q) \in r.fresh}
    BY <1>6, <1>7, <2>5 DEF Hit
  <2>7. cmd[c].round = "second" => Hit(cmd[c].captured)' \subseteq Hit(cmd[c].fresh)'
    <3>1. SUFFICES ASSUME cmd[c].round = "second", NEW q \in Pids, Alive(q), Identity(q) \in r.captured
                   PROVE  Identity(q) \in r.fresh
      BY <2>6
    <3>2. Hit(cmd[c].captured) \subseteq Hit(cmd[c].fresh)
      BY <1>1, <3>1 DEF CmdInv, CaptureInv
    <3>3. Identity(q) \in cmd[c].captured => Identity(q) \in cmd[c].fresh
      BY <3>1, <3>2 DEF Hit
    <3> QED BY <1>5, <3>1, <3>3
  <2>8. cmd[c].round = "verdict" => Hit(cmd[c].captured)' = {}
    <3>1. SUFFICES ASSUME cmd[c].round = "verdict" PROVE Hit(cmd[c].captured)' = {}
      OBVIOUS
    <3>2. Hit(cmd[c].captured) = {} /\ r.captured = cmd[c].captured
      BY <1>1, <1>5, <3>1 DEF CmdInv, CaptureInv
    <3> QED BY <2>6, <3>2 DEF Hit
  <2> QED BY <1>5, <1>7, <2>2, <2>3, <2>4, <2>7, <2>8 DEF CaptureInv, Scanning
<1>13. CoverInv(c)'
  BY <1>5, <1>7 DEF CoverInv, Nothing
<1> QED BY <1>2, <1>5, <1>6, <1>9, <1>10, <1>11, <1>12, <1>13, OneMoves DEF CmdInv

LEMMA EndLookupStep ==
  ASSUME ProcInv, NEW c \in Commands, EndLookup(c)
  PROVE  ProcInv'
<1> DEFINE rest == Tail(cmd[c].stages)
           t == IF rest = <<>> THEN {} ELSE Pids
           a == IF rest = <<>> THEN After(cmd[c].round) ELSE "look"
           r == [cmd[c] EXCEPT !.stages = rest, !.todo = t, !.at = a]
<1>1. /\ cmd[c] \in CmdRecords /\ CmdInv(c) /\ cmd[c].at = "capture" /\ Scanning(c) /\ cmd[c].cand = {} /\ cmd[c].found = {}
      /\ cmd[c].round \in Rounds
  BY DEF ProcInv, EndLookup, Scanning, CmdInv, CmdPlaceInv
<1>2. ProcessInv' /\ ProcessStep /\ \A d \in Commands : ChildStays(d)
  BY StillStep DEF EndLookup
<1>3. /\ UNCHANGED <<proc, gens, reused, held, threads>> /\ held' \subseteq Commands /\ threads' \subseteq held' /\ c \in held
  BY <1>1 DEF EndLookup, ProcInv, CmdInv, CmdPlaceInv
<1>4. cmd' = [cmd EXCEPT ![c] = r]
  BY DEF EndLookup, Update
<1>5. /\ rest \in StageLists /\ Head(cmd[c].stages) \in {"fd", "env", "tree"}
      /\ cmd[c].stages \in EnvLists <=> Head(cmd[c].stages) = "env" \/ rest \in EnvLists
      /\ cmd[c].stages \in FdLists <=> Head(cmd[c].stages) = "fd" \/ rest \in FdLists
      /\ rest \in TreeLists => cmd[c].stages \in TreeLists
      /\ rest = <<>> => rest \notin EnvLists /\ rest \notin FdLists
  BY <1>1, StageFacts DEF CmdInv, CmdPlaceInv, CmdRecords
<1>6. /\ a \in Places /\ t \in SUBSET Pids
      /\ rest # <<>> => a = "look" /\ t = Pids
      /\ rest = <<>> => CASE cmd[c].round = "first" -> a = "judge" [] cmd[c].round = "second" -> a = "killfresh"
                          [] cmd[c].round = "verdict" -> a = "finish" [] cmd[c].round = "fallback" -> a = "killall"
  BY <1>1 DEF After, Places, Rounds
<1> HIDE DEF rest, a, t
<1>7. /\ r \in CmdRecords /\ r.at = a /\ r.root = cmd[c].root /\ r.live = cmd[c].live /\ r.target = cmd[c].target
      /\ r.round = cmd[c].round /\ r.stages = rest /\ r.todo = t /\ r.found = {} /\ r.cand = {}
      /\ r.visible = cmd[c].visible /\ r.captured = cmd[c].captured /\ r.fresh = cmd[c].fresh
      /\ r.errors = cmd[c].errors /\ r.begun = cmd[c].begun
  BY <1>1, <1>5, <1>6 DEF CmdRecords
<1>8. cmd'[c] = r
  BY <1>4 DEF ProcInv
<1> HIDE DEF r
<1>9. \/ rest # <<>> /\ a = "look"
      \/ rest = <<>> /\ cmd[c].round = "first" /\ a = "judge"
      \/ rest = <<>> /\ cmd[c].round = "second" /\ a = "killfresh"
      \/ rest = <<>> /\ cmd[c].round = "verdict" /\ a = "finish"
      \/ rest = <<>> /\ cmd[c].round = "fallback" /\ a = "killall"
  BY <1>1, <1>6 DEF Rounds
<1>10. CmdPlaceInv(c)'
  BY <1>1, <1>3, <1>5, <1>7, <1>8, <1>9 DEF CmdPlaceInv, CmdInv, Scanning, Early
<1>11. ChildInv(c)'
  <2>1. Targets(c)' => Targets(c)
    BY <1>1, <1>7, <1>8, <1>9 DEF Targets, Scanning
  <2> QED BY <1>1, <1>2, <1>7, <1>8, <2>1 DEF ChildInv, CmdInv, ChildStays, Root
<1>12. ListInv(c)'
  BY <1>7, <1>8 DEF ListInv
<1>13. CaptureInv(c)'
  <2>1. \A j \in cmd[c].captured : j.gen <= gens' /\ (j.gen = proc'[j.pid].gen => Excused(j.pid)')
    BY <1>2, IdentityKeeps
  <2>2. Hit(cmd[c].captured)' = Hit(cmd[c].captured) /\ Hit(cmd[c].fresh)' = Hit(cmd[c].fresh)
    BY <1>3, <1>7, <1>8 DEF Hit, Alive, Identity
  <2> QED BY <1>1, <1>7, <1>8, <1>9, <2>1, <2>2 DEF CaptureInv, CmdInv, Scanning
<1>14. CoverInv(c)'
  <2>1. Older(c)' = Older(c) /\ (Nothing(c)' <=> Nothing(c)) /\ \A p \in Pids : Marked(p)' = Marked(p)
    BY <1>3, <1>7, <1>8 DEF Older, Nothing, Alive, Marked
  <2>2. ASSUME Nothing(c), NEW p \in Older(c)
        PROVE  (proc[p].env => rest \in EnvLists) /\ (proc[p].fd => rest \in FdLists)
    <3>1. ~Ahead(c, p)
      BY <1>1 DEF Ahead
    <3> QED BY <1>1, <1>5, <2>2, <3>1 DEF CmdInv, CoverInv
  <2>3. rest # <<>> => \A p \in Pids : Ahead(c, p)'
    BY <1>6, <1>7, <1>8 DEF Ahead
  <2>4. ASSUME rest = <<>>, Nothing(c), NEW p \in Older(c) PROVE ~Marked(p)
    BY <1>5, <2>2, <2>4 DEF Marked
  <2>5. cmd[c].round = "verdict" /\ ~cmd[c].errors => Nothing(c)
    BY <1>1 DEF CmdInv, CmdPlaceInv, Nothing
  <2>6. Older(c) \subseteq Pids
    BY DEF Older
  <2> QED BY <1>3, <1>7, <1>8, <1>9, <2>1, <2>2, <2>3, <2>4, <2>5, <2>6 DEF CoverInv, Scanning
<1> QED BY <1>2, <1>3, <1>4, <1>7, <1>10, <1>11, <1>12, <1>13, <1>14, OneMoves DEF CmdInv

\* A scan that was given up ends.
LEMMA ScanEndsStep ==
  ASSUME ProcInv, NEW c \in Commands, ScanEnds(c)
  PROVE  ProcInv'
<1>1. ProcessInv' /\ ProcessStep /\ \A d \in Commands : ChildStays(d)
  BY StillStep DEF ScanEnds
<1>2. /\ cmd' = cmd /\ threads' = threads \ {c} /\ held' = IF cmd[c].at = "done" THEN held \ {c} ELSE held
  BY DEF ScanEnds
<1>3. ASSUME NEW d \in Commands PROVE CmdInv(d)'
  <2>1. d \in held /\ cmd[d].at \notin {"reserve", "done"} => d \in held'
    BY <1>2
  <2>2. d \in threads' => d \in threads /\ d \in held'
    BY <1>2 DEF ProcInv
  <2> QED BY <1>1, <1>2, <2>1, <2>2, OthersKeep
<1>4. held' \subseteq Commands /\ threads' \subseteq held'
  BY <1>2 DEF ProcInv
<1> QED BY <1>1, <1>2, <1>3, <1>4 DEF ProcInv

-----------------------------------------------------------------------------
(* Steps of processes *)

LEMMA ForkStep ==
  ASSUME ProcInv, NEW p \in Pids, NEW q \in Pids, Fork(p, q)
  PROVE  ProcInv'
<1> DEFINE process == [proc[p] EXCEPT !.parent = p]
<1>1. Born(q, process) /\ proc[p] \in ProcRecords /\ proc[p].state = "run" /\ proc[p].of # NoCommand
  BY DEF Fork, ProcInv, ProcessInv
<1>2. process \in ProcRecords /\ process.state = "run" /\ process.of # NoCommand
  BY <1>1 DEF ProcRecords
<1> HIDE DEF process
<1>3. ProcessInv' /\ ProcessStep /\ \A c \in Commands : ChildStays(c)
  BY <1>1, <1>2, BirthStep
<1> QED BY <1>3, NoneMoves DEF Fork

LEMMA StrangerStep ==
  ASSUME ProcInv, NEW q \in Pids, Stranger(q)
  PROVE  ProcInv'
<1> DEFINE process == [Free EXCEPT !.state = "run", !.group = q]
<1>1. Born(q, process)
  BY DEF Stranger
<1>2. process \in ProcRecords /\ process.state = "run" /\ process.parent = 0 /\ process.group = q
  BY DEF ProcRecords, Free
<1> HIDE DEF process
<1>3. ProcessInv' /\ ProcessStep /\ \A c \in Commands : ChildStays(c)
  BY <1>1, <1>2, BirthStep
<1> QED BY <1>3, NoneMoves DEF Stranger

LEMMA ExitStep ==
  ASSUME ProcInv, NEW p \in Pids, Exit(p)
  PROVE  ProcInv'
<1>1. {p} \in SUBSET Pids
  OBVIOUS
<1>2. ProcessInv' /\ ProcessStep /\ \A c \in Commands : ChildStays(c)
  BY <1>1, KillStep DEF Exit
<1> QED BY <1>2, NoneMoves DEF Exit

LEMMA ShedStep ==
  ASSUME ProcInv, NEW p \in Pids, Shed(p)
  PROVE  ProcInv'
<1>1. proc[p] \in ProcRecords /\ proc[p].of # NoCommand /\ UNCHANGED <<gens, reused, cmd, held, threads>>
  BY DEF Shed, ProcInv, ProcessInv
<1>2. PICK process \in Sheds(p) : proc' = [proc EXCEPT ![p] = process]
  BY DEF Shed
<1>3. /\ process \in ProcRecords /\ process.state = proc[p].state /\ process.gen = proc[p].gen
      /\ process.of = proc[p].of /\ (process.env => proc[p].env) /\ (process.fd => proc[p].fd)
  BY <1>1 DEF Sheds, ProcRecords
<1>4. /\ proc' \in [Pids -> ProcRecords] /\ proc'[p] = process /\ \A q \in Pids \ {p} : proc'[q] = proc[q]
  BY <1>2, <1>3 DEF ProcInv, ProcessInv
<1>5. ASSUME NEW q \in Pids
      PROVE  /\ Alive(q)' = Alive(q) /\ proc'[q].gen = proc[q].gen /\ proc'[q].of = proc[q].of
             /\ proc'[q].state = proc[q].state
             /\ (proc'[q].env => proc[q].env) /\ (proc'[q].fd => proc[q].fd)
             /\ (Foreign(q)' => proc'[q] = proc[q] /\ Foreign(q))
  BY <1>1, <1>3, <1>4 DEF Alive, Foreign
<1>6. ProcessInv'
  BY <1>1, <1>4, <1>5 DEF ProcInv, ProcessInv
<1>7. ProcessStep
  BY <1>1, <1>5 DEF ProcInv, ProcessInv, ProcessStep
<1>8. \A c \in Commands : ChildStays(c)
  BY <1>5 DEF ProcInv, CmdInv, ChildInv, ChildStays
<1> QED BY <1>1, <1>6, <1>7, <1>8, NoneMoves

-----------------------------------------------------------------------------
(* The invariant *)

LEMMA ProcInitInv ==
  ASSUME ProcInit
  PROVE  ProcInv
<1>1. proc \in [Pids -> ProcRecords] /\ (\A p \in Pids : proc[p] = Free) /\ gens = 0
  BY DEF ProcInit, Free, ProcRecords
<1>2. ProcessInv
  BY <1>1 DEF ProcessInv, Free, Foreign, Alive
<1>3. "reserve" \in Places /\ "done" \in Places /\ <<>> \in StageLists
  BY DEF Places, Early, StageLists
<1>4. Idle \in CmdRecords /\ [Idle EXCEPT !.at = "done"] \in CmdRecords
  BY <1>3 DEF Idle, CmdRecords
<1>5. cmd \in [Commands -> CmdRecords] /\ held = {} /\ threads = {}
  BY <1>4 DEF ProcInit
<1>6. ASSUME NEW c \in Commands
      PROVE  /\ cmd[c].at \in {"reserve", "done"} /\ ~cmd[c].live /\ cmd[c].captured = {} /\ cmd[c].fresh = {}
             /\ cmd[c].visible = {} /\ ~cmd[c].errors /\ cmd[c].begun = 0
  BY DEF ProcInit, Idle
<1>7. ASSUME NEW c \in Commands PROVE CmdInv(c)
  <2>1. ~Scanning(c) /\ ~Targets(c)
    BY <1>6 DEF Scanning, Targets
  <2>2. Older(c) = {}
    BY <1>1 DEF Older, Alive, Free
  <2>3. CmdPlaceInv(c)
    BY <1>1, <1>5, <1>6, <2>1 DEF CmdPlaceInv
  <2>4. ChildInv(c) /\ ListInv(c) /\ CoverInv(c)
    BY <1>6, <2>1, <2>2 DEF ChildInv, ListInv, CoverInv
  <2>5. CaptureInv(c)
    BY <1>6, <2>1 DEF CaptureInv, Hit
  <2> QED BY <2>3, <2>4, <2>5 DEF CmdInv
<1> QED BY <1>2, <1>5, <1>7 DEF ProcInv

LEMMA ProcStutter ==
  ASSUME ProcInv, UNCHANGED procVars
  PROVE  ProcInv'
<1>1. UNCHANGED <<proc, gens, reused, cmd, held, threads>>
  BY DEF procVars
<1>2. ProcessInv' /\ ProcessStep /\ \A c \in Commands : ChildStays(c)
  BY <1>1, StillStep
<1> QED BY <1>1, <1>2, NoneMoves

LEMMA ProcNextInv ==
  ASSUME ProcInv, ProcNext
  PROVE  ProcInv'
<1>1. CASE Processes
  BY <1>1, ShedStep, ExitStep, StrangerStep, ForkStep DEF Processes
<1>2. ASSUME NEW c \in Commands, Starting(c) PROVE ProcInv'
  BY <1>2, ReserveStep, StopWaitingStep, SpawnStep, WaitedStep, GiveUpStep DEF Starting
<1>3. ASSUME NEW c \in Commands, CleaningUp(c) PROVE ProcInv'
  <2>1. CASE Looking(c)
    BY <2>1, BeginFirstStep, LookStep, CaptureStep, EndLookupStep DEF Looking
  <2>2. CASE Ending(c)
    BY <2>2, LookAtRootStep, StopGroupStep, JudgeStep, KillsStep, KillGroupStep, ReapsStep, KillFreshStep, EndCleanupStep
       DEF Ending
  <2> QED BY <1>3, <2>1, <2>2 DEF CleaningUp
<1>4. ASSUME NEW c \in Commands, Late(c) PROVE ProcInv'
  BY <1>4, LookFailsStep, TimesOutStep, FallbackTimesOutStep DEF Late
<1> QED BY <1>1, <1>2, <1>3, <1>4, ScanEndsStep DEF ProcNext

\* The invariant of commands and their processes holds in every state: what each command knows of its
\* child, its lists and its captures is true of the processes, which go on by themselves.
THEOREM ProcInvCorrect == ProcSpec => []ProcInv
<1>1. ProcInv /\ [ProcNext]_procVars => ProcInv'
  BY ProcNextInv, ProcStutter
<1> QED BY ProcInitInv, <1>1, PTL DEF ProcSpec

\* Processes and commands have the states that the types of process_tree.rs give them, a child that was
\* not reaped is there, and a scan that was given up keeps its share of the reservation.
THEOREM ProcTypeCorrect == ProcSpec => []ProcTypeOK
<1>1. ASSUME ProcInv PROVE ProcTypeOK
  <2>1. ASSUME NEW p \in Pids
        PROVE  /\ proc[p].state \in {"free", "run", "stop", "zombie"} /\ proc[p].of \in Commands \cup {NoCommand}
               /\ proc[p].parent \in Pids \cup {0}
    BY <1>1 DEF ProcInv, ProcessInv, ProcRecords
  <2>2. ASSUME NEW c \in Commands
        PROVE  /\ cmd[c].live => proc[Root(c)].state # "free" /\ proc[Root(c)].of = c
               /\ {i.pid : i \in cmd[c].captured} \cup cmd[c].cand \cup cmd[c].visible \subseteq Pids
    BY <1>1 DEF ProcInv, CmdRecords, Identities, CmdInv, ChildInv
  <2> QED BY <1>1, <2>1, <2>2 DEF ProcTypeOK, ProcInv
<1> QED BY <1>1, ProcInvCorrect, PTL

\* A cleanup that reports no error has missed no process that was there when it last began to look and
\* still has a mark; and in whatever way a cleanup ended, what it captured, and so stopped, is dead.
THEOREM CleanupCorrect == ProcSpec => []CleanupDone
<1>1. ASSUME ProcInv PROVE CleanupDone
  <2>1. ASSUME NEW c \in Commands, cmd[c].at = "done" PROVE Hit(cmd[c].captured) = {}
    BY <1>1, <2>1 DEF ProcInv, CmdInv, CaptureInv
  <2>2. ASSUME NEW c \in Commands, cmd[c].at = "done", ~cmd[c].errors, NEW p \in Older(c) PROVE ~Marked(p)
    BY <1>1, <2>2 DEF ProcInv, CmdInv, CoverInv
  <2> QED BY <2>1, <2>2 DEF CleanupDone, CleanMeansGone, CapturedAreKilled, Older
<1> QED BY <1>1, ProcInvCorrect, PTL

-----------------------------------------------------------------------------
(* Processes of others *)

\* A process of others that is not excused.
Spared(p) == p \in Pids /\ proc[p].of = NoCommand /\ Alive(p) /\ proc[p].gen \notin reused

LEMMA SparedFacts ==
  ASSUME ProcInv, NEW p, Spared(p)
  PROVE  p \in Pids /\ proc[p].parent = 0 /\ proc[p].group = p /\ ~Excused(p) /\ proc[p].state # "free" /\ proc[p].of \notin Commands
BY CommandsAssumption DEF Spared, ProcInv, ProcessInv, Foreign, Excused, Alive

\* No signal to what was captured hits it.
LEMMA NotHit ==
  ASSUME ProcInv, NEW p, Spared(p), NEW c \in Commands, NEW identities, identities \subseteq cmd[c].captured
  PROVE  p \notin Hit(identities)
<1>1. SUFFICES ASSUME Identity(p) \in cmd[c].captured PROVE FALSE
  BY DEF Hit
<1>2. Excused(p)
  BY <1>1 DEF ProcInv, CmdInv, CaptureInv, Identity
<1> QED BY <1>2, SparedFacts

\* No signal to the group of a child hits it.
LEMMA NotMember ==
  ASSUME ProcInv, NEW p, Spared(p), NEW c \in Commands, Targets(c)
  PROVE  p \notin Members(cmd[c].target)
<1>1. SUFFICES ASSUME proc[p].group = cmd[c].target PROVE FALSE
  BY DEF Members
<1>2. p \in Pids /\ p = cmd[c].target /\ proc[p].of \notin Commands
  BY <1>1, SparedFacts
<1>3. p # 0
  BY <1>2, PidsAssumption
<1> QED BY <1>2, <1>3 DEF ProcInv, CmdInv, ChildInv

\* It has no parent that could die.
LEMMA NotOrphaned ==
  ASSUME ProcInv, NEW p, Spared(p), NEW ps \in SUBSET Pids, p \notin ps
  PROVE  Dead(ps)[p] = proc[p] /\ Stopped(ps)[p] = proc[p]
<1>1. proc[p].parent \notin ps /\ p \in Pids
  BY SparedFacts, PidsAssumption
<1> QED BY <1>1 DEF Dead, Stopped

LEMMA SparedByProcesses ==
  ASSUME ProcInv, NEW p, Spared(p), Processes
  PROVE  proc'[p] = proc[p]
<1>1. PICK q \in Pids : Shed(q) \/ Exit(q) \/ Stranger(q) \/ \E r \in Pids : Fork(q, r)
  BY DEF Processes
<1>2. p \in Pids /\ proc[p].of = NoCommand /\ proc[p].state # "free" /\ proc \in [Pids -> ProcRecords]
  BY SparedFacts DEF Spared, ProcInv, ProcessInv
<1>3. CASE Shed(q) BY <1>2, <1>3 DEF Shed
<1>4. CASE Exit(q)
  <2>1. p \notin {q} /\ {q} \in SUBSET Pids
    BY <1>2, <1>4 DEF Exit
  <2> QED BY <1>4, <2>1, NotOrphaned DEF Exit
<1>5. CASE Stranger(q) BY <1>2, <1>5 DEF Stranger, Born, Unused
<1>6. CASE \E r \in Pids : Fork(q, r) BY <1>2, <1>6 DEF Fork, Born, Unused
<1> QED BY <1>1, <1>3, <1>4, <1>5, <1>6

LEMMA SparedByReaping ==
  ASSUME ProcInv, NEW p, Spared(p), NEW c \in Commands, cmd[c].live, Reaped(c)
  PROVE  proc'[p] = proc[p]
<1>1. proc[Root(c)].of \in Commands /\ p \in Pids /\ proc[p].of \notin Commands
  BY SparedFacts DEF ProcInv, CmdInv, ChildInv
<1> QED BY <1>1 DEF Reaped, ProcInv, ProcessInv

LEMMA SparedByCommands ==
  ASSUME ProcInv, NEW p, Spared(p), NEW c \in Commands, Starting(c) \/ CleaningUp(c) \/ Late(c) \/ ScanEnds(c)
  PROVE  proc'[p] = proc[p]
<1>1. /\ p \in Pids /\ proc[p].of = NoCommand /\ proc[p].state # "free" /\ proc \in [Pids -> ProcRecords] /\ ~Excused(p)
      /\ cmd[c] \in CmdRecords /\ CmdInv(c)
  BY SparedFacts DEF Spared, ProcInv, ProcessInv
<1>2. CASE Starting(c)
  <2>1. CASE Spawn(c) BY <1>1, <2>1 DEF Spawn, Born, Unused
  <2>2. CASE Waited(c) BY <2>2, SparedByReaping DEF Waited, RootIs
  <2> QED BY <1>2, <2>1, <2>2 DEF Starting, Reserve, GiveUpWaiting, SpawnFails, GiveUp
<1>3. CASE Looking(c)
  <2>1. CASE Capture(c)
    <3>1. Min(cmd[c].cand) \in cmd[c].cand
      BY <1>1, <2>1, MinIn DEF Capture, CmdRecords
    <3>2. Excused(Min(cmd[c].cand)) /\ {Min(cmd[c].cand)} \in SUBSET Pids
      BY <1>1, <2>1, <3>1 DEF Capture, CmdInv, ListInv, Scanning, CmdRecords
    <3>3. p # Min(cmd[c].cand)
      BY <1>1, <3>2
    <3>4. proc' = proc \/ proc' = Stopped({Min(cmd[c].cand)})
      BY <2>1 DEF Capture
    <3> QED BY <3>2, <3>3, <3>4, NotOrphaned
  <2> QED BY <1>3, <2>1 DEF Looking, BeginFirst, Look, EndLookup
<1>4. CASE Ending(c) \/ Late(c)
  <2>1. cmd[c].fresh \subseteq cmd[c].captured
    BY <1>1 DEF CmdInv, CaptureInv
  <2>2. p \notin Hit(cmd[c].captured) /\ p \notin Hit(cmd[c].fresh)
    BY <2>1, NotHit
  <2>3. Hit(cmd[c].captured) \in SUBSET Pids /\ Hit(cmd[c].fresh) \in SUBSET Pids /\ Members(cmd[c].target) \in SUBSET Pids
    BY DEF Hit, Members
  <2>4. Dead(Hit(cmd[c].captured))[p] = proc[p] /\ Dead(Hit(cmd[c].fresh))[p] = proc[p]
    BY <2>2, <2>3, NotOrphaned
  <2>5. CASE Quiesce(c) \/ FindRoot(c)
    BY <2>5, SparedByReaping DEF Quiesce, FindRoot, LookAtRoot, RootIs
  <2>6. CASE StopGroup(c) \/ KillGroup(c)
    <3>1. Targets(c)
      BY <2>6 DEF StopGroup, KillGroup, Targets
    <3>2. Dead(Members(cmd[c].target))[p] = proc[p] /\ Stopped(Members(cmd[c].target))[p] = proc[p]
      BY <2>3, <3>1, NotMember, NotOrphaned
    <3> QED BY <2>6, <3>2 DEF StopGroup, KillGroup
  <2>7. CASE Kill(c) \/ KillFresh(c) \/ KillAll(c) \/ TimesOut(c)
    BY <2>4, <2>7 DEF Kill, KillFresh, KillAll, TimesOut
  <2>8. CASE Reap(c) \/ Fallback(c)
    BY <2>8, SparedByReaping DEF Reap, Fallback
  <2>9. CASE Judge(c) \/ EndCleanup(c) \/ LookFails(c) \/ FallbackTimesOut(c)
    BY <2>9 DEF Judge, EndCleanup, LookFails, FallbackTimesOut
  <2> QED BY <1>4, <2>5, <2>6, <2>7, <2>8, <2>9 DEF Ending, Late
<1> QED BY <1>2, <1>3, <1>4 DEF CleaningUp, ScanEnds

\* A process of others is not touched by any step of a command or of its processes, unless it took a PID
\* after a lookup had listed the PID.
THEOREM StrangersCorrect == ProcSpec => StrangersSpared
<1>1. ASSUME ProcInv, [ProcNext]_procVars
      PROVE  [\A p \in Pids : proc[p].of = NoCommand /\ Alive(p) /\ proc[p].gen \notin reused => proc'[p] = proc[p]]_procVars
  <2>1. ASSUME NEW p \in Pids, proc[p].of = NoCommand /\ Alive(p) /\ proc[p].gen \notin reused, ProcNext
        PROVE  proc'[p] = proc[p]
    <3>1. Spared(p)
      BY <2>1 DEF Spared
    <3> QED BY <1>1, <2>1, <3>1, SparedByProcesses, SparedByCommands DEF ProcNext
  <2> QED BY <1>1, <2>1 DEF procVars
<1> QED BY <1>1, ProcInvCorrect, PTL DEF ProcSpec, StrangersSpared
=============================================================================
