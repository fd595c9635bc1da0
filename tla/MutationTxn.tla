---------------------------- MODULE MutationTxn ----------------------------
(***************************************************************************)
(* One mutation transaction: a tool replaces, creates or deletes several   *)
(* files of the workspace as a unit (tools/mutation/commit.rs).  Every     *)
(* system call is a step and may fail; other programs (an editor, another  *)
(* run of the same workspace) write the same files between the steps.      *)
(*                                                                         *)
(* The operations are numbered in the order of the plan; MutationPlan.push *)
(* refuses a target it already has, so a number also names a file.         *)
(***************************************************************************)
EXTENDS Naturals, FiniteSets

CONSTANTS
    N,          \* number of operations of the plan
    Bytes,      \* contents a file can have
    NoFile,     \* no file at this path
    Dirs,       \* directories of the targets
    DirOf,      \* the directory of each target
    MaxFaults,  \* bound: system calls that fail in one behaviour
    MaxEdits    \* bound: writes by other programs in one behaviour

Ops == 1 .. N
Contents == Bytes \cup {NoFile}

ASSUME TxnAssumption ==
    /\ N \in Nat \ {0}
    /\ NoFile \notin Bytes
    /\ DirOf \in [Ops -> Dirs]
    /\ MaxFaults \in Nat
    /\ MaxEdits \in Nat

VARIABLES
    disk,       \* content of every target in the workspace
    dirs,       \* directories that exist
    before,     \* MutationOp.before: what the tool read when it planned
    after,      \* MutationOp.after, NoFile for a deletion
    staged,     \* files of the directory staged/
    backup,     \* files of the directory backup/
    made,       \* created_dirs
    pc,         \* the next system call
    at,         \* the operation it is about
    undo,       \* the step rollback is about to revert
    failures,   \* whether rollback collected a failure
    result,     \* what execute returns
    faults, edits,
    theirs,     \* history: last content a program other than this one gave the file
    late        \* history: files written by others after their own check had passed

plan == <<before, after>>
counters == <<faults, edits>>
history == <<theirs, late>>
vars == <<disk, dirs, before, after, staged, backup, made, pc, at, undo, failures, result,
          faults, edits, theirs, late>>

Phases == {"validate", "open", "stage", "verify", "moveaway", "mkdir", "install", "restore",
           "remove", "putback", "rmdirs", "cleanup", "done"}
Results == {"none", "ok", "error"}

Existed(i) == before[i] # NoFile        \* matches!(before, Present(_))
Installs(i) == after[i] # NoFile        \* item.staged.is_some()

TypeOK ==
    /\ disk \in [Ops -> Contents]
    /\ dirs \subseteq Dirs
    /\ before \in [Ops -> Contents]
    /\ after \in [Ops -> Contents]
    /\ staged \in [Ops -> Contents]
    /\ backup \in [Ops -> Contents]
    /\ made \subseteq Dirs
    /\ pc \in Phases
    /\ at \in 1 .. N + 1
    /\ undo \in 0 .. N
    /\ failures \in BOOLEAN
    /\ result \in Results
    /\ faults \in 0 .. MaxFaults
    /\ edits \in 0 .. MaxEdits
    /\ theirs \in [Ops -> Contents]
    /\ late \subseteq Ops

\* The plan as the tools build it: `before` is what they read, a file lies in a directory that
\* exists, and only an existing file can be deleted (MutationPlan.delete).
Init ==
    /\ before \in [Ops -> Contents]
    /\ after \in [Ops -> Contents]
    /\ \A i \in Ops : Existed(i) \/ Installs(i)
    /\ dirs \in SUBSET Dirs
    /\ \A i \in Ops : Existed(i) => DirOf[i] \in dirs
    /\ disk = before
    /\ staged = [i \in Ops |-> NoFile]
    /\ backup = [i \in Ops |-> NoFile]
    /\ made = {}
    /\ pc = "validate"
    /\ at = 1
    /\ undo = 0
    /\ failures = FALSE
    /\ result = "none"
    /\ faults = 0
    /\ edits = 0
    /\ theirs = before
    /\ late = {}

\* A system call fails for a reason of the system's own (no space, no permission, I/O error).
Fault == faults < MaxFaults /\ faults' = faults + 1 /\ UNCHANGED edits
NoFault == UNCHANGED counters

\* Another program writes or deletes a target; writing makes the directory when it is missing.
Edit(i, c) ==
    /\ pc # "done"
    /\ edits < MaxEdits
    /\ c # disk[i]
    /\ disk' = [disk EXCEPT ![i] = c]
    /\ dirs' = IF c = NoFile THEN dirs ELSE dirs \cup {DirOf[i]}
    /\ theirs' = [theirs EXCEPT ![i] = c]
    /\ late' = IF \/ pc \in {"moveaway", "mkdir", "install", "restore"} /\ i <= at
                  \/ pc \in {"verify", "remove", "putback", "rmdirs", "cleanup"} /\ i < at
               THEN late \cup {i} ELSE late
    /\ edits' = edits + 1
    /\ UNCHANGED <<plan, staged, backup, made, pc, at, undo, failures, result, faults>>

Finish(r) == pc' = "done" /\ result' = r

\* validate_preconditions: one file after the other, before anything is created.
Validate ==
    /\ pc = "validate"
    /\ \/ /\ disk[at] = before[at]
          /\ IF at = N THEN pc' = "open" /\ at' = 1 ELSE pc' = pc /\ at' = at + 1
          /\ NoFault /\ UNCHANGED result
       \/ /\ disk[at] # before[at]
          /\ Finish("error") /\ NoFault /\ UNCHANGED at
       \/ /\ Fault /\ Finish("error") /\ UNCHANGED at
    /\ UNCHANGED <<plan, history, disk, dirs, staged, backup, made, undo, failures>>

\* create_transaction_dir: a failure is returned at once, nothing has to be cleaned up.
OpenTxn ==
    /\ pc = "open"
    /\ \/ NoFault /\ pc' = "stage" /\ UNCHANGED result
       \/ Fault /\ Finish("error")
    /\ UNCHANGED <<plan, history, disk, dirs, staged, backup, made, at, undo, failures>>

\* prepare: write and sync the new content of every operation that has one.
Stage ==
    /\ pc = "stage"
    /\ \/ /\ staged' = [staged EXCEPT ![at] = after[at]]
          /\ IF at = N THEN pc' = "verify" /\ at' = 1 ELSE pc' = pc /\ at' = at + 1
          /\ NoFault /\ UNCHANGED result
       \/ Fault /\ pc' = "cleanup" /\ at' = 1 /\ result' = "error" /\ UNCHANGED staged
    /\ UNCHANGED <<plan, history, disk, dirs, backup, made, undo, failures>>

\* rollback(applied, created_dirs): the steps applied are those before `at`.
StartRollback ==
    /\ result' = "error"
    /\ undo' = at - 1
    /\ pc' = IF at = 1 THEN "rmdirs" ELSE "remove"

\* Seeded fault: the loop trusts validate_preconditions and does not look again.
VerifyTrusting ==
    /\ pc = "verify"
    /\ NoFault /\ pc' = "moveaway"
    /\ UNCHANGED <<plan, history, disk, dirs, staged, backup, made, at, undo, failures, result>>

\* The second verify_state, inside the loop.
Verify ==
    /\ pc = "verify"
    /\ \/ disk[at] = before[at] /\ NoFault /\ pc' = "moveaway" /\ UNCHANGED <<result, undo>>
       \/ disk[at] # before[at] /\ NoFault /\ StartRollback
       \/ Fault /\ StartRollback
    /\ UNCHANGED <<plan, history, disk, dirs, staged, backup, made, at, failures>>

\* The loop of execute_in_dir goes on to the next operation, or ends with the receipt.
NextItem ==
    /\ at' = at + 1
    /\ IF at = N THEN pc' = "cleanup" /\ result' = "ok" ELSE pc' = "verify" /\ result' = result

AfterMove == IF Installs(at) THEN pc' = "mkdir" /\ UNCHANGED <<at, result>> ELSE NextItem

\* apply_one, first call: the target goes to backup/; a rename finds no file when another program
\* deleted it after the check.
MoveAway ==
    /\ pc = "moveaway"
    /\ \/ /\ Existed(at) /\ disk[at] # NoFile
          /\ backup' = [backup EXCEPT ![at] = disk[at]]
          /\ disk' = [disk EXCEPT ![at] = NoFile]
          /\ AfterMove /\ NoFault /\ UNCHANGED undo
       \/ /\ ~Existed(at)
          /\ AfterMove /\ NoFault /\ UNCHANGED <<disk, backup, undo>>
       \/ /\ Existed(at)
          /\ (disk[at] = NoFile /\ NoFault) \/ Fault
          /\ StartRollback /\ UNCHANGED <<disk, backup, at>>
    /\ UNCHANGED <<plan, history, dirs, staged, made, failures>>

\* apply_one, create_missing_dirs: its error leaves apply_one through `?`.
MakeDirs ==
    /\ pc = "mkdir"
    /\ \/ /\ DirOf[at] \in dirs
          /\ NoFault /\ pc' = "install" /\ UNCHANGED <<dirs, made, result, undo>>
       \/ /\ DirOf[at] \notin dirs
          /\ dirs' = dirs \cup {DirOf[at]}
          /\ made' = made \cup {DirOf[at]}
          /\ NoFault /\ pc' = "install" /\ UNCHANGED <<result, undo>>
       \/ /\ DirOf[at] \notin dirs
          /\ Fault /\ StartRollback /\ UNCHANGED <<dirs, made>>
    /\ UNCHANGED <<plan, history, disk, staged, backup, at, failures>>

\* Seeded fault: a failed install leaves the original in the backup directory.
InstallWithoutRestore ==
    /\ pc = "install"
    /\ \/ /\ disk' = [disk EXCEPT ![at] = staged[at]]
          /\ staged' = [staged EXCEPT ![at] = NoFile]
          /\ NextItem /\ NoFault /\ UNCHANGED undo
       \/ Fault /\ StartRollback /\ UNCHANGED <<disk, staged, at>>
    /\ UNCHANGED <<plan, history, dirs, backup, made, failures>>

\* apply_one: the staged file takes the target's place.
Install ==
    /\ pc = "install"
    /\ \/ /\ disk' = [disk EXCEPT ![at] = staged[at]]
          /\ staged' = [staged EXCEPT ![at] = NoFile]
          /\ NextItem /\ NoFault /\ UNCHANGED undo
       \/ /\ Fault
          /\ IF Existed(at) THEN pc' = "restore" /\ UNCHANGED <<result, undo>> ELSE StartRollback
          /\ UNCHANGED <<disk, staged, at>>
    /\ UNCHANGED <<plan, history, dirs, backup, made, failures>>

\* apply_one: put the original back after a failed install; the result of this rename is dropped.
Restore ==
    /\ pc = "restore"
    /\ \/ /\ disk' = [disk EXCEPT ![at] = backup[at]]
          /\ backup' = [backup EXCEPT ![at] = NoFile]
          /\ NoFault
       \/ Fault /\ UNCHANGED <<disk, backup>>
    /\ StartRollback
    /\ UNCHANGED <<plan, history, dirs, staged, made, at, failures>>

\* rollback, first call for a step: remove what it installed.
UndoRemove ==
    /\ pc = "remove"
    /\ \/ /\ disk' = IF Installs(undo) THEN [disk EXCEPT ![undo] = NoFile] ELSE disk
          /\ NoFault /\ UNCHANGED failures
       \/ /\ Installs(undo) /\ disk[undo] # NoFile
          /\ Fault /\ failures' = TRUE /\ UNCHANGED disk
    /\ pc' = "putback"
    /\ UNCHANGED <<plan, history, dirs, staged, backup, made, at, undo, result>>

\* Seeded fault: the backup is unlinked although it could not be renamed.
UndoPutBackOnce ==
    /\ pc = "putback"
    /\ \/ /\ disk' = IF backup[undo] = NoFile THEN disk ELSE [disk EXCEPT ![undo] = backup[undo]]
          /\ NoFault /\ UNCHANGED failures
       \/ Fault /\ failures' = TRUE /\ UNCHANGED disk
    /\ backup' = [backup EXCEPT ![undo] = NoFile]
    /\ undo' = undo - 1
    /\ pc' = IF undo = 1 THEN "rmdirs" ELSE "remove"
    /\ UNCHANGED <<plan, history, dirs, staged, made, at, result>>

\* rollback, second call for a step: rename its backup to the target, whatever is there now.
UndoPutBack ==
    /\ pc = "putback"
    /\ \/ /\ backup[undo] # NoFile
          /\ disk' = [disk EXCEPT ![undo] = backup[undo]]
          /\ backup' = [backup EXCEPT ![undo] = NoFile]
          /\ NoFault /\ UNCHANGED failures
       \/ /\ backup[undo] = NoFile
          /\ NoFault /\ UNCHANGED <<disk, backup, failures>>
       \/ /\ backup[undo] # NoFile
          /\ Fault /\ failures' = TRUE /\ UNCHANGED <<disk, backup>>
    /\ undo' = undo - 1
    /\ pc' = IF undo = 1 THEN "rmdirs" ELSE "remove"
    /\ UNCHANGED <<plan, history, dirs, staged, made, at, result>>

Empty(d) == \A i \in Ops : DirOf[i] = d => disk[i] = NoFile

\* rollback, last part: remove_dir of the created directories; it fails on one that is not empty,
\* and every failure is dropped.
RemoveDirs ==
    /\ pc = "rmdirs"
    /\ LET removable == {d \in made : Empty(d)} IN
       \/ dirs' = dirs \ removable /\ NoFault
       \/ \E gone \in SUBSET removable : gone # removable /\ dirs' = dirs \ gone /\ Fault
    /\ pc' = "cleanup"
    /\ UNCHANGED <<plan, history, disk, staged, backup, made, at, undo, failures, result>>

\* execute: remove_dir_all of the transaction directory, whatever the result.
Cleanup ==
    /\ pc = "cleanup"
    /\ \/ /\ staged' = [i \in Ops |-> NoFile]
          /\ backup' = [i \in Ops |-> NoFile]
          /\ NoFault
       \/ Fault /\ UNCHANGED <<staged, backup>>
    /\ pc' = "done"
    /\ UNCHANGED <<plan, history, disk, dirs, made, at, undo, failures, result>>

Step ==
    \/ Validate \/ OpenTxn \/ Stage \/ Verify \/ MoveAway \/ MakeDirs \/ Install \/ Restore
    \/ UndoRemove \/ UndoPutBack \/ RemoveDirs \/ Cleanup

Environment == \E i \in Ops, c \in Contents : Edit(i, c)

\* execute has returned: nothing moves any more, and anywhere else a transaction must go on.
Returned == pc = "done" /\ UNCHANGED vars

Next == Step \/ Environment \/ Returned

Spec == Init /\ [][Next]_vars

-----------------------------------------------------------------------------
(* Properties *)

\* Until the transaction returns, the last content others gave a file is in the workspace or in
\* backup/, so that a crash at any step loses nothing: apply_one renames and never copies over.
\* A write that others make to a file after its own check may be overwritten.
NothingLost ==
    pc # "done" => \A i \in Ops \ late : theirs[i] \in {disk[i], backup[i]}

\* A success is a success for every file: it holds the new content, and what the transaction
\* replaced is what the tool had read, although others write while the files are staged.
CommitIsWhole ==
    pc = "done" /\ result = "ok" =>
        \A i \in Ops \ late : disk[i] = after[i] /\ theirs[i] = before[i]

\* An error that reports no failure of the rollback leaves every file as others last wrote it,
\* wherever the failure hit, provided that no second system call failed after it.
FailureRestores ==
    pc = "done" /\ result = "error" /\ ~failures /\ faults <= 1 =>
        \A i \in Ops \ late : disk[i] = theirs[i]
=============================================================================
