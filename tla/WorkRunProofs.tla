---------------------------- MODULE WorkRunProofs ----------------------------
(***************************************************************************)
(* Proof that a done task keeps its product, for any number of tasks,      *)
(* commands, kills, failed saves and strays.  DoneIsBacked is not          *)
(* inductive: a document becomes DONE two steps after the commands passed. *)
(* CmdInv carries their verdict from there to the document, and keeps      *)
(* apart the commands that may take a product away from those that mark a  *)
(* task done.  What an executor takes away is in `torn` until it is made   *)
(* again: a covered product stays covered.  The types come last: they need *)
(* that the task at hand is one of the plan's.                             *)
(***************************************************************************)
EXTENDS WorkRun, WellFoundedInduction, TLAPS

Covered(t) == t \in Tree \cup Weak \cup torn
StaysCovered == \A t : Covered(t) => Covered(t)'

Saving == {"truncate", "write"}
Verdicts == {"commands", "judge", "recheck", "rejudge"}

CmdInv ==
    /\ cmd = [kind |-> cmd.kind, at |-> cmd.at, task |-> cmd.task,
              tries |-> cmd.tries, next |-> cmd.next, commits |-> cmd.commits]
    /\ cmd.at \in {"status", "revert"} => cmd.kind = "rollback"
    /\ cmd.at = "judge" => Covered(cmd.task)
    /\ cmd.at \in Verdicts \cup {"execute", "commit"} => cmd.kind \in {"plan", "verify"}
    /\ cmd.at \in Saving =>
          /\ cmd.kind # "rollback" /\ cmd.next = "DONE" => Covered(cmd.task)
          /\ cmd.kind = "rollback" => cmd.next = "PENDING"

IInv == /\ doc = [t \in Tasks |-> doc[t]]
        /\ CmdInv
        /\ DoneIsBacked

\* Every way of changing the command that moves it on without marking a task done.
LEMMA ForwardKeeps ==
    ASSUME IInv, UNCHANGED doc, StaysCovered,
           cmd.kind = "rollback" => cmd.at # "truncate",
           cmd' = [kind |-> cmd'.kind, at |-> cmd'.at, task |-> cmd'.task,
                   tries |-> cmd'.tries, next |-> cmd'.next, commits |-> cmd'.commits],
           cmd'.kind = "rollback" => cmd'.at \in {"status", "revert"},
           cmd'.at \in {"status", "revert"} => cmd'.kind = "rollback",
           cmd'.at \in Verdicts \cup {"execute", "commit"} => cmd'.kind \in {"plan", "verify"},
           cmd'.at = "judge" => Covered(cmd'.task),
           cmd'.at \in Saving /\ cmd'.next = "DONE" => Covered(cmd'.task)
    PROVE  IInv'
<1>1. CmdInv'
  <2>1. /\ cmd'.at = "judge" => Covered(cmd.task)'
        /\ cmd'.at \in Saving /\ cmd'.next = "DONE" => Covered(cmd.task)'
    BY DEF StaysCovered, Covered
  <2>. QED  BY <2>1 DEF CmdInv, Saving
<1>2. DoneIsBacked'
  BY DEF DoneIsBacked, IInv, StaysCovered, Covered
<1>. QED  BY <1>1, <1>2 DEF IInv

\* What an executor writes leaves every product there or in `torn`.
LEMMA ChangeCovers ==
    ASSUME NEW t, NEW who, Change(t, who)
    PROVE  StaysCovered
BY DEF Change, Makes, Takes, StaysCovered, Covered, Tree

LEMMA NothingCovers == ASSUME UNCHANGED <<files, torn>> PROVE StaysCovered
BY DEF files, StaysCovered, Covered, Tree

\* The attempt that follows a failed one marks nothing done.
LEMMA TryAgainForward ==
    ASSUME CmdInv, NEW n, TryAgain(n)
    PROVE  /\ cmd' = [kind |-> cmd'.kind, at |-> cmd'.at, task |-> cmd'.task,
                      tries |-> cmd'.tries, next |-> cmd'.next, commits |-> cmd'.commits]
           /\ cmd'.kind = cmd.kind
           /\ \/ cmd'.at = "execute"
              \/ cmd'.at = "truncate" /\ cmd'.next = "ESCALATED"
BY DEF TryAgain, CmdInv

LEMMA StartKeeps ==
    ASSUME IInv,
           (\E c \in BOOLEAN : RunPlan(c)) \/ (\E t \in Tasks : VerifyTask(t) \/ PlanRollback(t))
    PROVE  IInv'
<1>1. UNCHANGED <<doc, torn, files>> /\ cmd = Idle
  BY DEF RunPlan, VerifyTask, PlanRollback, Starts, repo
<1>2. StaysCovered
  BY <1>1, NothingCovers
<1>3. /\ cmd' = [kind |-> cmd'.kind, at |-> cmd'.at, task |-> cmd'.task,
                 tries |-> cmd'.tries, next |-> cmd'.next, commits |-> cmd'.commits]
      /\ cmd'.kind = "rollback" => cmd'.at \in {"status", "revert"}
      /\ cmd'.kind # "rollback" => /\ cmd'.kind \in {"plan", "verify"}
                                  /\ cmd'.at \in {"recheck", "execute", "commands"}
  <2>1. CASE \E c \in BOOLEAN : RunPlan(c)
    BY <2>1 DEF RunPlan, Idle
  <2>2. CASE \E t \in Tasks : VerifyTask(t) \/ PlanRollback(t)
    BY <2>2 DEF VerifyTask, PlanRollback, Idle
  <2>. QED  BY <2>1, <2>2
<1>. QED  BY <1>1, <1>2, <1>3, ForwardKeeps DEF Idle, Saving, Verdicts

LEMMA ExecuteKeeps ==
    ASSUME IInv, Execute
    PROVE  IInv'
<1>1. cmd.kind = "plan" /\ cmd.at = "execute" /\ UNCHANGED <<doc, torn, files>>
  BY DEF Execute, At, ghosts
<1>2. StaysCovered
  BY <1>1, NothingCovers
<1>3. /\ cmd' = [kind |-> cmd'.kind, at |-> cmd'.at, task |-> cmd'.task,
                 tries |-> cmd'.tries, next |-> cmd'.next, commits |-> cmd'.commits]
      /\ cmd'.kind = "plan"
      /\ \/ cmd'.at \in {"execute", "commands"}
         \/ cmd'.at = "truncate" /\ cmd'.next = "ESCALATED"
  <2>1. CASE Gives
    BY <2>1, <1>1 DEF Gives, IInv, CmdInv
  <2>2. CASE Fails \/ Overruns(cmd.task)
    BY <2>2, <1>1, TryAgainForward DEF Fails, Overruns, IInv
  <2>. QED  BY <2>1, <2>2 DEF Execute
<1>. QED  BY <1>1, <1>2, <1>3, ForwardKeeps DEF Saving, Verdicts

LEMMA ExecutorWritesKeeps ==
    ASSUME IInv, ExecutorWrites
    PROVE  IInv'
<1>1. cmd.kind = "plan" /\ cmd.at = "execute" /\ UNCHANGED <<doc, cmd>>
  BY DEF ExecutorWrites, At
<1>2. StaysCovered
  BY ChangeCovers DEF ExecutorWrites
<1>. QED  BY <1>1, <1>2, ForwardKeeps DEF IInv, CmdInv, Saving, Verdicts

LEMMA CommandsPassKeeps ==
    ASSUME IInv, CommandsPass
    PROVE  IInv'
<1>1. cmd.kind \in {"plan", "verify"} /\ UNCHANGED <<doc, torn, files>>
  BY DEF CommandsPass, Verifying, At, repo
<1>2. StaysCovered /\ Covered(cmd.task)
  BY <1>1, NothingCovers DEF Covered, CommandsPass, Passes
<1>3. /\ cmd' = [kind |-> cmd'.kind, at |-> cmd'.at, task |-> cmd'.task,
                 tries |-> cmd'.tries, next |-> cmd'.next, commits |-> cmd'.commits]
      /\ cmd'.kind = cmd.kind /\ cmd'.task = cmd.task
      /\ cmd'.at \in {"judge", "rejudge"}
  BY DEF CommandsPass, Goto, IInv, CmdInv
<1>. QED  BY <1>1, <1>2, <1>3, ForwardKeeps DEF Saving, Verdicts

\* The verdict on an attempt keeps the command's kind, and marks a task done only when it passed.
LEMMA VerdictForward ==
    ASSUME CmdInv, NEW done \in BOOLEAN, Verdict(done), cmd.kind \in {"plan", "verify"}
    PROVE  \/ cmd' = Idle
           \/ /\ cmd' = [kind |-> cmd'.kind, at |-> cmd'.at, task |-> cmd'.task,
                         tries |-> cmd'.tries, next |-> cmd'.next, commits |-> cmd'.commits]
              /\ cmd'.kind = cmd.kind
              /\ \/ cmd'.at = "execute"
                 \/ cmd'.at = "truncate" /\ cmd'.next # "DONE"
                 \/ /\ cmd'.at = "truncate" /\ cmd'.task = cmd.task
                    /\ done /\ cmd.at \notin {"recheck", "rejudge"}
<1>1. CASE cmd.at \in {"recheck", "rejudge"}
  BY <1>1 DEF Verdict, CmdInv
<1>2. CASE cmd.at \notin {"recheck", "rejudge"} /\ done
  BY <1>2 DEF Verdict, CmdInv
<1>3. CASE cmd.at \notin {"recheck", "rejudge"} /\ ~done /\ cmd.kind = "verify"
  BY <1>3 DEF Verdict, CmdInv
<1>4. CASE cmd.at \notin {"recheck", "rejudge"} /\ ~done /\ cmd.kind = "plan"
  <2>1. TryAgain(cmd.tries)
    BY <1>4 DEF Verdict
  <2>. QED  BY <1>4, <2>1, TryAgainForward
<1>. QED  BY <1>1, <1>2, <1>3, <1>4

LEMMA VerdictKeeps ==
    ASSUME IInv, CommandsFail \/ Judge
    PROVE  IInv'
<1>1. cmd.kind \in {"plan", "verify"}
  <2>1. CASE CommandsFail
    BY <2>1 DEF CommandsFail, Verifying, At
  <2>2. CASE Judge
    BY <2>2 DEF Judge, IInv, CmdInv, Verdicts
  <2>. QED  BY <2>1, <2>2
<1>2. UNCHANGED <<doc, torn, files>> /\ cmd.at \in Verdicts
  BY DEF CommandsFail, Judge, ghosts, Verifying, At, Verdicts
<1>3. StaysCovered
  BY <1>2, NothingCovers
<1>4. PICK done \in BOOLEAN : Verdict(done) /\ (done => Judge)
  BY DEF CommandsFail, Judge
<1>5. done => cmd.at \in {"judge", "rejudge"}
  BY <1>4 DEF Judge
<1>6. cmd.at = "judge" => Covered(cmd.task)
  BY DEF IInv, CmdInv
<1>7. CASE cmd' = Idle
  BY <1>1, <1>2, <1>3, <1>7, ForwardKeeps DEF Idle, Saving, Verdicts
<1>8. CASE cmd' # Idle
  <2>1. /\ cmd' = [kind |-> cmd'.kind, at |-> cmd'.at, task |-> cmd'.task,
                   tries |-> cmd'.tries, next |-> cmd'.next, commits |-> cmd'.commits]
        /\ cmd'.kind = cmd.kind
        /\ \/ cmd'.at = "execute"
           \/ cmd'.at = "truncate" /\ cmd'.next # "DONE"
           \/ /\ cmd'.at = "truncate" /\ cmd'.task = cmd.task
              /\ done /\ cmd.at \notin {"recheck", "rejudge"}
    BY <1>1, <1>4, <1>8, VerdictForward DEF IInv
  <2>2. cmd'.at = "truncate" /\ cmd'.next = "DONE" => Covered(cmd'.task)
    BY <2>1, <1>5, <1>6
  <2>. QED  BY <1>1, <1>2, <1>3, <2>1, <2>2, ForwardKeeps DEF Saving, Verdicts
<1>. QED  BY <1>7, <1>8

\* An emptied document is not done, and the rollback it belongs to has nothing to hide any more.
LEMMA TruncateKeeps ==
    ASSUME IInv, Truncate
    PROVE  IInv'
<1>1. UNCHANGED torn /\ Tree' = Tree /\ StaysCovered
  BY NothingCovers DEF Truncate, ghosts, files, Tree
<1>2. /\ cmd' = [kind |-> cmd.kind, at |-> "write", task |-> cmd.task,
                 tries |-> cmd.tries, next |-> cmd.next, commits |-> cmd.commits]
      /\ cmd.at = "truncate"
  BY DEF Truncate, Goto, IInv, CmdInv
<1>3. CmdInv'
  BY <1>1, <1>2 DEF IInv, CmdInv, Covered, Saving, Verdicts
<1>4. doc' = [t \in Tasks |-> doc'[t]] /\ \A t \in Tasks : doc'[t] = IF t = cmd.task THEN "BROKEN" ELSE doc[t]
  BY DEF Truncate, IInv
<1>5. DoneIsBacked'
  BY <1>1, <1>2, <1>4 DEF DoneIsBacked, IInv
<1>. QED  BY <1>3, <1>4, <1>5 DEF IInv

LEMMA NextTaskForward ==
    ASSUME CmdInv, cmd' = NextTask
    PROVE  \/ cmd' = Idle
           \/ /\ cmd' = [kind |-> cmd'.kind, at |-> cmd'.at, task |-> cmd'.task,
                         tries |-> cmd'.tries, next |-> cmd'.next, commits |-> cmd'.commits]
              /\ cmd'.kind = cmd.kind /\ cmd'.at = "execute"
BY DEF NextTask, CmdInv

\* After a save, written or not, the run of a plan goes on and any other command ends.
LEMMA AfterSaveForward ==
    ASSUME CmdInv, AfterSave
    PROVE  \/ cmd' = Idle
           \/ /\ cmd' = [kind |-> cmd'.kind, at |-> cmd'.at, task |-> cmd'.task,
                         tries |-> cmd'.tries, next |-> cmd'.next, commits |-> cmd'.commits]
              /\ cmd'.kind = "plan" /\ cmd'.at \in {"execute", "commit"}
<1>1. CASE cmd.kind # "plan" \/ cmd.next # "DONE"
  BY <1>1 DEF AfterSave
<1>2. CASE cmd.kind = "plan" /\ cmd.next = "DONE" /\ cmd.commits
  BY <1>2 DEF AfterSave, CmdInv
<1>3. CASE cmd.kind = "plan" /\ cmd.next = "DONE" /\ ~cmd.commits
  BY <1>3, NextTaskForward DEF AfterSave
<1>. QED  BY <1>1, <1>2, <1>3

\* DONE is written on what the commands passed on, and by no rollback.
LEMMA WriteKeeps ==
    ASSUME IInv, Write
    PROVE  IInv'
<1>1. Tree' = Tree /\ torn' = torn /\ cmd.at = "write"
  BY DEF Write, repo, files, ghosts, Tree
<1>2. CmdInv'
  BY AfterSaveForward DEF Write, IInv, CmdInv, Idle, Saving, Verdicts
<1>3. doc' = [t \in Tasks |-> doc'[t]] /\ \A t \in Tasks : doc'[t] = IF t = cmd.task THEN cmd.next ELSE doc[t]
  BY DEF Write, IInv
<1>4. cmd.next = "DONE" => Covered(cmd.task)
  BY <1>1 DEF IInv, CmdInv, Saving
<1>5. DoneIsBacked'
  BY <1>1, <1>3, <1>4 DEF DoneIsBacked, IInv, Covered
<1>. QED  BY <1>2, <1>3, <1>5 DEF IInv

\* A document that is not written keeps what it says; a rollback that did not reset it tells `torn`.
LEMMA SaveFailsKeeps ==
    ASSUME IInv, SaveFails
    PROVE  IInv'
<1>1. Tree' = Tree /\ doc' = doc /\ torn' = NotReset
  BY DEF SaveFails, repo, files, Tree
<1>2. CmdInv'
  BY AfterSaveForward DEF SaveFails, IInv, CmdInv, Idle, Saving, Verdicts
<1>3. DoneIsBacked'
  BY <1>1 DEF DoneIsBacked, IInv, NotReset
<1>. QED  BY <1>1, <1>2, <1>3 DEF IInv

LEMMA CheckpointKeeps ==
    ASSUME IInv, Checkpoint
    PROVE  IInv'
<1>1. UNCHANGED <<doc, torn>> /\ cmd.at = "commit" /\ cmd.kind \in {"plan", "verify"}
  BY DEF Checkpoint, ghosts, IInv, CmdInv
<1>2. StaysCovered
  BY <1>1 DEF Checkpoint, files, Tree, StaysCovered, Covered
<1>3. \/ cmd' = Idle
      \/ /\ cmd' = [kind |-> cmd'.kind, at |-> cmd'.at, task |-> cmd'.task,
                    tries |-> cmd'.tries, next |-> cmd'.next, commits |-> cmd'.commits]
         /\ cmd'.kind = cmd.kind /\ cmd'.at = "execute"
  BY NextTaskForward DEF Checkpoint, IInv
<1>. QED  BY <1>1, <1>2, <1>3, ForwardKeeps DEF Idle, Saving, Verdicts

LEMMA StatusKeeps ==
    ASSUME IInv, Status \/ RevertFails
    PROVE  IInv'
<1>1. /\ UNCHANGED <<doc, torn, files>>
      /\ cmd.kind = "rollback" /\ cmd.at # "truncate"
  BY DEF Status, RevertFails, ghosts, repo, IInv, CmdInv
<1>2. StaysCovered
  BY <1>1, NothingCovers
<1>3. \/ cmd' = Idle
      \/ /\ cmd' = [kind |-> cmd'.kind, at |-> cmd'.at, task |-> cmd'.task,
                    tries |-> cmd'.tries, next |-> cmd'.next, commits |-> cmd'.commits]
         /\ cmd'.kind = "rollback" /\ cmd'.at = "revert"
  BY <1>1 DEF Status, RevertFails, End, Goto, IInv, CmdInv
<1>. QED  BY <1>1, <1>2, <1>3, ForwardKeeps DEF Idle, Saving, Verdicts

\* A revert takes products: its own task's, whose document is next, and those it notes as torn.
LEMMA RevertKeeps ==
    ASSUME IInv, Revert
    PROVE  IInv'
<1>1. UNCHANGED <<doc, edited, added, gone>> /\ cmd.at = "revert" /\ cmd.kind = "rollback"
  BY DEF Revert, IInv, CmdInv
<1>2. PICK c : /\ head' = (head \ c.adds) \cup c.dels
               /\ torn' = (torn \ c.dels) \cup (c.adds \ {cmd.task})
               /\ c.dels \cap gone = {}
  BY DEF Revert
<1>3. cmd' = [kind |-> "rollback", at |-> "truncate", task |-> cmd.task,
              tries |-> cmd.tries, next |-> "PENDING", commits |-> cmd.commits]
  BY <1>1 DEF Revert, IInv, CmdInv
<1>4. CmdInv'
  BY <1>3 DEF CmdInv, Saving, Verdicts
<1>5. DoneIsBacked'
  BY <1>1, <1>2, <1>3 DEF DoneIsBacked, IInv, Tree
<1>. QED  BY <1>1, <1>4, <1>5 DEF IInv

LEMMA StrayKeeps ==
    ASSUME IInv, NEW t \in Tasks, Stray(t)
    PROVE  IInv'
<1>1. UNCHANGED <<doc, cmd>> /\ StaysCovered
  BY ChangeCovers, NothingCovers DEF Stray
<1>2. CmdInv'
  BY <1>1 DEF IInv, CmdInv, StaysCovered, Covered
<1>3. DoneIsBacked'
  BY <1>1 DEF IInv, DoneIsBacked, StaysCovered, Covered
<1>. QED  BY <1>1, <1>2, <1>3 DEF IInv

LEMMA CrashKeeps ==
    ASSUME IInv, Crash
    PROVE  IInv'
<1>1. doc' = doc /\ cmd' = Idle /\ Tree' = Tree /\ torn' = NotReset
  BY DEF Crash, End, repo, files, Tree
<1>2. CmdInv'
  BY <1>1 DEF CmdInv, Idle, Saving, Verdicts
<1>3. DoneIsBacked'
  BY <1>1 DEF IInv, DoneIsBacked, NotReset
<1>. QED  BY <1>1, <1>2, <1>3 DEF IInv

LEMMA StepKeeps == IInv /\ [Next]_vars => IInv'
<1> SUFFICES ASSUME IInv, [Next]_vars PROVE IInv'
  OBVIOUS
<1>1. CASE (\E c \in BOOLEAN : RunPlan(c)) \/ (\E t \in Tasks : VerifyTask(t) \/ PlanRollback(t))
  BY <1>1, StartKeeps
<1>2. CASE \E t \in Tasks : Stray(t)
  BY <1>2, StrayKeeps
<1>3. CASE Step
  BY <1>3, ExecutorWritesKeeps, ExecuteKeeps, CommandsPassKeeps, VerdictKeeps, TruncateKeeps, WriteKeeps,
     SaveFailsKeeps, CheckpointKeeps, StatusKeeps, RevertKeeps DEF Step
<1>4. CASE Crash
  BY <1>4, CrashKeeps
<1>5. CASE UNCHANGED vars
  BY <1>5 DEF vars, repo, files, ghosts, IInv, CmdInv, Covered, DoneIsBacked, Tree
<1>. QED  BY <1>1, <1>2, <1>3, <1>4, <1>5 DEF Next

LEMMA InitIInv == Init => IInv
BY DEF Init, IInv, CmdInv, Idle, DoneIsBacked, Saving, Verdicts

\* A task whose document says DONE has its product in the workspace, whatever commands were given,
\* killed, unable to save and overtaken by executors that were given up; products an executor took
\* away, and the two a rollback loses, are in `torn` (orchestrator.rs: run_plan, rollback_task).
THEOREM BackedCorrect == Spec => []DoneIsBacked
<1>1. IInv => DoneIsBacked
  BY DEF IInv
<1>. QED  BY <1>1, InitIInv, StepKeeps, PTL DEF Spec

-----------------------------------------------------------------------------
(* A run of a plan works on the first task that is not done or could not   *)
(* be saved, and its executor writes nothing between the commands and the  *)
(* checkpoint.                                                             *)

Working == {"execute", "commands", "judge", "truncate", "write"}

Passed(t) == doc[t] = "DONE" \/ t \in unsaved

OrderInv ==
    cmd.kind = "plan" =>
        /\ cmd.task \in Tasks
        /\ cmd.at \in Working => \A t \in 1..(cmd.task - 1) : Passed(t)
        /\ cmd.at \in {"recheck", "rejudge", "commit"} => \A t \in 1..cmd.task : Passed(t)
        /\ cmd.at \in {"recheck", "rejudge"} => cmd.task + 1 \in Tasks

CleanInv ==
    \/ cmd.at \in {"judge", "commit"}
    \/ cmd.at \in Saving /\ cmd.kind = "plan" /\ cmd.next = "DONE"
    => "own" \notin touched

CInv == IInv /\ OrderInv /\ CleanInv

\* Steps after which no plan is run, or the same task at a point before its verdict.
LEMMA OrderForward ==
    ASSUME OrderInv, UNCHANGED <<doc, unsaved>>,
           \/ cmd'.kind # "plan"
           \/ /\ cmd'.kind = "plan" /\ cmd.kind = "plan" /\ cmd'.task = cmd.task
              /\ \/ cmd.at \in Working /\ cmd'.at \in Working
                 \/ cmd.at = "recheck" /\ cmd'.at = "rejudge"
    PROVE  OrderInv'
BY DEF OrderInv, Working, Passed

LEMMA StartOrder ==
    ASSUME CInv,
           (\E c \in BOOLEAN : RunPlan(c)) \/ (\E t \in Tasks : VerifyTask(t) \/ PlanRollback(t))
    PROVE  OrderInv' /\ CleanInv'
<1>1. UNCHANGED <<doc, touched>>
  BY DEF RunPlan, VerifyTask, PlanRollback, Starts
<1>2. CASE \E c \in BOOLEAN : RunPlan(c)
  <2>1. PICK start \in Open : /\ \A t \in 1..(start - 1) : t \notin Open
                              /\ cmd'.kind = "plan"
                              /\ cmd'.at = IF start > 1 THEN "recheck" ELSE "execute"
                              /\ cmd'.task = IF start > 1 THEN start - 1 ELSE start
    BY <1>2 DEF RunPlan, Idle
  <2>2. start \in Tasks /\ start \in Nat /\ start >= 1 /\ \A t \in 1..(start - 1) : doc[t] = "DONE"
    BY <2>1, WorkAssumption DEF Open, Tasks
  <2>3. OrderInv'
    <3>1. CASE start > 1
      <4>1. cmd'.task = start - 1 /\ cmd'.at = "recheck"
        BY <2>1, <3>1
      <4>2. start - 1 \in Tasks /\ (start - 1) + 1 = start
        BY <2>2, <3>1, WorkAssumption DEF Tasks
      <4>. QED  BY <1>1, <2>2, <4>1, <4>2 DEF OrderInv, Working, Passed
    <3>2. CASE ~(start > 1)
      <4>1. cmd'.task = start /\ cmd'.at = "execute"
        BY <2>1, <3>2
      <4>. QED  BY <1>1, <2>2, <4>1 DEF OrderInv, Working, Passed
    <3>. QED  BY <3>1, <3>2
  <2>4. CleanInv'
    <3>1. cmd'.at \in {"recheck", "execute"}
      BY <2>1
    <3>. QED  BY <1>1, <3>1 DEF CleanInv, CInv, Saving
  <2>. QED  BY <2>3, <2>4
<1>3. CASE \E t \in Tasks : VerifyTask(t) \/ PlanRollback(t)
  <2>1. cmd'.kind # "plan" /\ cmd'.at \in {"commands", "status"}
    BY <1>3 DEF VerifyTask, PlanRollback, Idle
  <2>. QED  BY <1>1, <2>1 DEF OrderInv, CleanInv, CInv, Saving
<1>. QED  BY <1>2, <1>3

LEMMA ExecuteOrder ==
    ASSUME CInv, ExecutorWrites \/ Execute
    PROVE  OrderInv' /\ CleanInv'
<1>1. cmd.kind = "plan" /\ cmd.at = "execute" /\ UNCHANGED <<doc, unsaved>> /\ CmdInv
  BY DEF ExecutorWrites, Execute, At, CInv, IInv, ghosts
<1>2. /\ cmd'.kind = "plan" /\ cmd'.task = cmd.task
      /\ \/ cmd'.at \in {"execute", "commands"}
         \/ cmd'.at = "truncate" /\ cmd'.next = "ESCALATED"
  BY <1>1 DEF ExecutorWrites, Execute, Gives, Fails, Overruns, TryAgain, CmdInv
<1>3. OrderInv'
  BY <1>1, <1>2, OrderForward DEF CInv, Working
<1>4. CleanInv'
  BY <1>2 DEF CleanInv, Saving
<1>. QED  BY <1>3, <1>4

LEMMA CommandsPassOrder ==
    ASSUME CInv, CommandsPass
    PROVE  OrderInv' /\ CleanInv'
<1>1. UNCHANGED <<doc, unsaved>> /\ touched' = {}
  BY DEF CommandsPass
<1>2. /\ cmd'.kind = cmd.kind /\ cmd'.task = cmd.task
      /\ \/ cmd.at = "recheck" /\ cmd'.at = "rejudge"
         \/ cmd.at = "commands" /\ cmd'.at = "judge"
  BY DEF CommandsPass, Verifying, At, Goto, CInv, IInv, CmdInv
<1>3. OrderInv'
  BY <1>1, <1>2, OrderForward DEF CInv, Working
<1>4. CleanInv'
  BY <1>1 DEF CleanInv
<1>. QED  BY <1>3, <1>4

LEMMA VerdictOrder ==
    ASSUME CInv, CommandsFail \/ Judge
    PROVE  OrderInv' /\ CleanInv'
<1>1. UNCHANGED <<doc, touched, unsaved>> /\ CmdInv /\ cmd.at \in Verdicts
  BY DEF CommandsFail, Judge, ghosts, Verifying, At, Verdicts, CInv, IInv
<1>2. cmd.kind \in {"plan", "verify"}
  BY <1>1 DEF CmdInv
<1>3. PICK done \in BOOLEAN : Verdict(done) /\ (done => Judge)
  BY DEF CommandsFail, Judge
<1>4. done => cmd.at \in {"judge", "rejudge"}
  BY <1>3 DEF Judge
<1>5. CASE cmd' = Idle
  BY <1>1, <1>5 DEF Idle, OrderInv, CleanInv, CInv, Saving
<1>6. CASE cmd' # Idle /\ cmd.at \in {"recheck", "rejudge"}
  <2>1. cmd'.kind = cmd.kind /\ cmd'.at = "execute" /\ cmd'.task = cmd.task + 1
    BY <1>1, <1>3, <1>6 DEF Verdict, CmdInv
  <2>2. OrderInv'
    <3>1. cmd.kind = "plan" => cmd.task \in Nat /\ (cmd.task + 1) - 1 = cmd.task
      BY WorkAssumption DEF OrderInv, CInv, Tasks
    <3>. QED  BY <1>1, <1>6, <2>1, <3>1 DEF OrderInv, CInv, Working, Passed
  <2>. QED  BY <1>1, <2>1, <2>2 DEF CleanInv, CInv, Saving
<1>7. CASE cmd' # Idle /\ cmd.at \notin {"recheck", "rejudge"}
  <2>1. /\ cmd'.kind = cmd.kind /\ cmd'.task = cmd.task
        /\ \/ cmd'.at = "execute"
           \/ cmd'.at = "truncate" /\ cmd'.next # "DONE"
           \/ cmd'.at = "truncate" /\ done
    BY <1>1, <1>2, <1>3, <1>7 DEF Verdict, TryAgain, CmdInv
  <2>2. cmd.at \in Working
    BY <1>1, <1>7 DEF Verdicts, Working
  <2>3. OrderInv'
    BY <1>1, <2>1, <2>2, OrderForward DEF CInv, Working
  <2>4. done => cmd.at = "judge"
    BY <1>4, <1>7
  <2>5. CleanInv'
    BY <1>1, <2>1, <2>4 DEF CleanInv, CInv, Saving
  <2>. QED  BY <2>3, <2>5
<1>. QED  BY <1>5, <1>6, <1>7

LEMMA TruncateOrder ==
    ASSUME CInv, Truncate
    PROVE  OrderInv' /\ CleanInv'
<1>1. /\ UNCHANGED <<touched, unsaved>> /\ CmdInv
      /\ cmd'.kind = cmd.kind /\ cmd'.task = cmd.task /\ cmd'.next = cmd.next
      /\ cmd.at = "truncate" /\ cmd'.at = "write"
  BY DEF Truncate, Goto, ghosts, CInv, IInv, CmdInv
<1>2. \A t \in Tasks : t # cmd.task => doc'[t] = doc[t]
  BY DEF Truncate, CInv, IInv
<1>3. cmd.kind = "plan" => \A t \in 1..(cmd.task - 1) : t \in Tasks /\ t # cmd.task
  BY WorkAssumption DEF CInv, OrderInv, Tasks
<1>4. OrderInv'
  BY <1>1, <1>2, <1>3 DEF CInv, OrderInv, Working, Passed
<1>5. CleanInv'
  BY <1>1 DEF CleanInv, CInv, Saving
<1>. QED  BY <1>4, <1>5

\* After its save, written or not, a task that passed is committed or followed by the next one.
LEMMA AfterSaveOrder ==
    ASSUME CInv, AfterSave, cmd.at \in Saving, touched' = touched,
           cmd.kind = "plan" /\ cmd.next = "DONE" =>
               /\ doc'[cmd.task] = "DONE" \/ cmd.task \in unsaved'
               /\ \A t \in Tasks : t # cmd.task /\ Passed(t) => Passed(t)'
    PROVE  OrderInv' /\ CleanInv'
<1>1. CmdInv
  BY DEF CInv, IInv
<1>2. CASE cmd.kind # "plan" \/ cmd.next # "DONE"
  <2>1. cmd' = Idle
    BY <1>2 DEF AfterSave
  <2>. QED  BY <2>1 DEF Idle, OrderInv, CleanInv, Saving
<1>3. CASE cmd.kind = "plan" /\ cmd.next = "DONE"
  <2>1. cmd.task \in Tasks /\ (\A t \in 1..(cmd.task - 1) : Passed(t)) /\ "own" \notin touched'
    BY <1>3 DEF CInv, OrderInv, CleanInv, Working, Saving
  <2>2. \A t \in 1..cmd.task : t \in Tasks /\ (t = cmd.task \/ (t # cmd.task /\ t \in 1..(cmd.task - 1)))
    BY <2>1, WorkAssumption DEF Tasks
  <2>3. \A t \in 1..cmd.task : Passed(t)'
    <3> TAKE t \in 1..cmd.task
    <3>1. CASE t = cmd.task
      BY <1>3, <3>1 DEF Passed
    <3>2. CASE t # cmd.task
      BY <1>3, <2>1, <2>2, <3>2 DEF Passed
    <3>. QED  BY <3>1, <3>2
  <2>4. CASE cmd.commits
    <3>1. cmd'.kind = "plan" /\ cmd'.task = cmd.task /\ cmd'.at = "commit"
      BY <1>1, <1>3, <2>4 DEF AfterSave, CmdInv
    <3>. QED  BY <2>1, <2>3, <3>1 DEF OrderInv, CleanInv, Working, Passed
  <2>5. CASE ~cmd.commits /\ cmd.task = N
    <3>1. cmd' = Idle
      BY <1>3, <2>5 DEF AfterSave, NextTask
    <3>. QED  BY <3>1 DEF Idle, OrderInv, CleanInv, Saving
  <2>6. CASE ~cmd.commits /\ cmd.task # N
    <3>1. cmd'.kind = "plan" /\ cmd'.task = cmd.task + 1 /\ cmd'.at = "execute"
      BY <1>1, <1>3, <2>6 DEF AfterSave, NextTask, CmdInv
    <3>2. cmd.task + 1 \in Tasks /\ (cmd.task + 1) - 1 = cmd.task
      BY <2>1, <2>6, WorkAssumption DEF Tasks
    <3>. QED  BY <2>3, <3>1, <3>2 DEF OrderInv, CleanInv, Working, Saving, Passed
  <2>. QED  BY <2>4, <2>5, <2>6
<1>. QED  BY <1>2, <1>3

LEMMA SaveOrder ==
    ASSUME CInv, Write \/ SaveFails
    PROVE  OrderInv' /\ CleanInv'
<1>1. AfterSave /\ cmd.at \in Saving /\ touched' = touched
  BY DEF Write, SaveFails, ghosts, Saving
<1>2. CASE Write
  <2>1. UNCHANGED unsaved /\ \A t \in Tasks : doc'[t] = IF t = cmd.task THEN cmd.next ELSE doc[t]
    BY <1>2 DEF Write, ghosts, CInv, IInv
  <2>2. cmd.kind = "plan" => cmd.task \in Tasks
    BY DEF CInv, OrderInv
  <2>3. cmd.kind = "plan" /\ cmd.next = "DONE" => doc'[cmd.task] = "DONE"
    BY <2>1, <2>2
  <2>4. cmd.kind = "plan" /\ cmd.next = "DONE" =>
          /\ doc'[cmd.task] = "DONE" \/ cmd.task \in unsaved'
          /\ \A t \in Tasks : t # cmd.task /\ Passed(t) => Passed(t)'
    BY <2>1, <2>3 DEF Passed
  <2>. QED  BY <1>1, <2>4, AfterSaveOrder
<1>3. CASE SaveFails
  <2>1. doc' = doc /\ unsaved' = unsaved \cup {cmd.task}
    BY <1>3 DEF SaveFails
  <2>2. /\ doc'[cmd.task] = "DONE" \/ cmd.task \in unsaved'
        /\ \A t \in Tasks : t # cmd.task /\ Passed(t) => Passed(t)'
    BY <2>1 DEF Passed
  <2>. QED  BY <1>1, <2>2, AfterSaveOrder
<1>. QED  BY <1>2, <1>3

LEMMA CheckpointOrder ==
    ASSUME CInv, Checkpoint
    PROVE  OrderInv' /\ CleanInv'
<1>1. UNCHANGED <<doc, touched, unsaved>> /\ CmdInv /\ cmd.at = "commit"
  BY DEF Checkpoint, ghosts, CInv, IInv
<1>2. CASE cmd.task = N
  <2>1. cmd' = Idle
    BY <1>2 DEF Checkpoint, NextTask
  <2>. QED  BY <2>1 DEF Idle, OrderInv, CleanInv, Saving
<1>3. CASE cmd.task # N
  <2>1. cmd'.kind = cmd.kind /\ cmd'.task = cmd.task + 1 /\ cmd'.at = "execute"
    BY <1>1, <1>3 DEF Checkpoint, NextTask, CmdInv
  <2>2. cmd.kind = "plan" => cmd.task + 1 \in Tasks /\ (cmd.task + 1) - 1 = cmd.task
    BY <1>3, WorkAssumption DEF OrderInv, CInv, Tasks
  <2>. QED  BY <1>1, <2>1, <2>2 DEF OrderInv, CleanInv, CInv, Working, Saving, Passed
<1>. QED  BY <1>2, <1>3

LEMMA OtherOrder ==
    ASSUME CInv, Status \/ Revert \/ RevertFails \/ Crash \/ (\E t \in Tasks : Stray(t))
    PROVE  OrderInv' /\ CleanInv'
<1>1. UNCHANGED <<doc, unsaved>> /\ CmdInv
  BY DEF Status, Revert, RevertFails, Crash, Stray, ghosts, CInv, IInv
<1>2. CASE Status \/ Revert \/ RevertFails
  <2>1. cmd.kind = "rollback"
    BY <1>1, <1>2 DEF Status, Revert, RevertFails, CmdInv
  <2>2. cmd' = Idle \/ (cmd'.kind = "rollback" /\ cmd'.at \in {"revert", "truncate"})
    BY <1>1, <1>2, <2>1 DEF Status, Revert, RevertFails, End, Goto, CmdInv
  <2>. QED  BY <2>2 DEF Idle, OrderInv, CleanInv, Saving
<1>3. CASE Crash
  <2>1. cmd' = Idle
    BY <1>3 DEF Crash, End
  <2>. QED  BY <2>1 DEF Idle, OrderInv, CleanInv, Saving
<1>4. CASE \E t \in Tasks : Stray(t)
  <2>1. UNCHANGED cmd /\ touched' \in {touched, touched \cup {"stray"}}
    BY <1>4 DEF Stray, Change
  <2>. QED  BY <1>1, <2>1 DEF OrderInv, CleanInv, CInv, Passed
<1>. QED  BY <1>2, <1>3, <1>4

\* All three hold at the start, and every step keeps them.
LEMMA CInit == Init => CInv
BY InitIInv DEF Init, CInv, OrderInv, CleanInv, Idle, Saving

LEMMA CStep == CInv /\ [Next]_vars => CInv'
<1> SUFFICES ASSUME CInv, [Next]_vars PROVE CInv'
  OBVIOUS
<1>1. IInv'
  BY StepKeeps DEF CInv
<1>2. OrderInv' /\ CleanInv'
  <2>1. CASE UNCHANGED vars
    BY <2>1 DEF vars, ghosts, CInv, OrderInv, CleanInv, Passed
  <2>2. CASE Next
    BY <2>2, StartOrder, ExecuteOrder, CommandsPassOrder, VerdictOrder, TruncateOrder, SaveOrder,
       CheckpointOrder, OtherOrder DEF Next, Step
  <2>. QED  BY <2>1, <2>2
<1>. QED  BY <1>1, <1>2 DEF CInv

\* No run of a plan commits what its executor wrote after the commands passed last, and it commits a
\* task only when each task up to it is DONE in its file or could not be saved by this very run
\* (orchestrator.rs: run_plan).
THEOREM CheckpointCorrect == Spec => CheckpointStands
<1>1. CInv /\ [Next]_vars => [(cmd.kind = "plan" /\ log' # log) =>
                                 /\ "own" \notin touched
                                 /\ \A t \in 1..cmd.task : doc[t] = "DONE" \/ t \in unsaved]_vars
  <2> SUFFICES ASSUME CInv, [Next]_vars, cmd.kind = "plan", log' # log
               PROVE  /\ "own" \notin touched
                      /\ \A t \in 1..cmd.task : doc[t] = "DONE" \/ t \in unsaved
    OBVIOUS
  <2>1. Checkpoint \/ Revert
    BY DEF Next, Step, vars, repo, Starts, RunPlan, VerifyTask, PlanRollback, ExecutorWrites, Execute,
       CommandsPass, CommandsFail, Judge, Truncate, Write, SaveFails, Status, RevertFails, Stray, Crash
  <2>2. cmd.at = "commit"
    BY <2>1 DEF Checkpoint, Revert, CInv, IInv, CmdInv
  <2>. QED  BY <2>2 DEF CInv, OrderInv, CleanInv, Passed
<1>. QED  BY <1>1, CInit, CStep, PTL DEF Spec, CheckpointStands

-----------------------------------------------------------------------------
(* Types.  A task is at hand while a command runs, the one that is checked *)
(* again has a successor, and no attempt exceeds the retries.              *)

Commits == [mark : Tasks, adds : SUBSET Tasks, dels : SUBSET Tasks]

CmdTyped ==
    /\ cmd.task \in 0..N /\ cmd.tries \in 0..Retries + 1 /\ cmd.next \in DocStates
    /\ cmd.at # "idle" => cmd.task \in Tasks
    /\ cmd.at = "execute" => cmd.tries <= Retries
    /\ cmd.at \in {"recheck", "rejudge"} => cmd.tries = 0 /\ cmd.task + 1 \in Tasks

RepoTyped ==
    /\ doc \in [Tasks -> DocStates]
    /\ head \subseteq Tasks /\ edited \subseteq Tasks /\ added \subseteq Tasks /\ gone \subseteq head
    /\ meta \in [place : Places, dirty : BOOLEAN, ledger : BOOLEAN]
    /\ log \in Seq(Commits)
    /\ strays \subseteq Tasks /\ torn \subseteq Tasks /\ unsaved \subseteq Tasks
    /\ touched \subseteq {"own", "stray"}

\* A retry counts up to the cap, where the task is given up.
LEMMA TryAgainTyped ==
    ASSUME CmdInv, CmdTyped, cmd.at # "idle", NEW n \in 0..Retries + 1, TryAgain(n)
    PROVE  CmdTyped'
<1> USE WorkAssumption DEF CmdTyped, DocStates
<1>1. cmd.task \in Tasks /\ cmd.task \in 0..N
  OBVIOUS
<1>2. CASE n > Retries
  BY <1>1, <1>2 DEF TryAgain, CmdInv
<1>3. CASE ~(n > Retries)
  BY <1>1, <1>3 DEF TryAgain, CmdInv
<1>. QED  BY <1>2, <1>3

\* A verdict leads to the next task, to another attempt or to the document.
LEMMA VerdictTyped ==
    ASSUME CmdInv, CmdTyped, NEW done \in BOOLEAN, Verdict(done),
           cmd.at \in {"recheck", "rejudge", "commands", "judge"}
    PROVE  CmdTyped'
<1> USE WorkAssumption DEF CmdTyped, DocStates
<1>1. CASE cmd.at \in {"recheck", "rejudge"} /\ done
  <2>1. cmd' = [cmd EXCEPT !.at = "execute", !.task = @ + 1]
    BY <1>1 DEF Verdict
  <2>2. cmd' = [kind |-> cmd.kind, at |-> "execute", task |-> cmd.task + 1,
                tries |-> cmd.tries, next |-> cmd.next, commits |-> cmd.commits]
    BY <2>1 DEF CmdInv
  <2>. QED  BY <1>1, <2>2 DEF Tasks
<1>2. CASE cmd.at \in {"recheck", "rejudge"} /\ ~done
  BY <1>2 DEF Verdict, Idle
<1>3. CASE cmd.at \notin {"recheck", "rejudge"}
  <2>1. CASE TryAgain(cmd.tries)
    BY <2>1, TryAgainTyped
  <2>2. CASE \E q \in {"DONE", "REWORK"} : cmd' = [cmd EXCEPT !.at = "truncate", !.next = q]
    BY <2>2 DEF CmdInv
  <2>3. cmd.kind \in {"plan", "verify"}
    BY <1>3 DEF CmdInv, Verdicts
  <2>. QED  BY <1>3, <2>1, <2>2, <2>3 DEF Verdict
<1>. QED  BY <1>1, <1>2, <1>3

LEMMA CmdTypedStep ==
    ASSUME IInv, CmdTyped, [Next]_vars
    PROVE  CmdTyped'
<1> USE WorkAssumption DEF IInv
<1>i. Idle.task = 0 /\ Idle.tries = 0 /\ Idle.next = "PENDING" /\ Idle.at = "idle"
  BY DEF Idle
<1>n. cmd' = Idle => CmdTyped'
  BY <1>i DEF CmdTyped, DocStates
<1>1. ASSUME NEW c \in BOOLEAN, RunPlan(c) PROVE CmdTyped'
  <2>1. PICK start \in Open :
          cmd' = [Idle EXCEPT !.kind = "plan", !.commits = c,
                              !.at = IF start > 1 THEN "recheck" ELSE "execute",
                              !.task = IF start > 1 THEN start - 1 ELSE start]
    BY <1>1 DEF RunPlan
  <2>2. start \in 1..N
    BY DEF Open, Tasks
  <2>3. /\ cmd'.at = (IF start > 1 THEN "recheck" ELSE "execute") /\ cmd'.tries = 0
        /\ cmd'.task = (IF start > 1 THEN start - 1 ELSE start) /\ cmd'.next = "PENDING"
    BY <2>1 DEF Idle
  <2>. QED  BY <2>2, <2>3 DEF CmdTyped, DocStates, Tasks
<1>2. ASSUME NEW t \in Tasks, VerifyTask(t) \/ PlanRollback(t) PROVE CmdTyped'
  <2>1. cmd'.at \in {"commands", "status"} /\ cmd'.tries = 0 /\ cmd'.task = t /\ cmd'.next = "PENDING"
    BY <1>2 DEF VerifyTask, PlanRollback, Idle
  <2>. QED  BY <2>1 DEF CmdTyped, DocStates, Tasks
<1>3a. CASE ExecutorWrites
  BY <1>3a DEF ExecutorWrites, CmdTyped
<1>3. CASE Execute
  <2>1. cmd.at = "execute" /\ cmd.tries \in 0..Retries /\ cmd.tries + 1 \in 0..Retries + 1
    BY <1>3 DEF Execute, At, CmdTyped
  <2>2. CASE Gives
    BY <2>1, <2>2 DEF Gives, CmdInv, CmdTyped
  <2>3. CASE Fails \/ Overruns(cmd.task)
    BY <2>1, <2>3, TryAgainTyped DEF Fails, Overruns
  <2>. QED  BY <1>3, <2>2, <2>3 DEF Execute
<1>4. CASE CommandsPass
  BY <1>4 DEF CommandsPass, Verifying, At, Goto, CmdInv, CmdTyped
<1>5. CASE CommandsFail
  BY <1>5, VerdictTyped DEF CommandsFail, Verifying, At
<1>6. CASE Judge
  BY <1>6, VerdictTyped DEF Judge
<1>7. CASE Truncate \/ (Status /\ ~Dirty)
  BY <1>7 DEF Truncate, Status, Goto, CmdInv, CmdTyped
<1>8. cmd.at \in Saving \cup {"commit"} /\ cmd' = NextTask => CmdTyped'
  <2> SUFFICES ASSUME cmd.at \in Saving \cup {"commit"}, cmd' = NextTask, cmd.task # N PROVE CmdTyped'
    BY <1>n DEF NextTask
  <2>1. cmd' = [kind |-> cmd.kind, at |-> "execute", task |-> cmd.task + 1,
                tries |-> 0, next |-> cmd.next, commits |-> cmd.commits]
    BY DEF NextTask, CmdInv
  <2>2. cmd.task + 1 \in 1..N
    BY DEF CmdTyped, Tasks, Saving
  <2>. QED  BY <2>1, <2>2 DEF CmdTyped, Tasks
<1>9. CASE Write \/ SaveFails
  <2>1. AfterSave /\ cmd.at \in Saving
    BY <1>9 DEF Write, SaveFails, Saving
  <2>2. CASE cmd' = [cmd EXCEPT !.at = "commit"]
    BY <2>1, <2>2 DEF Saving, CmdInv, CmdTyped
  <2>. QED  BY <1>n, <1>8, <2>1, <2>2 DEF AfterSave
<1>10. CASE Checkpoint
  BY <1>10, <1>8 DEF Checkpoint
<1>11. CASE Revert
  BY <1>11 DEF Revert, CmdInv, CmdTyped, DocStates
<1>12. CASE (Status /\ Dirty) \/ RevertFails \/ Crash
  BY <1>12, <1>n DEF Status, RevertFails, Crash, End
<1>13. CASE (\E t \in Tasks : Stray(t)) \/ UNCHANGED vars
  BY <1>13 DEF Stray, vars, CmdTyped
<1>. QED  BY <1>1, <1>2, <1>3a, <1>3, <1>4, <1>5, <1>6, <1>7, <1>9, <1>10, <1>11, <1>12, <1>13 DEF Next, Step

\* The order of the naturals is well-founded.
LEMMA NatOrder ==
    \E R : IsWellFoundedOn(R, Nat) /\ \A m, n \in Nat : <<m, n>> \in R <=> m < n
<1>1. \A m, n \in Nat : <<m, n>> \in OpToRel(<, Nat) <=> m < n
  BY Zenon DEF OpToRel
<1>. QED  BY <1>1, NatLessThanWellFounded, Zenon

\* A set of positions that is not empty holds its maximum.
LEMMA MaxIn ==
    ASSUME NEW L \in Nat, NEW S, S \subseteq 1..L, S # {}
    PROVE  Max(S) \in S
<1> DEFINE D == {L - x : x \in S}
<1>1. PICK R : IsWellFoundedOn(R, Nat) /\ \A m, n \in Nat : <<m, n>> \in R <=> m < n
  BY NatOrder
<1>2. IsWellFoundedOn(R, Nat) /\ D \subseteq Nat /\ D # {}
  <2>1. D \subseteq Nat
    OBVIOUS
  <2>2. PICK x \in S : TRUE
    OBVIOUS
  <2>3. L - x \in D
    BY <2>2
  <2>. QED  BY <1>1, <2>1, <2>3
<1>3. PICK d \in D : \A e \in D : ~ (<<e, d>> \in R)
  <2> HIDE DEF D
  <2>. QED  BY <1>2, WFMin
<1>4. PICK x \in S : d = L - x
  OBVIOUS
<1>5. \A y \in S : x >= y
  <2> TAKE y \in S
  <2>1. L - y \in D /\ L - y \in Nat /\ d \in Nat
    BY <1>2
  <2>2. ~(L - y < d)
    BY <1>1, <1>3, <2>1
  <2>. QED  BY <1>4, <2>1, <2>2
<1>. QED  BY <1>5 DEF Max

LEMMA RepoTypedStep ==
    ASSUME IInv, CmdTyped, RepoTyped, [Next]_vars
    PROVE  RepoTyped'
<1> USE WorkAssumption DEF RepoTyped
<1>l. Logged \in [place : Places, dirty : BOOLEAN, ledger : BOOLEAN]
  BY DEF Logged
<1>1. CASE (\E c \in BOOLEAN : RunPlan(c)) \/ (\E t \in Tasks : VerifyTask(t) \/ PlanRollback(t))
  BY <1>1 DEF RunPlan, VerifyTask, PlanRollback, Starts, repo, files
<1>tree. Tree \subseteq Tasks
  BY DEF Tree
<1>2. ASSUME NEW t \in Tasks, NEW who \in {"own", "stray"}, Change(t, who)
      PROVE  /\ head' = head /\ edited' \subseteq Tasks /\ added' \subseteq Tasks /\ gone' \subseteq head
             /\ torn' \subseteq Tasks /\ touched' \subseteq {"own", "stray"}
  <2>1. CASE Makes(t)
    BY <1>2, <2>1 DEF Change, Makes
  <2>2. ASSUME NEW p \in Tree, Takes(p)
        PROVE  edited' \subseteq Tasks /\ added' \subseteq Tasks /\ gone' \subseteq head /\ torn' \subseteq Tasks
    BY <1>tree, <2>2 DEF Takes
  <2>. QED  BY <1>2, <2>1, <2>2 DEF Change
<1>3. CASE \E t \in Tasks : Stray(t)
  <2>1. PICK t \in Tasks : Stray(t)
    BY <1>3
  <2>2. UNCHANGED <<doc, meta, log, unsaved>> /\ strays' \subseteq strays
    BY <2>1 DEF Stray
  <2>3. CASE Change(t, "stray")
    BY <1>2, <2>2, <2>3
  <2>4. CASE UNCHANGED <<files, touched, torn>>
    BY <2>2, <2>4 DEF files
  <2>. QED  BY <2>1, <2>3, <2>4 DEF Stray
<1>4a. CASE ExecutorWrites
  <2>1. cmd.task \in Tasks /\ UNCHANGED <<doc, meta, log, strays, unsaved>> /\ Change(cmd.task, "own")
    BY <1>4a DEF ExecutorWrites, At, CmdTyped
  <2>2. /\ head' = head /\ edited' \subseteq Tasks /\ added' \subseteq Tasks /\ gone' \subseteq head
        /\ torn' \subseteq Tasks /\ touched' \subseteq {"own", "stray"}
    BY <1>2, <2>1
  <2>. QED  BY <2>1, <2>2
<1>4. CASE Execute
  <2>1. cmd.task \in Tasks /\ UNCHANGED <<doc, head, edited, added, gone, log, touched, torn, unsaved>>
    BY <1>4 DEF Execute, At, CmdTyped, files, ghosts
  <2>2. meta' \in {meta, Logged} /\ (strays' = strays \/ strays' = strays \cup {cmd.task})
    BY <1>4 DEF Execute, Gives, Fails, Overruns
  <2>. QED  BY <1>l, <2>1, <2>2
<1>5. CASE CommandsPass \/ RevertFails
  BY <1>5 DEF CommandsPass, RevertFails, repo, files, ghosts
<1>6. CASE CommandsFail \/ Judge
  <2>1. UNCHANGED <<doc, files, log, strays, ghosts>>
    BY <1>6 DEF CommandsFail, Judge
  <2>2. meta' \in {meta, Logged}
    BY <1>6 DEF CommandsFail, Judge, Verdict
  <2>. QED  BY <1>l, <2>1, <2>2 DEF files, ghosts
<1>7. CASE Truncate
  <2>1. Saved \in [place : Places, dirty : BOOLEAN, ledger : BOOLEAN]
    BY DEF Saved
  <2>. QED  BY <1>7, <2>1 DEF Truncate, files, ghosts, DocStates
<1>8. CASE Write
  <2>1. doc' \in [Tasks -> DocStates]
    BY <1>8 DEF Write, CmdTyped
  <2>. QED  BY <1>8, <2>1 DEF Write, repo, files, ghosts
<1>not. cmd.at \in {"truncate", "write"} => cmd.task \in Tasks
  BY DEF CmdTyped
<1>8a. CASE SaveFails
  <2>1. UNCHANGED <<doc, head, edited, added, gone, meta, log, strays, touched>> /\ unsaved' = unsaved \cup {cmd.task}
        /\ cmd.task \in Tasks
    BY <1>8a, <1>not DEF SaveFails, repo, files
  <2>2. torn' \subseteq Tasks
    BY <1>8a, <2>1 DEF SaveFails, NotReset
  <2>. QED  BY <2>1, <2>2
<1>c. ASSUME NEW mark \in Tasks, NEW adds \in SUBSET Tasks, NEW dels \in SUBSET Tasks
      PROVE  Commit(mark, adds, dels) \in Seq(Commits)
  BY DEF Commit, Commits
<1>9. CASE Checkpoint
  <2>1. cmd.task \in Tasks
    BY <1>9 DEF Checkpoint, CmdTyped
  <2>2. log' = log \/ log' = Commit(cmd.task, Tree \ head, head \ Tree)
    BY <1>9 DEF Checkpoint
  <2>3. log' \in Seq(Commits)
    BY <1>c, <1>tree, <2>1, <2>2
  <2>4. head' \subseteq Tasks /\ edited' \subseteq Tasks /\ added' \subseteq Tasks /\ gone' \subseteq head'
    BY <1>9, <1>tree DEF Checkpoint, files
  <2>. QED  BY <1>9, <2>3, <2>4 DEF Checkpoint, ghosts
<1>10. CASE Status
  <2>1. Tidied \in [place : Places, dirty : BOOLEAN, ledger : BOOLEAN]
    BY DEF Tidied, Places
  <2>. QED  BY <1>10, <2>1 DEF Status, files, ghosts
<1>11. CASE Revert
  <2> DEFINE S == Marked(cmd.task)
             c == log[Max(S)]
  <2>1. Len(log) \in Nat /\ S \subseteq 1..Len(log) /\ S # {} /\ cmd.task \in Tasks
    BY <1>11 DEF Revert, Marked, CmdTyped
  <2>2. Max(S) \in 1..Len(log)
    BY <2>1, MaxIn
  <2>3. c.adds \in SUBSET Tasks /\ c.dels \in SUBSET Tasks
    <3>1. c \in Commits
      BY <2>2
    <3>. QED  BY <3>1 DEF Commits
  <2>4. /\ head' = (head \ c.adds) \cup c.dels /\ torn' = (torn \ c.dels) \cup (c.adds \ {cmd.task})
        /\ c.adds \cap gone = {}
        /\ log' = Commit(cmd.task, c.dels, c.adds)
        /\ UNCHANGED <<doc, edited, added, gone, meta, strays, touched, unsaved>>
    BY <1>11 DEF Revert
  <2> HIDE DEF c
  <2>5. log' \in Seq(Commits)
    BY <1>c, <2>1, <2>3, <2>4
  <2>. QED  BY <2>3, <2>4, <2>5
<1>12. CASE Crash
  <2>1. UNCHANGED <<doc, head, edited, added, gone, meta, log, touched, unsaved>>
    BY <1>12 DEF Crash, repo, files
  <2>2. cmd.at = "execute" => cmd.task \in Tasks
    BY DEF CmdTyped
  <2>3. torn' \subseteq Tasks
    BY <1>12, <1>not DEF Crash, NotReset
  <2>. QED  BY <1>12, <2>1, <2>2, <2>3 DEF Crash
<1>13. CASE UNCHANGED vars
  BY <1>13 DEF vars, repo, files, ghosts
<1>. QED  BY <1>1, <1>3, <1>4a, <1>4, <1>5, <1>6, <1>7, <1>8, <1>8a, <1>9, <1>10, <1>11, <1>12, <1>13 DEF Next, Step

\* Every variable keeps its type, and no task is tried more often than the retries allow
\* (orchestrator.rs: the loop over attempts).
THEOREM TypeCorrect == Spec => []TypeOK
<1> DEFINE Inv == IInv /\ CmdTyped /\ RepoTyped
<1>1. Init => Inv
  <2>1. Init => CmdTyped
    BY WorkAssumption DEF Init, CmdTyped, Idle, DocStates
  <2>2. Init => RepoTyped
    <3> SUFFICES ASSUME Init PROVE RepoTyped
      OBVIOUS
    <3>1. doc \in [Tasks -> DocStates]
      BY DEF Init, DocStates
    <3>2. meta \in [place : Places, dirty : BOOLEAN, ledger : BOOLEAN]
      BY DEF Init
    <3>3. log \in Seq(Commits)
      BY DEF Init
    <3>. QED  BY <3>1, <3>2, <3>3 DEF Init, RepoTyped
  <2>. QED  BY <2>1, <2>2, InitIInv
<1>2. Inv /\ [Next]_vars => Inv'
  BY StepKeeps, CmdTypedStep, RepoTypedStep
<1>3. Inv => TypeOK
  <2>1. log \in Seq(Commits) => \A i \in DOMAIN log : log[i] \in Commits
    OBVIOUS
  <2>. QED  BY <2>1 DEF CmdTyped, RepoTyped, TypeOK, Commits
<1>. QED  BY <1>1, <1>2, <1>3, PTL DEF Spec
=============================================================================
