------------------------------- MODULE WorkRun -------------------------------
(***************************************************************************)
(* Verification work runs: `run-plan`, `plan-rollback` and `verify-task`   *)
(* (verify/orchestrator.rs, verify/runner.rs, verify/task.rs, main.rs).    *)
(*                                                                         *)
(* A plan is a sequence of task documents.  A task is executed by a        *)
(* subprocess, verified by commands and by `git diff HEAD`, its document   *)
(* is saved and its changes are committed.  Nothing but the documents and  *)
(* the repository outlives a command.  A command may be killed between any *)
(* two steps, and a document may not be written.                           *)
(*                                                                         *)
(* The repository is seen through products: what the executor of task t    *)
(* makes is t.  A product is in HEAD, in modified or staged files          *)
(* (`edited`), or in new files git does not follow (`added`); one in HEAD  *)
(* may be missing from the files (`gone`).  `git diff HEAD` shows what is  *)
(* edited or gone, not what is added.  An executor is any shell command:   *)
(* it makes its own product and may take away any other.  It is taken to   *)
(* leave the documents and git's own state alone.                          *)
(***************************************************************************)
EXTENDS Naturals, Sequences, FiniteSetsExt

CONSTANTS
    N,            \* number of tasks
    Strict,       \* tasks with require_diff, the default
    Weak,         \* tasks whose commands pass without the product as well
    Retries,      \* executor_retries
    MaxCommands,  \* bound: commands the user starts
    MaxFaults,    \* bound: commands that are killed, documents that cannot be written
    MaxStrays     \* bound: executors that outlive their time limit

Tasks == 1..N

ASSUME WorkAssumption ==
    /\ N \in Nat \ {0} /\ Retries \in Nat
    /\ Strict \subseteq Tasks /\ Weak \subseteq Tasks
    /\ MaxCommands \in Nat /\ MaxFaults \in Nat /\ MaxStrays \in Nat

VARIABLES
    doc,      \* the state in each task's file; "BROKEN": cut off while it was written
    head,     \* products in HEAD
    edited,   \* products, or changes to them, in modified or staged files
    added,    \* products in files git does not follow
    gone,     \* products in HEAD that the files lack
    meta,     \* the plan's own files: their place, whether git sees them changed, and
              \* whether there is a ledger yet
    log,      \* commits with a change of the sources, newest last
    cmd,      \* the command that runs
    strays,   \* tasks of which a timed-out executor still runs
    touched,  \* history: who wrote since commands passed last, the executor or a given-up one
    torn,     \* history: products lost with their documents left as they were, until made again
    unsaved,  \* history: tasks whose document the command could not write
    faults, commands, given   \* history: counters against the bounds

files == <<head, edited, added, gone>>
repo == <<files, meta, log>>
ghosts == <<touched, torn, unsaved>>
counts == <<faults, commands, given>>
vars == <<doc, repo, cmd, strays, ghosts, counts>>

DocStates == {"PENDING", "DONE", "REWORK", "ESCALATED", "BROKEN"}

(* Where the plan's files are: out of the repository, in its root and not  *)
(* followed, followed but for the ledger, or followed with the ledger.     *)
Places == {"outside", "loose", "docs", "kept"}

Tree == (head \ gone) \cup edited \cup added

Idle == [kind |-> "none", at |-> "idle", task |-> 0, tries |-> 0, next |-> "PENDING", commits |-> FALSE]
Goto(at) == cmd' = [cmd EXCEPT !.at = at]
At(kinds, at) == cmd.kind \in kinds /\ cmd.at = at
End == cmd' = Idle

(* A line of the ledger, a document, and all of them committed by rollback. *)
Logged == [meta EXCEPT !.ledger = TRUE, !.dirty = @ \/ meta.place = "kept"]
Saved == [meta EXCEPT !.dirty = @ \/ meta.place \in {"docs", "kept"}]
Tidied == IF meta.place = "outside" THEN meta
          ELSE [meta EXCEPT !.place = IF meta.ledger THEN "kept" ELSE "docs", !.dirty = FALSE]

Dirty == edited \cup added \cup gone # {}
DiffEmpty == edited \cup gone = {} /\ ~meta.dirty

Init ==
    /\ doc = [t \in Tasks |-> "PENDING"]
    /\ head = {} /\ edited = {} /\ added = {} /\ gone = {}
    /\ meta \in [place : Places \ {"kept"}, dirty : {FALSE}, ledger : {FALSE}]
    /\ log = <<>>
    /\ cmd = Idle
    /\ strays = {}
    /\ touched = {} /\ torn = {} /\ unsaved = {}
    /\ faults = 0 /\ commands = 0 /\ given = 0

-----------------------------------------------------------------------------
(* The commands.  PlanDoc::load reads every document of the plan and fails *)
(* on one that cannot be parsed; verify-task reads its own only.           *)

Starts ==
    /\ cmd = Idle /\ commands < MaxCommands
    /\ commands' = commands + 1
    /\ unsaved' = {}
    /\ UNCHANGED <<doc, repo, strays, touched, torn, faults, given>>

Loads == \A t \in Tasks : doc[t] # "BROKEN"

(* Seeded fault: a task that was given up is passed over.                  *)
OpenIsPending == {t \in Tasks : doc[t] = "PENDING"}

(* resume_index.                                                           *)
Open == {t \in Tasks : doc[t] # "DONE"}

(* From the first task that is not done; the task before it is verified    *)
(* once more.                                                              *)
RunPlan(commits) ==
    /\ Starts /\ Loads
    /\ \E start \in Open :
          /\ \A t \in 1..(start - 1) : t \notin Open
          /\ cmd' = [Idle EXCEPT !.kind = "plan", !.commits = commits,
                                 !.at = IF start > 1 THEN "recheck" ELSE "execute",
                                 !.task = IF start > 1 THEN start - 1 ELSE start]

VerifyTask(t) ==
    /\ Starts /\ doc[t] # "BROKEN"
    /\ cmd' = [Idle EXCEPT !.kind = "verify", !.at = "commands", !.task = t]

PlanRollback(t) ==
    /\ Starts /\ Loads
    /\ cmd' = [Idle EXCEPT !.kind = "rollback", !.at = "status", !.task = t]

-----------------------------------------------------------------------------
(* run-plan.                                                               *)

(* The executor of t makes its product: it edits files, adds some, or      *)
(* brings them to what HEAD has.                                           *)
Makes(t) ==
    /\ \/ edited' = edited \cup {t} /\ UNCHANGED added
       \/ t \notin head /\ added' = added \cup {t} /\ UNCHANGED edited
       \/ t \in head /\ edited' = edited \ {t} /\ UNCHANGED added
    /\ gone' = gone \ {t}
    /\ torn' = torn \ {t}

(* It removes a product, or writes over it.                                *)
Takes(p) ==
    /\ edited' = edited \ {p} /\ added' = added \ {p}
    /\ gone' = gone \cup ({p} \cap head)
    /\ torn' = torn \cup {p}

(* One write of the executor of t.                                         *)
Change(t, who) ==
    /\ Makes(t) \/ \E p \in Tree : Takes(p)
    /\ touched' = touched \cup {who}
    /\ UNCHANGED head

(* What follows an attempt that failed.                                    *)
TryAgain(tries) ==
    cmd' = IF tries > Retries
           THEN [cmd EXCEPT !.at = "truncate", !.next = "ESCALATED", !.tries = tries]
           ELSE [cmd EXCEPT !.at = "execute", !.tries = tries]

Gives ==
    /\ cmd' = [cmd EXCEPT !.at = "commands", !.tries = @ + 1]
    /\ UNCHANGED <<meta, strays, given>>

Fails ==
    /\ TryAgain(cmd.tries + 1)
    /\ meta' = IF cmd.tries + 1 > Retries THEN Logged ELSE meta
    /\ UNCHANGED <<strays, given>>

(* The future of the subprocess is dropped: its process goes on.           *)
Overruns(t) ==
    /\ given < MaxStrays
    /\ TryAgain(cmd.tries + 1)
    /\ meta' = IF cmd.tries + 1 > Retries THEN Logged ELSE meta
    /\ strays' = strays \cup {t} /\ given' = given + 1

ExecutorWrites ==
    /\ At({"plan"}, "execute")
    /\ Change(cmd.task, "own")
    /\ UNCHANGED <<doc, meta, log, cmd, strays, unsaved, counts>>

(* run_executor returns.                                                   *)
Execute ==
    /\ At({"plan"}, "execute")
    /\ Gives \/ Fails \/ Overruns(cmd.task)
    /\ UNCHANGED <<doc, files, log, ghosts, faults, commands>>

Verifying == At({"plan"}, "recheck") \/ At({"plan", "verify"}, "commands")

(* The verdict of run_task_verification on the task at hand, and what the  *)
(* caller makes of it.                                                     *)
Verdict(done) ==
    IF cmd.at \in {"recheck", "rejudge"}
    THEN /\ cmd' = IF done THEN [cmd EXCEPT !.at = "execute", !.task = @ + 1] ELSE Idle
         /\ UNCHANGED meta
    ELSE /\ meta' = Logged
         /\ CASE done -> cmd' = [cmd EXCEPT !.at = "truncate", !.next = "DONE"]
              [] ~done /\ cmd.kind = "verify" -> cmd' = [cmd EXCEPT !.at = "truncate", !.next = "REWORK"]
              [] ~done /\ cmd.kind = "plan" -> TryAgain(cmd.tries)

Passes(t) == t \in Tree \cup Weak

CommandsPass ==
    /\ Verifying /\ Passes(cmd.task)
    /\ touched' = {}
    /\ Goto(IF cmd.at = "recheck" THEN "rejudge" ELSE "judge")
    /\ UNCHANGED <<doc, repo, strays, torn, unsaved, counts>>

(* A command fails or runs out of time, also for reasons of its own.       *)
CommandsFail ==
    /\ Verifying
    /\ Verdict(FALSE)
    /\ UNCHANGED <<doc, files, log, strays, ghosts, counts>>

Refused(t) == t \in Strict /\ DiffEmpty

(* The diff may be refused, or not be read in time, for other reasons: its *)
(* size, and what it does to the tests.                                    *)
Judge ==
    /\ cmd.at \in {"judge", "rejudge"}
    /\ \/ ~Refused(cmd.task) /\ Verdict(TRUE)
       \/ Verdict(FALSE)
    /\ UNCHANGED <<doc, files, log, strays, ghosts, counts>>

-----------------------------------------------------------------------------
(* TaskDoc::save opens and empties the file and writes it; each may fail.  *)

Truncate ==
    /\ cmd.at = "truncate"
    /\ doc' = [doc EXCEPT ![cmd.task] = "BROKEN"]
    /\ meta' = Saved
    /\ Goto("write")
    /\ UNCHANGED <<files, log, strays, ghosts, counts>>

NextTask == IF cmd.task = N THEN Idle
            ELSE [cmd EXCEPT !.at = "execute", !.task = @ + 1, !.tries = 0]

(* A saved or unsaved DONE leads to the commit or the next task.           *)
AfterSave ==
    cmd' = IF cmd.kind # "plan" \/ cmd.next # "DONE" THEN Idle
           ELSE IF cmd.commits THEN [cmd EXCEPT !.at = "commit"] ELSE NextTask

Write ==
    /\ cmd.at = "write"
    /\ doc' = [doc EXCEPT ![cmd.task] = cmd.next]
    /\ AfterSave
    /\ UNCHANGED <<repo, strays, ghosts, counts>>

(* A rollback that ends before its save keeps the document of the product  *)
(* it took.                                                                *)
NotReset == IF cmd.kind = "rollback" /\ cmd.at = "truncate" THEN torn \cup ({cmd.task} \ Tree) ELSE torn

(* run-plan ignores the error and goes on; the other commands end with it. *)
SaveFails ==
    /\ cmd.at \in {"truncate", "write"} /\ faults < MaxFaults
    /\ faults' = faults + 1
    /\ unsaved' = unsaved \cup {cmd.task}
    /\ torn' = NotReset
    /\ AfterSave
    /\ UNCHANGED <<doc, repo, strays, touched, commands, given>>

Commit(mark, adds, dels) == Append(log, [mark |-> mark, adds |-> adds, dels |-> dels])

(* git add of everything but the plan's files, and git commit.  Errors of  *)
(* both are ignored: nothing may come of it, or new files are staged and   *)
(* not committed.                                                          *)
Checkpoint ==
    /\ cmd.at = "commit"
    /\ \/ UNCHANGED <<files, log>>
       \/ edited' = edited \cup added /\ added' = {} /\ UNCHANGED <<head, gone, log>>
       \/ /\ Dirty
          /\ head' = Tree /\ edited' = {} /\ added' = {} /\ gone' = {}
          /\ log' = Commit(cmd.task, Tree \ head, head \ Tree)
    /\ cmd' = NextTask
    /\ UNCHANGED <<doc, meta, strays, ghosts, counts>>

-----------------------------------------------------------------------------
(* plan-rollback.                                                          *)

(* The plan's own files are committed first; that too may fail unnoticed.  *)
Status ==
    /\ cmd.at = "status"
    /\ IF Dirty THEN End /\ UNCHANGED meta ELSE Goto("revert") /\ meta' \in {meta, Tidied}
    /\ UNCHANGED <<doc, files, log, strays, ghosts, counts>>

(* git log -n 1 --grep "task(t):".  The message of a revert quotes that of *)
(* the commit, and is found as well.                                       *)
Marked(t) == {i \in DOMAIN log : log[i].mark = t}

Applies(c) == c.adds \subseteq head /\ c.dels \cap head = {}

(* Seeded fault: the document keeps its state.                             *)
RevertOnly ==
    /\ cmd.at = "revert" /\ Marked(cmd.task) # {}
    /\ LET c == log[Max(Marked(cmd.task))] IN
       /\ Applies(c) /\ (c.adds \cup c.dels) \cap (edited \cup added \cup gone) = {}
       /\ head' = (head \ c.adds) \cup c.dels
       /\ log' = Commit(cmd.task, c.dels, c.adds)
       /\ torn' = (torn \ c.dels) \cup (c.adds \ {cmd.task})
    /\ End
    /\ UNCHANGED <<doc, edited, added, gone, meta, strays, touched, unsaved, counts>>

Revert ==
    /\ cmd.at = "revert" /\ Marked(cmd.task) # {}
    /\ LET c == log[Max(Marked(cmd.task))] IN
       /\ Applies(c) /\ (c.adds \cup c.dels) \cap (edited \cup added \cup gone) = {}
       /\ head' = (head \ c.adds) \cup c.dels
       /\ log' = Commit(cmd.task, c.dels, c.adds)
       /\ torn' = (torn \ c.dels) \cup (c.adds \ {cmd.task})
    /\ cmd' = [cmd EXCEPT !.at = "truncate", !.next = "PENDING"]
    /\ UNCHANGED <<doc, edited, added, gone, meta, strays, touched, unsaved, counts>>

(* No commit is found, or the revert conflicts with a later change and is  *)
(* taken back.                                                             *)
RevertFails ==
    /\ cmd.at = "revert"
    /\ LET found == Marked(cmd.task) IN
       found # {} => \/ Max(found) < Len(log)
                     \/ ~Applies(log[Max(found)])
                     \/ Dirty
    /\ End
    /\ UNCHANGED <<doc, repo, strays, ghosts, counts>>

-----------------------------------------------------------------------------
(* A given-up executor goes on: it writes, or ends.                        *)
Stray(t) ==
    /\ t \in strays
    /\ \/ Change(t, "stray") /\ UNCHANGED strays
       \/ strays' = strays \ {t} /\ UNCHANGED <<files, touched, torn>>
    /\ UNCHANGED <<doc, meta, log, cmd, unsaved, counts>>

(* The command is killed; the executor it waits for may survive it.        *)
Crash ==
    /\ cmd # Idle /\ faults < MaxFaults
    /\ faults' = faults + 1
    /\ End
    /\ \/ UNCHANGED <<strays, given>>
       \/ /\ cmd.at = "execute" /\ given < MaxStrays
          /\ strays' = strays \cup {cmd.task} /\ given' = given + 1
    /\ torn' = NotReset
    /\ UNCHANGED <<doc, repo, touched, unsaved, commands>>

Step == \/ ExecutorWrites \/ Execute \/ CommandsPass \/ CommandsFail \/ Judge
        \/ Truncate \/ Write \/ SaveFails \/ Checkpoint
        \/ Status \/ Revert \/ RevertFails

Next ==
    \/ \E commits \in BOOLEAN : RunPlan(commits)
    \/ \E t \in Tasks : VerifyTask(t) \/ PlanRollback(t) \/ Stray(t)
    \/ Step \/ Crash

Spec == Init /\ [][Next]_vars

-----------------------------------------------------------------------------
TypeOK ==
    /\ doc \in [Tasks -> DocStates]
    /\ head \subseteq Tasks /\ edited \subseteq Tasks /\ added \subseteq Tasks /\ gone \subseteq head
    /\ meta \in [place : Places, dirty : BOOLEAN, ledger : BOOLEAN]
    /\ \A i \in DOMAIN log : log[i] \in [mark : Tasks, adds : SUBSET Tasks, dels : SUBSET Tasks]
    /\ cmd.task \in 0..N /\ cmd.tries \in 0..Retries + 1
    /\ strays \subseteq Tasks /\ torn \subseteq Tasks /\ unsaved \subseteq Tasks
    /\ touched \subseteq {"own", "stray"}

(* A task whose file says DONE has its product in the workspace, over any  *)
(* sequence of runs, retries, rollbacks, kills and failed saves:           *)
(* resume_index skips it, and nobody makes the product again.  Three ways  *)
(* to lose one are exempt (`torn`): a rollback that is killed or cannot    *)
(* save the document after its revert; the revert of a commit that took up *)
(* the product of another task, whose own commit a kill, an error or       *)
(* --no-checkpoint left out; and an executor that takes it away, which is  *)
(* noticed only of the last task that is done.                             *)
DoneIsBacked ==
    \A t \in Tasks \ (Weak \cup torn) :
        doc[t] = "DONE" => t \in Tree \/ (cmd.kind = "rollback" /\ cmd.at = "truncate" /\ cmd.task = t)

(* No run commits what its own executor wrote after the commands passed    *)
(* last, over retries and tasks whose verification fails; and each task up *)
(* to the one committed is DONE in its file ("모두 시스템 검증 통과"),      *)
(* unless this very run could not save it, which it ignores.               *)
CheckpointStands ==
    [][(cmd.kind = "plan" /\ log' # log) =>
           /\ "own" \notin touched
           /\ \A t \in 1..cmd.task : doc[t] = "DONE" \/ t \in unsaved]_vars
=============================================================================
