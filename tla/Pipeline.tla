------------------------------ MODULE Pipeline ------------------------------
(***************************************************************************)
(* One task through the pipeline (harness/runner.rs): plan, goal loop or   *)
(* graph of nodes, verification with repairs, independent review, delivery *)
(* of the answer.                                                          *)
(*                                                                         *)
(* An agent run is one step here: its status is chosen among those of      *)
(* AgentLoop, and it may change the workspace.  The workspace is known by  *)
(* what was established about its present content (built, gated,           *)
(* approved), all of which a change undoes.  Counters of model iterations  *)
(* are abstracted to whether some are left.  Rounds, attempts and          *)
(* continuations are the code's own bounds.                                *)
(***************************************************************************)
EXTENDS Naturals

CONSTANTS
    Configs,            \* how a task may be bound: class, tools, engine, verification
    Reviewers,          \* how many review in turn: the committee, or one
    Nodes,              \* length of a graph plan
    MaxContinuations,
    LossyGoals          \* bindings under which a write of the goal row may fail: all, but for the size of a run

ConfigType ==
    [tools : BOOLEAN,   \* the profile has tools
     dev : BOOLEAN,     \* class Dev
     big : BOOLEAN,     \* class Dev or Advanced
     staged : BOOLEAN,  \* todos are asked for, the goal is kept in the database
     graph : BOOLEAN,   \* discipline graph
     plan : BOOLEAN,    \* a plan is made first
     policy : {"off", "auto", "strict"},
     given : BOOLEAN]   \* the profile names the verification command

ASSUME PipelineAssumption ==
    /\ Configs \subseteq ConfigType
    /\ \A c \in Configs : /\ c.dev => c.big
                          /\ c.graph => c.tools /\ c.big /\ ~c.staged
                          /\ c.staged => c.tools
    /\ Reviewers \in Nat \ {0} /\ Nodes \in Nat \ {0} /\ MaxContinuations \in Nat
    /\ LossyGoals \subseteq Configs

VARIABLES
    cfg,
    pc,
    cancelled,          \* the run's token
    status,             \* of the outcome; "error" is an Err
    changed,            \* committed_paths is not empty
    tracked,            \* change_tracking_complete
    open,               \* a delegated task failed and was not made good
    built,              \* the verification command, if there is one, passed on the present files
    gated,              \* the quality gate passed on them
    approved,           \* the reviewers that passed them
    left,               \* the tree has model iterations left
    own,                \* remaining_iteration_budget is not 0
    todos,              \* the todo list: empty, with items left, all completed
    same,               \* cycles in a row with the same progress: stale_rounds + 1
    continuations,
    architect,          \* fallback_budget
    node,               \* 0 without a graph plan, Nodes + 1 when every node is done
    attempt,            \* of the node, of the review
    round, qround,      \* of the command, of the quality gate
    back,               \* who called run_verify
    reviewer, requeried,
    goal,               \* status of the goal row
    stale,              \* history: the row does not say what it was last told
    delivered           \* the answer was published

fileVars == <<changed, tracked, open, built, gated, approved>>
budgetVars == <<left, own>>
loopVars == <<todos, same, continuations, architect>>
tryVars == <<node, attempt>>
checkVars == <<round, qround, back>>
reviewVars == <<reviewer, requeried>>
goalVars == <<goal, stale>>
vars == <<cfg, pc, cancelled, status, fileVars, budgetVars, loopVars, tryVars, checkVars,
          reviewVars, goalVars, delivered>>

Points == {"start", "plan", "answer", "loop", "judge", "node", "boundary", "finish", "command",
           "repair", "quality", "mend", "verified", "review", "resume", "next", "settle",
           "deliver", "ended"}
RunStatuses == {"ok", "limit", "incomplete", "denied", "cancelled", "error"}
Statuses == RunStatuses \cup {"none", "fail"}
Todos == {"none", "open", "done"}

TypeOK ==
    /\ cfg \in Configs /\ pc \in Points /\ cancelled \in BOOLEAN /\ status \in Statuses
    /\ changed \in BOOLEAN /\ tracked \in BOOLEAN /\ open \in BOOLEAN
    /\ built \in BOOLEAN /\ gated \in BOOLEAN
    /\ approved \subseteq 1 .. Reviewers
    /\ left \in BOOLEAN /\ own \in BOOLEAN
    /\ todos \in Todos /\ same \in 0 .. 3
    /\ continuations \in 0 .. MaxContinuations + 1 /\ architect \in BOOLEAN
    /\ node \in 0 .. Nodes + 1 /\ attempt \in 0 .. 1
    /\ round \in 0 .. 2 /\ qround \in 0 .. 2 /\ back \in {"first", "resume", "final"}
    /\ reviewer \in 1 .. Reviewers /\ requeried \in BOOLEAN
    /\ goal \in {"none", "active", "complete", "blocked", "failed"}
    /\ stale \in BOOLEAN /\ delivered \in BOOLEAN

Init ==
    /\ cfg \in Configs
    /\ pc = "start" /\ cancelled = FALSE /\ status = "none"
    /\ changed = FALSE /\ tracked = TRUE /\ open = FALSE
    /\ built = FALSE /\ gated = FALSE /\ approved = {}
    /\ left = TRUE /\ own = TRUE
    /\ todos = "none" /\ same = 0 /\ continuations = 0 /\ architect = TRUE
    /\ node = 0 /\ attempt = 0
    /\ round = 0 /\ qround = 0 /\ back = "first"
    /\ reviewer = 1 /\ requeried = FALSE
    /\ goal = "none" /\ stale = FALSE /\ delivered = FALSE

-----------------------------------------------------------------------------
(* An agent run, and the outcome *)

\* Files are written: what was established about them is void.
Write ==
    /\ tracked' \in {tracked, FALSE}
    /\ changed' \in {tracked', FALSE}
    /\ built' = FALSE /\ gated' = FALSE /\ approved' = {}

\* The changed files are read again; reading may fail, and without a complete record no change is
\* known.
Reread ==
    /\ UNCHANGED <<changed, tracked>> \/ (tracked' = FALSE /\ changed' = FALSE)
    /\ UNCHANGED <<built, gated, approved>>

\* Iterations are drawn, from the tree and for this outcome.
Draw ==
    /\ left' \in {left, FALSE}
    /\ own' \in {own, FALSE}

\* run_agent_with_context_deferred returns s, "error" for an Err; it may have written, delegated
\* and kept its todos before.  Without iterations it ends at once, and a cancelled run says so.
Agent(s) ==
    /\ s \in RunStatuses
    /\ cancelled => s \in {"cancelled", "error"}
    /\ s = "cancelled" => cancelled
    /\ \/ /\ left /\ own
          /\ Draw
          /\ open' \in BOOLEAN
          /\ Write \/ Reread
          /\ todos' \in IF node = 0 THEN Todos ELSE {todos}
       \/ /\ ~(left /\ own)
          /\ s \in {"limit", "cancelled", "error"}
          /\ Reread
          /\ UNCHANGED <<budgetVars, open, todos>>

\* The outcome leaves run_pipeline_inner.
Out(s) == status' = s /\ pc' = "deliver"

\* persist_goal_state: the row is written, or keeps what it said, when the messages, the database or
\* the statement fail; nobody is told.
SaveGoal(s) ==
    /\ goal' = s \/ (cfg \in LossyGoals /\ goal' = goal)
    /\ stale' = (goal' # s)

SaveStaged(s) == IF cfg.staged THEN SaveGoal(s) ELSE UNCHANGED goalVars

\* The goal row is written before an Err leaves.
FailGoal == SaveStaged("failed")

\* refresh_change_evidence on the files as they are now: success needs a complete record of the
\* changes, a change when the task is development, and no delegation left failed.
Evidence(s) ==
    IF ~tracked' \/ (s = "ok" /\ ((cfg.dev /\ ~changed') \/ open')) THEN "incomplete" ELSE s

\* Seeded fault: the goal is complete before verification.
EarlyGoalStatus(s, verified) ==
    CASE s = "ok" /\ todos # "open" -> "complete"
      [] s = "incomplete" -> "blocked"
      [] OTHER -> "failed"

\* goal_persist_status
GoalStatus(s, verified) ==
    CASE s = "ok" /\ ~verified -> "active"
      [] s = "ok" /\ verified /\ todos # "open" -> "complete"
      [] s = "incomplete" -> "blocked"
      [] OTHER -> "failed"

-----------------------------------------------------------------------------
(* Plan and answer without tools *)

\* What comes after the plan.
Begin(planned) ==
    /\ node' = IF planned THEN 1 ELSE 0
    /\ SaveStaged("active")
    /\ pc' = CASE ~cfg.tools -> "answer"
               [] cfg.tools /\ planned -> "node"
               [] OTHER -> "loop"

Start ==
    /\ pc = "start"
    /\ \/ cancelled /\ Out("cancelled") /\ UNCHANGED <<node, goalVars>>
       \/ ~cancelled /\ cfg.plan /\ pc' = "plan" /\ UNCHANGED <<status, node, goalVars>>
       \/ ~cancelled /\ ~cfg.plan /\ Begin(FALSE) /\ UNCHANGED status
    /\ UNCHANGED <<cfg, cancelled, fileVars, budgetVars, loopVars, attempt, checkVars, reviewVars,
                   delivered>>

\* A plan that fails, or holds no valid graph, is done without; a tree or a provider that is
\* spent ends the task.
Plan ==
    /\ pc = "plan"
    /\ left' \in {left, FALSE}
    /\ \/ left /\ cancelled /\ Out("cancelled") /\ UNCHANGED <<node, goalVars>>
       \/ Out("limit") /\ UNCHANGED <<node, goalVars>>
       \/ /\ left /\ ~cancelled
          /\ \E planned \in {FALSE, cfg.graph} : Begin(planned)
          /\ UNCHANGED status
    /\ UNCHANGED <<cfg, cancelled, fileVars, own, loopVars, attempt, checkVars, reviewVars,
                   delivered>>

\* The answer of a profile without tools.  It cannot count as development; one in which tool calls
\* leaked is done again by the development profile, if that has tools.
Answer ==
    /\ pc = "answer"
    /\ left' \in {left, FALSE}
    /\ \/ /\ \/ left /\ cancelled /\ Out("cancelled")
             \/ Out("limit")
             \/ left /\ \E s \in {"error", "incomplete"} : Out(s)
             \/ left /\ ~cancelled /\ Out(IF cfg.dev THEN "incomplete" ELSE "ok")
          /\ UNCHANGED <<cfg, own>>
       \/ /\ left /\ ~cancelled
          /\ cfg' \in {c \in Configs : c.dev /\ c.tools}
          /\ own' = TRUE /\ pc' = "start"
          /\ UNCHANGED status
    /\ UNCHANGED <<cancelled, fileVars, loopVars, node, attempt, checkVars, reviewVars, goalVars,
                   delivered>>
-----------------------------------------------------------------------------
(* The goal loop *)

\* stale_rounds, which nothing looks at beyond 2.
Again == IF same = 3 THEN 3 ELSE same + 1

\* One cycle: an agent run, and what became of the todos.  A cycle that ran into its own cap with
\* every todo done counts as ok.
Cycle ==
    /\ pc = "loop"
    /\ \E s \in RunStatuses :
        /\ Agent(s)
        /\ same' \in CASE same = 0 \/ todos' # todos -> {1}
                       [] same # 0 /\ todos' = "none" /\ todos = "none" -> {Again}
                       [] OTHER -> {1, Again}
        /\ \/ s = "error" /\ FailGoal /\ Out("error")
           \/ /\ s # "error"
              /\ status' \in IF s = "limit" /\ cfg.staged /\ todos' = "done" THEN {s, "ok"} ELSE {s}
              /\ pc' = "judge" /\ UNCHANGED goalVars
    /\ UNCHANGED <<cfg, cancelled, continuations, architect, tryVars, checkVars, reviewVars,
                   delivered>>

\* Only a task that ended ok or at its limit may go on.
Eligible == status \in {"ok", "limit"}

\* The task goes on: todos were asked for and none is there, or some are left and there is progress.
ShouldContinue ==
    /\ Eligible /\ left
    /\ \/ cfg.staged /\ todos = "none" /\ continuations = 0
       \/ todos = "open" /\ same < 3 /\ continuations < MaxContinuations

Continue ==
    /\ pc = "judge" /\ ShouldContinue
    /\ continuations' = continuations + 1
    /\ SaveGoal("active") /\ pc' = "loop"
    /\ UNCHANGED <<cfg, cancelled, status, fileVars, budgetVars, todos, same, architect, tryVars,
                   checkVars, reviewVars, delivered>>

\* The cycle loop ends with the outcome of the last cycle.  A staged task whose todos are not done,
\* or that shows no work, is incomplete.
Concluded ==
    LET s == IF /\ cfg.staged /\ Eligible
                /\ todos = "open" \/ (~changed /\ (todos = "none" \/ cfg.dev))
             THEN "incomplete" ELSE status
    IN /\ status' = s
       /\ SaveGoal(GoalStatus(s, FALSE))
       /\ pc' = "finish"

Conclude ==
    /\ pc = "judge" /\ ~ShouldContinue
    /\ Concluded
    /\ UNCHANGED <<cfg, cancelled, fileVars, budgetVars, loopVars, tryVars, checkVars, reviewVars,
                   delivered>>

\* Seeded fault: the architect's budget is not spent.
ConsultForEver ==
    /\ pc = "judge" /\ ~ShouldContinue /\ Eligible /\ left /\ architect /\ cfg.big /\ ~changed
    /\ left' \in {left, FALSE}
    /\ ~cancelled /\ pc' = "loop"
    /\ UNCHANGED <<cfg, cancelled, status, fileVars, own, loopVars, tryVars, checkVars, reviewVars,
                   goalVars, delivered>>

\* A big task answered with a refusal and no change: the architect is asked once.  The question may
\* find the tree or the provider spent, be cancelled, bring a judgment, or nothing.
Consult ==
    /\ pc = "judge" /\ ~ShouldContinue /\ Eligible /\ left /\ architect /\ cfg.big /\ ~changed
    /\ left' \in {left, FALSE}
    /\ \/ /\ status' = "limit" /\ own' \in {own, TRUE}
          /\ pc' = "finish" /\ UNCHANGED <<architect, goalVars>>
       \/ /\ cancelled
          /\ status' = "cancelled" /\ own' = TRUE
          /\ pc' = "finish" /\ UNCHANGED <<architect, goalVars>>
       \/ /\ ~cancelled
          /\ architect' = FALSE /\ pc' = "loop"
          /\ UNCHANGED <<status, own, goalVars>>
       \/ ~cancelled /\ Concluded /\ UNCHANGED <<own, architect>>
    /\ UNCHANGED <<cfg, cancelled, fileVars, todos, same, continuations, tryVars, checkVars,
                   reviewVars, delivered>>

-----------------------------------------------------------------------------
(* The graph of nodes, in topological order, each tried twice *)

\* The graph ends with status s; a cancelled outcome starts its count of iterations again.
EndGraph(s) == status' = s /\ pc' = "finish"

\* One attempt of a node.  A node is ok, also when it ran into its cap with its todos done.
Node ==
    /\ pc = "node"
    /\ \/ /\ cancelled /\ attempt = 0
          /\ EndGraph("cancelled") /\ own' = TRUE
          /\ UNCHANGED <<attempt, fileVars, left, todos>>
       \/ /\ ~(cancelled /\ attempt = 0) /\ ~own
          /\ EndGraph("incomplete")
          /\ UNCHANGED <<attempt, fileVars, budgetVars, todos>>
       \/ /\ ~(cancelled /\ attempt = 0) /\ own
          /\ \E s \in RunStatuses :
              /\ Agent(s)
              /\ \/ s = "error" /\ Out(s) /\ UNCHANGED attempt
                 \/ s = "cancelled" /\ EndGraph(s) /\ own' /\ UNCHANGED attempt
                 \/ s \in {"ok", "limit"} /\ status' = s /\ pc' = "boundary" /\ UNCHANGED attempt
                 \/ /\ s \in {"limit", "incomplete", "denied"}
                    /\ IF attempt = 0 THEN attempt' = 1 /\ status' = s /\ pc' = pc
                       ELSE EndGraph(s) /\ UNCHANGED attempt
    /\ UNCHANGED <<cfg, cancelled, same, continuations, architect, node, checkVars, reviewVars,
                   goalVars, delivered>>

\* graph_node_boundary_check: the files the run changed are checked before the next node; failing
\* twice stops the graph.
Boundary ==
    /\ pc = "boundary"
    /\ \/ /\ cancelled
          /\ EndGraph("cancelled") /\ own' = TRUE
          /\ UNCHANGED tryVars
       \/ ~cancelled /\ EndGraph("denied") /\ UNCHANGED <<own, tryVars>>
       \/ /\ ~cancelled /\ attempt = 0
          /\ attempt' = 1 /\ pc' = "node"
          /\ UNCHANGED <<status, own, node>>
       \/ /\ ~cancelled /\ attempt = 1
          /\ EndGraph(IF status = "ok" THEN "fail" ELSE status)
          /\ UNCHANGED <<own, tryVars>>
       \/ /\ ~cancelled
          /\ node' = node + 1 /\ attempt' = 0
          /\ IF node = Nodes THEN EndGraph("ok") ELSE pc' = "node" /\ UNCHANGED status
          /\ UNCHANGED own
    /\ UNCHANGED <<cfg, cancelled, fileVars, left, loopVars, checkVars, reviewVars, goalVars, delivered>>
-----------------------------------------------------------------------------
(* finish_verification: the command and the quality gate, with repairs *)

Checked == cfg.policy # "off"
Reviewed == cfg.policy = "strict" /\ cfg.big

RunVerify(caller) ==
    /\ pc' = "command" /\ back' = caller
    /\ round' = 0 /\ qround' = 0

\* The verification begins; the counters of the goal loop and the graph end with it.
Finish ==
    /\ pc = "finish"
    /\ Reread /\ UNCHANGED open
    /\ status' = Evidence(status)
    /\ IF Checked /\ status' # "incomplete"
       THEN RunVerify("first")
       ELSE pc' = "settle" /\ UNCHANGED checkVars
    /\ same' = 0 /\ continuations' = 0 /\ architect' = TRUE /\ attempt' = 0
    /\ UNCHANGED <<cfg, cancelled, budgetVars, todos, node, reviewVars, goalVars, delivered>>

\* run_verify returns with status s.
Return(s) == status' = s /\ pc' = "verified"

\* An Err of run_verify: the goal failed, except while a review repairs, which reports it itself.
VerifyErr ==
    IF back = "resume"
    THEN status' = "fail" /\ pc' = "next" /\ UNCHANGED goalVars
    ELSE FailGoal /\ Out("error")

\* Seeded fault: the final verification repairs too.
AlwaysRepair(tries) == tries < 2 /\ own

MayRepair(tries) == back # "final" /\ tries < 2 /\ own

\* What failed is repaired by another agent run, or is the result.
RepairAt(point, tries) ==
    IF MayRepair(tries) THEN pc' = point /\ UNCHANGED status ELSE Return("fail")

\* One round of the verification command: there may be nothing to verify, or no command for the
\* files; the user may refuse it and the safety rules may block it; asking may fail.  The command
\* itself is taken to leave the files as they are.
Command ==
    /\ pc = "command"
    /\ \/ /\ ~cfg.given /\ ~changed /\ round = 0
          /\ Return(status) /\ UNCHANGED <<built, goalVars>>
       \/ /\ ~cfg.given /\ changed /\ round = 0
          /\ built' = TRUE /\ pc' = "quality" /\ UNCHANGED <<status, goalVars>>
       \/ /\ cfg.given \/ changed \/ round > 0
          /\ \/ \E s \in {"denied", "fail"} : Return(s) /\ UNCHANGED <<built, goalVars>>
             \/ VerifyErr /\ UNCHANGED built
             \/ cancelled /\ Return("cancelled") /\ UNCHANGED <<built, goalVars>>
             \/ /\ ~cancelled
                /\ built' = TRUE
                /\ IF changed THEN pc' = "quality" /\ UNCHANGED status ELSE Return(status)
                /\ UNCHANGED goalVars
             \/ /\ ~cancelled
                /\ built' = FALSE
                /\ RepairAt("repair", round) /\ UNCHANGED goalVars
    /\ UNCHANGED <<cfg, cancelled, changed, tracked, open, gated, approved, budgetVars, loopVars,
                   tryVars, checkVars, reviewVars, delivered>>

\* The quality gate on the changed files.
Quality ==
    /\ pc = "quality"
    /\ \/ cancelled /\ Return("cancelled") /\ UNCHANGED gated
       \/ ~cancelled /\ gated' = TRUE /\ Return(status)
       \/ ~cancelled /\ gated' = FALSE /\ RepairAt("mend", qround)
    /\ UNCHANGED <<cfg, cancelled, changed, tracked, open, built, approved, budgetVars, loopVars,
                   tryVars, checkVars, reviewVars, goalVars, delivered>>

\* An agent run that repairs; its status becomes that of the outcome.
Mend(point, next) ==
    /\ pc = point
    /\ \E s \in RunStatuses :
        /\ Agent(s)
        /\ IF s = "error" THEN VerifyErr
           ELSE status' = Evidence(s) /\ pc' = next /\ UNCHANGED goalVars
    /\ UNCHANGED <<cfg, cancelled, same, continuations, architect, tryVars, back, reviewVars,
                   delivered>>

Repair == Mend("repair", "command") /\ round' = round + 1 /\ UNCHANGED qround
QualityRepair == Mend("mend", "quality") /\ qround' = qround + 1 /\ UNCHANGED round

-----------------------------------------------------------------------------
(* The review gate *)

\* A reviewer takes the outcome.
Assign(r) == reviewer' = r /\ attempt' = 0 /\ requeried' = FALSE /\ pc' = "review"

\* run_verify returned to its caller; its counters end with it.
Verified ==
    /\ pc = "verified"
    /\ Reread /\ UNCHANGED open
    /\ status' = IF back = "final" THEN status ELSE Evidence(status)
    /\ CASE back = "first" /\ Reviewed /\ status' = "ok" /\ ~cancelled -> Assign(1)
         [] back = "resume" /\ status' = "ok" /\ ~cancelled ->
              attempt' = 1 /\ pc' = "review" /\ UNCHANGED reviewVars
         [] back = "resume" /\ ~(status' = "ok" /\ ~cancelled) ->
              pc' = "next" /\ UNCHANGED <<attempt, reviewVars>>
         [] OTHER -> pc' = "settle" /\ UNCHANGED <<attempt, reviewVars>>
    /\ round' = 0 /\ qround' = 0
    /\ UNCHANGED <<cfg, cancelled, budgetVars, loopVars, node, back, goalVars, delivered>>

\* The gate of one reviewer ends with status s.
Leave(s) == status' = s /\ pc' = "next"

\* The gate cannot be held: no reviewer, no iterations for it, no snapshot to hold it against.
ReviewFails ==
    /\ pc = "review"
    /\ \/ attempt = 0 /\ ~requeried /\ Leave("fail") /\ UNCHANGED <<changed, tracked>>
       \/ ~own /\ Leave("incomplete") /\ UNCHANGED <<changed, tracked>>
       \/ own /\ Leave("fail") /\ tracked' = FALSE /\ changed' = FALSE
    /\ UNCHANGED <<cfg, cancelled, open, built, gated, approved, budgetVars, loopVars,
                   tryVars, checkVars, reviewVars, goalVars, delivered>>

\* The reviewer runs, as a child with read-only tools: an Err, or a file written all the same, is a
\* failure.
ReviewBreaks ==
    /\ pc = "review" /\ own
    /\ Draw /\ Leave("fail")
    /\ (left /\ Write) \/ Reread
    /\ UNCHANGED <<cfg, cancelled, open, loopVars, tryVars, checkVars, reviewVars, goalVars, delivered>>

\* gate_action on the verdict.  Without a verdict the reviewer is asked once more; the first "fail"
\* is handed to another agent run if iterations are left for it.
Review ==
    /\ pc = "review" /\ own
    /\ Draw
    /\ \/ /\ left /\ ~cancelled
          /\ approved' = approved \cup {reviewer} /\ Leave(status)
          /\ UNCHANGED requeried
       \/ /\ ~requeried /\ requeried' = TRUE
          /\ UNCHANGED <<status, pc, approved>>
       \/ requeried /\ Leave("fail") /\ UNCHANGED <<approved, requeried>>
       \/ /\ left /\ ~cancelled
          /\ IF attempt = 0 /\ own' THEN pc' = "resume" /\ UNCHANGED status ELSE Leave("fail")
          /\ UNCHANGED <<approved, requeried>>
    /\ UNCHANGED <<cfg, cancelled, changed, tracked, open, built, gated, loopVars, tryVars,
                   checkVars, reviewer, goalVars, delivered>>

\* The agent run on the reviewer's remarks; what it leaves is verified again, with repairs.
Resume ==
    /\ pc = "resume"
    /\ \E s \in RunStatuses :
        /\ Agent(s)
        /\ IF s = "error" THEN Leave("fail") /\ UNCHANGED checkVars
           ELSE /\ status' = Evidence(s)
                /\ IF status' = "ok" /\ ~cancelled THEN RunVerify("resume")
                   ELSE pc' = "next" /\ UNCHANGED checkVars
    /\ UNCHANGED <<cfg, cancelled, same, continuations, architect, tryVars, reviewVars, goalVars,
                   delivered>>

\* The next reviewer, or after the last the final verification, which repairs nothing.
NextReviewer ==
    /\ pc = "next"
    /\ CASE status = "ok" /\ reviewer < Reviewers -> Assign(reviewer + 1) /\ UNCHANGED checkVars
         [] status = "ok" /\ reviewer = Reviewers ->
              RunVerify("final") /\ UNCHANGED <<attempt, reviewVars>>
         [] OTHER -> pc' = "settle" /\ UNCHANGED <<attempt, reviewVars, checkVars>>
    /\ UNCHANGED <<cfg, cancelled, status, fileVars, budgetVars, loopVars, node, goalVars, delivered>>

-----------------------------------------------------------------------------
(* The end *)

Settle ==
    /\ pc = "settle"
    /\ Reread /\ UNCHANGED open
    /\ Out(Evidence(status))
    /\ SaveStaged(GoalStatus(status', TRUE))
    /\ UNCHANGED <<cfg, cancelled, budgetVars, loopVars, tryVars, checkVars, reviewVars, delivered>>

\* finalize_pipeline_delivery: an answer is published, unless it is empty or refused.
Deliver ==
    /\ pc = "deliver"
    /\ pc' = "ended"
    /\ CASE cancelled -> status' = "cancelled" /\ UNCHANGED delivered
         [] ~cancelled /\ status = "ok" ->
              \/ delivered' = TRUE /\ UNCHANGED status
              \/ status' = "incomplete" /\ UNCHANGED delivered
         [] OTHER -> UNCHANGED <<status, delivered>>
    /\ UNCHANGED <<cfg, cancelled, fileVars, budgetVars, loopVars, tryVars, checkVars, reviewVars,
                   goalVars>>

Cancel ==
    /\ pc # "ended" /\ ~cancelled
    /\ cancelled' = TRUE
    /\ UNCHANGED <<cfg, pc, status, fileVars, budgetVars, loopVars, tryVars, checkVars, reviewVars,
                   goalVars, delivered>>

Ended == pc = "ended" /\ UNCHANGED vars

Step ==
    \/ Start \/ Plan \/ Answer
    \/ Cycle \/ Continue \/ Conclude \/ Consult \/ Node \/ Boundary
    \/ Finish \/ Command \/ Quality \/ Repair \/ QualityRepair
    \/ Verified \/ ReviewFails \/ ReviewBreaks \/ Review \/ Resume \/ NextReviewer
    \/ Settle \/ Deliver

Next == Step \/ Cancel \/ Ended

Spec == Init /\ [][Next]_vars
FairSpec == Spec /\ WF_vars(Step)
-----------------------------------------------------------------------------
(* Properties *)

\* What is published was checked as it is: whatever was repaired, resumed and reviewed before, the
\* quality gate passed on the files the answer leaves; under the strict policy the verification
\* command and the last reviewer passed these very files too.
DeliveredWasChecked ==
    delivered /\ cfg.tools =>
        /\ Checked /\ changed => gated
        /\ Reviewed => /\ changed \/ cfg.given => built
                       /\ Reviewers \in approved

\* What is published rests on evidence: all changes are on record, development changed something,
\* and no delegation is left failed, however the last agent run ended.
EvidenceBacksSuccess ==
    delivered /\ cfg.tools => tracked /\ ~open /\ (cfg.dev => changed)

\* What is published was checked, and rests on evidence.
DeliveredIsFounded == DeliveredWasChecked /\ EvidenceBacksSuccess

\* The goal row of a staged task is settled when the task ends, on every way out, whatever earlier
\* writes were lost, unless the last one was; however many were, it says "complete" only after
\* verification, with no todo left and the files checked as they are.
GoalSettled ==
    /\ pc = "ended" /\ cfg.staged /\ ~stale => goal # "active"
    /\ goal = "complete" => /\ pc \in {"deliver", "ended"} /\ status \in {"ok", "incomplete", "cancelled"}
                            /\ todos # "open"
                            /\ Checked /\ changed => gated

\* The stages of a task.  A run that a reviewer had resumed is verified as part of the review.
Verifying == {"command", "repair", "quality", "mend", "verified"}

Stage ==
    CASE pc = "start" -> 9
      [] pc = "plan" -> 8
      [] pc \in {"answer", "loop", "judge", "node", "boundary"} -> 7
      [] pc = "finish" -> 6
      [] pc \in Verifying /\ back = "first" -> 5
      [] pc \in {"review", "resume", "next"} \/ (pc \in Verifying /\ back = "resume") -> 4
      [] pc \in Verifying /\ back = "final" -> 3
      [] pc = "settle" -> 2
      [] pc = "deliver" -> 1
      [] pc = "ended" -> 0

\* The steps of an attempt at the task, a node or a review, and those of a round of verification.
Place ==
    CASE pc \in {"loop", "node"} \cup Verifying -> 1
      [] pc = "review" -> IF requeried THEN 3 ELSE 4
      [] pc = "resume" -> 2
      [] OTHER -> 0

Point ==
    CASE pc = "command" -> 4
      [] pc = "repair" -> 3
      [] pc = "quality" -> 2
      [] pc = "mend" -> 1
      [] OTHER -> 0

\* Cycles, a word of the architect, and nodes.
Turns == (MaxContinuations + 1 - continuations) + (IF architect THEN 1 ELSE 0) + (Nodes + 1 - node)

\* What may still be tried, the most significant first; the task can begin again once, with tools.
Remaining ==
    << IF cfg.tools THEN 0 ELSE 1, Stage, Turns, Reviewers - reviewer, 1 - attempt, Place,
       (2 - round) + (2 - qround), Point >>

Below(x, y) == \E i \in 1 .. 8 : x[i] < y[i] /\ \A j \in 1 .. 8 : j < i => x[j] = y[j]

\* No task runs in circles: whatever agents, commands and reviewers answer, each step uses up
\* something that no later step gives back unless it uses up something greater, and a cancel takes
\* nothing from it (runner.rs: the bounds of cycles, nodes, repairs and reviews).
TaskAdvances ==
    [][\A now \in {Remaining}, later \in {Remaining'} :
          IF cancelled' = cancelled THEN Below(later, now) ELSE later = now]_vars

\* Every task comes to its end, through continuations, repairs, reviews and resumed runs, and each
\* step brings it closer.
PipelineEnds == TaskAdvances /\ <>(pc = "ended")

=============================================================================
