# TLA+ models of the RafikX agent harness

Specifications of the control logic of `agent-harness` (the Rust program behind RafikX), the TLC configurations that
check them on small instances, and proofs checked by TLAPS. `PROJECT.json` maps every definition to the source lines it
stands for, lists the hazards of the code, the runs, the mutants that show each property can fail, and the findings.
Paths below are relative to `agent-harness/src/` unless they start with another directory.

## The system

A user's task enters through a front (terminal UI, RPC over stdio, Telegram, desktop). A front creates a *root run*
and hands it to the *pipeline*, which plans, calls the *agent loop* (a model asked in turns, tools between the turns),
verifies the changed files, reviews them with fresh *reviewer* runs, and delivers one final answer. The agent loop may
delegate to *child runs* with the task tool. Runs form a tree; every run has a lifecycle, a node of the cancellation
tree and a terminal slot, and shares the event bus, the lifecycle store and the budgets of its root.

| component | source | state | operations | interacts through |
|---|---|---|---|---|
| Lifecycle reducer | `lifecycle/reducer.rs`, `state.rs`, `event.rs` | state, active children | `apply` of twelve events | calls from every driver and from `cancel`, under one lock per run |
| Lifecycle log | `lifecycle/runtime.rs`, `store.rs`, `db/lifecycle.rs` | sequence counter, JSONL file, history, broadcast channel | `transition`, `subscribe`, `append`, `replay` | shared by the tree; readers lag |
| Run control | `run/control.rs`, `run/context/lifecycle_api.rs` | cancel node (reason, children), terminal slot | `child`, `cancel`, `finish` | parent and child nodes, shared by threads |
| Run context | `run/context.rs`, `data.rs`, `progress.rs` | budgets, claimed iterations, provider attempts | claims by compare-and-swap | the whole tree |
| Agent loop | `agent.rs` | messages, step counters, approvals | turn, tool span, approval, limits | tools, provider, run context |
| Task tool | `tools/task.rs` | none of its own | `delegate`, `finish_parent` | parent's lifecycle, child pipeline |
| Pipeline | `harness/runner.rs`, `harness/mod.rs` | plan, outcome, retries, goals | plan, execute, verify, review, deliver | agent loop, verification, reviewers |
| Binding and fallback | `harness/binding.rs`, `fallback.rs`, `ranks.rs`, `provider/mod.rs` | candidates, accounts in cooldown | choose, retry, fall back | provider clients |
| Mutation transaction | `tools/mutation/*` | staged files, backups | prepare, commit, roll back | the workspace's file system |
| RPC server | `rpc/*` | permits, run table, pending approvals, writer queue | `turn.run`, `run.cancel`, `approval.resolve`, end of input | root runs, event bus |
| Event bus | `run/events.rs` | sequence counter, taps, broadcast channel | `emit`, `subscribe` | fronts |
| Verification work | `verify/*` | sealed spec, plan, task states, ledger | run plan, checkpoint, resume | files, commands |
| Process tree | `process_tree.rs` | child process groups | spawn, wait with timeout, kill | operating system |
| Database | `db.rs`, `db/*` | sessions, facts, lifecycle rows | transactions, migrations | all fronts, several processes |
| Accounts | `auth.rs`, `accounts.rs` | token file | login, refresh, save | several processes |
| Language servers, MCP | `lsp/*`, `mcp.rs`, `mcp_serve.rs` | pending requests | request, reply, timeout | child processes |
| Update | `update.rs`, `update/install.rs` | installed binary, backup | download, replace, roll back | file system |
| Quality gates | `quality/*` | the verdict; per page a web server, receipts, a log | run checkers, find pages, browser smoke | child processes, a browser, the page in it |
| Autonomous loops | `ulw.rs`, `self_harness.rs` | goal state, harness variants | loop, promote, roll back | pipeline |
| Terminal UI | `tui.rs`, `tui/*`, `chat.rs` | session, queue of prompts, open question, displayed state | keys, turns, compaction, saving | root runs, database, autonomous loops |

### What is hard, and what makes each part correct

- **Runs and cancellation.** `cancel` may be called by several fronts at once, while drivers on other threads create
  children, wait for approvals, publish an answer or finish. Correct means: answer and cancel exclude each other; a
  cancel that returned true reached every run; a cancelled tree comes to rest; the terminal slot and the lifecycle
  agree and never change once set; a parent's lifecycle tracks exactly the children that run.
- **Lifecycle log.** An append may fail while the state moves on; a reader may lag. Correct means: what is replayed is
  what happened, or the replay says that it is not.
- **Mutations.** Several files are replaced one by one; each step may fail, and the rollback steps too. Correct means:
  all of the files or none, unless a failure is reported for what could not be restored.
- **Model calls.** A call walks over providers, accounts and retries, with a budget it shares with the whole tree.
  Correct means: it ends, the budget holds, nothing is asked twice once a piece of the answer was shown, and the error
  that is reported is the cause.
- **Terminal.** Keys, a turn, the followers of runs that are over and a question on the screen interleave. Correct means:
  what is displayed is the current turn's, Esc stops the turn it was pressed in, no conversation is lost to a busy database
  or a crash, and each prompt gets its turn.
- **Processes.** Processes fork, leave their group, lose their marks and exit while they are looked up; PIDs are reused.
  Correct means: a cleanup that reports success left nothing, what was stopped is killed, strangers are spared.
- **Quality gates.** Checkers hang and leave helpers; a page's errors travel as receipts and as log lines, any of which may
  fail to arrive before the browser exits. Correct means: a page called clean reported nothing, each changed file was
  opened, nothing stays behind, and there is a verdict.
- **Verification work.** Only documents and git survive a command. Correct means: a task marked done keeps its product, and
  a commit holds what was verified, over kills, failed saves, retries and rollbacks.
- **RPC.** Requests wait on each other through permits and approvals. Correct means: every request gets one answer,
  end of input releases everybody, and no approval outlives its run.
- **Accounts, update, language servers.** Each has a file or a table of requests that several parties change.

## Plan

Done: `Lifecycle`, `RunTree` with `RunPromise`, `MutationTxn`, `AgentLoop`, `RpcServer`, `Pipeline`, `Binding` and
`ProviderStream` below `ModelCall`, `Ulw` below `Terminal`, `ProcessTree`, `Quality`, `WorkRun`; proofs of the types, the safety
invariants and the action properties of all of them. Each was built before the ones that rely on it: the tree of runs carries
everything, a transaction is what a tool does to the workspace, the loop calls tools and models, the fronts start loops.

To come, in this order:

1. `LifecycleLog`: sequence numbers, failed appends, replay, lagging readers.
2. `Accounts` (token refresh, load-modify-save by several processes) and `Install` (replacement of the binary).
3. The requests of `lsp/*` and `mcp.rs`: ids, timeouts, late answers.
4. Pure algorithms against a reference definition: packing of a transcript, pairs of tool calls and results, text
   anchors, coverage of a plan.

Theorems to come: that a turn's approvals in `RpcServer` and the consents of `AgentLoop` agree, which needs a module that
composes the two; what each step of `RpcServer` and `Terminal` uses up, as it is proved of `Pipeline`, `AgentLoop` and
`ModelCall`.

## Modules

A module `X` holds the model, its properties, and *seeded faults*: operators that no action uses, each one a plausible
bug of the definition it stands before, from which `PROJECT.json` derives the mutants. `XMC` instantiates it for TLC,
`XProofs` holds the theorems. Two such modules are about two models each: `ToolProofs` about `MutationTxn` and `ProcessTree`,
`TurnProofs` about `Pipeline` and `Terminal`.

### Lifecycle, RunTree, RunPromise

`Lifecycle` is the reducer: `Accepts` and the successor operators for each of its twelve events. `RunTree` puts one
reducer, one cancel node and one terminal slot into each run of a tree.

| in the model | in the code |
|---|---|
| `life`, `active` | `LifecycleReducer.state`, `.active_children`, under one mutex per run |
| `reason`, `kids` | `CancelNode.reason`, `.children` |
| `terminal` | `RunControl.terminal`, set once |
| `pc`, `outcome`, `verdict` | the driver: the future of `run_pipeline_with_context` and, in it, of the task tool |
| `call`, `visit`, `expand` | each caller of `RunContext::cancel`: where it is, the work list of its walk |
| `published` | the final answer was shown |

Drivers and callers of cancel are on different threads. An action is one critical section or one atomic access, so
the window between two locks is a state in which others move: `CreateChild`, `LinkChild` (the parent's token is read and
the child is pushed under the locks the code takes), `AnnounceChild`; `FinishRead`, `FinishSet`, `FinishTransition` for
`finish_with_error`; `CancelCheck`, `CancelRequest`, `CancelToken` and the walk `WalkExpand`, `WalkVisit`, `WalkEnd`.
`RunPromise` says it without any of this: a root is answered or cancelled, whichever commits first, and runs are told to
stop only after a cancel won, the root before its descendants. `ImplementsPromise` is the refinement: `phase` is the
lifecycle seen from outside (`PhaseOf`), `stop` is `reason`.

### MutationTxn

`tools/mutation/commit.rs` as one transaction of `N` operations. `pc` names the next system call: `validate`, `open`,
`stage`, `verify`, `moveaway`, `mkdir`, `install`, `restore` (put back after a failed install), the `undo` steps of the
rollback in reverse order, the removal of created directories, `cleanup`. Each call succeeds or fails, while
`MaxFaults` allows; between any two of them another program may write a target (`Edit`). `disk`, `staged` and `backup` are
the three places a content can be in, `before` and `after` the plan. `theirs` remembers what other programs wrote, `late`
the files they wrote after the code's last look at them: no program can restore what it never read, so the properties
exempt these. Other programs do not remove directories here, and resolution of paths is left out.

### AgentLoop

`run_agent_with_delivery` for several agents of a tree. One agent's state is a local of the loop of the same name
(`iterations`, `allowAll`, `lastKey`, `streak`, `truncated`, `leaked`, the pending calls); the tree's budget (`limit`,
`used`), the approval flag, the cancel token and the workspace (`world`) are shared. Loops that run at once are futures
of one task (`join_all`): an agent moves between two awaits without being interrupted by another one, which is what `Free`
says; it is the reason why a tool approved on a preview runs on what the preview showed, and the proof rests on it.
`Cancel` and the answers to questions come from other threads. Actions follow the code's order: top of the loop
(`TopCancelled`, `TopLimit`, `Claim`), the reply (`ModelCancelled`, `ModelFails`, `LeakedReply`, `TruncatedReply`,
`FinalReply`, `ToolReply`), repetition (`Count`, `Repeated`), a batch of delegations (`StartBatch`, `BatchDone`) or one
call after another (`TakeCall`, the approval's outcomes, `Launch`, `ToolReturns`), `TurnDone`.

Left out: immediate delivery (the pipeline never uses it; `RunTree` has the publication), packing of messages, token
counts, the list of unresolved delegations, and other programs writing between the last comparison and the tool's own
write, which `MutationTxn` has.

### RpcServer

| in the model | in the code |
|---|---|
| `reader`, `current` | the loop of `run` (`rpc/server.rs`) and the stages of its end: cancel all runs, drain approvals, join tasks, flush |
| `task`, `permits` | the spawned task of each request, the semaphore |
| `sessions`, `object`, `lock` | the table of sessions, the session object a request holds, its fair mutex as a queue |
| `runs`, `cancelled` | the table of runs and their tokens |
| `approvals`, `channel`, `listening` | pending approvals; the oneshot of each question, and whether its receiver lives |
| `outbound`, `writer`, `told`, `replies` | the bounded queue, the writer task, what the client read |
| `inbox`, `closed`, `known` | the client: what it sent, end of input, which runs and questions it was told of |

A `script` says which requests the client sends, how many permits there are, whether `initialize` is over, and whether
questions stay open for good (`patient`). A client sends any request once, in any order, and cancels or answers only a run or question it was told of. `Fault` breaks the
input or the output, or makes a forwarder lag and end. A task that sends waits while the queue is full: `Emit` is a
guard. Each turn asks one question at most, which expires (`Expire`, `CloseReceiver`, `RemoveApproval` are three steps in
the code, and an answer may fall between any two). Left out: contents of frames, `run.event` notifications between the
first and the last of a run, the 1 MiB limits.

### Pipeline

`harness/runner.rs` for one root run. An agent run is one step (`Agent`) whose status is any of those `AgentLoop` ends
with, and which may change the workspace. The workspace is not its contents but what was established about them:
`built` (the verification command passed), `gated` (the quality gate passed) and `approved` (a reviewer passed it), all
undone by a change (`Write`). Iteration counters are two flags: the tree has some `left`, and the outcome of the current
agent still has some of its `own`. The actions are the stages:
`Plan`; `Answer` (no tools), `Cycle` / `Continue` / `Conclude` / `Consult` (the goal loop) or `Node` / `Boundary` (the
graph); `Finish`, `Command`, `Quality`, `Repair`, `QualityRepair` (verification); `Verified`, `Review`,
`ReviewFails`, `ReviewBreaks`, `Resume`, `NextReviewer`, `Settle` (review); `Deliver`. `goal` is the row in the database,
`delivered` whether the answer was published. `Cancel` is possible at every point. Any write of the row (`SaveGoal`) may be
lost, as `persist_goal_state` drops the errors of the JSON, of `Db::open` and of `save_goal`; `stale` is the history of that.

Left out: prompts, binding of profiles, parsing of plans and verdicts (a choice among what they can yield), contents of
files, a verification command that writes files, child runs (they skip delivery), and a process that ends in the middle and
leaves a goal active.

### Binding, ProviderStream, ModelCall

`Binding` holds pure operators on one setting: which provider and model a task is bound to (`Binding` of the code, engine
pin, combos, manual choice) and the order of candidates. Where the code takes the first of several equal entries of a
table, the operator is the set of results. `ProviderStream` decodes the event streams of the three wire protocols, one event
after another, into a reply or a class of error. `ModelCall` puts both below the loops of `chat_with_fallback_inner`,
`try_accounts` and `stream_with_fallback_inner`:

| in the model | in the code |
|---|---|
| `order`, `at`, `accounts`, `attempt` | the candidates, the position, the accounts left, the retries on one account |
| `used`, `treeUsed` | `local_used` of the `ProviderAttemptGate`, the tree's attempts |
| `emitted` | a piece of the reply was displayed |
| `inner`, `primaryErr`, `lastErr`, `error` | the errors the loops carry along |
| `asked` | history: candidate and error of each attempt |

Left out: the requests themselves, waiting times, token counts, more than one call in a reply, the table of ranks, an Anthropic
block that is never stopped. A Codex stream that uses more tokens than allowed is found out with its last event, in the code with any.

### Ulw, Terminal

`Ulw` is the verdict of the autonomous loop (`record_run`): nudges, stalls, repeated failures, done. `Terminal` is the
interface's thread (`tui.rs`), the task of the current turn (`chat.rs`), one follower per run that shows lifecycle events,
and the session store (`db/session_stream.rs`). A turn is a question, an autonomous loop of several runs, or a
compaction.

| in the model | in the code |
|---|---|
| `ui`, `busy`, `quitAfter`, `queue`, `question`, `sess` | locals and fields of `App`, in and out of its `select!` |
| `cancelReq`, `active`, `shown`, `epoch`, `holder`, `asked`, `live` | what is shared with the turn: flags, the displayed state and its lock, the channels of questions and display events |
| `turn`, `run`, `followers` | the task of the turn with its copy of the session, its current run, the tasks that follow runs |
| `rows`, `kept`, `loopFile` | session rows, snapshots, `state.json` |

A `script` selects what may happen in a behaviour (keys, prompts, kinds of turns, a busy database, crashes), so that one
instance covers seven situations without their product. Left out: rendering, pickers, wizards, history, attachments,
goals, the contents of messages, mode flags (among them an "always" given in a turn, which the turn's copy of the session may undo).

### ProcessTree

The cleanup of `process_tree.rs` on Linux. `proc` maps a PID to the process that has it, with its generation: PIDs are
reused, and a captured process (`pidfd_open`) is a PID with its generation. A command reserves (`held`), spawns, waits, and
cleans up: stop the group, then rounds of lookups (the group, descendants, marks in environments, the marker file), which
read one PID per step while processes fork, exit, leave the group and lose their marks; capture, stop, look again, kill.
A scan that took too long goes on as one of `threads` and keeps the lock. `faults` bounds the steps that fail or run out of time.
Left out: macOS lineage and `lsof`, Windows jobs, the admission permits (as many as there are reservations, so nobody waits
for one), the time between a kill and the death, and more than one such scan per command.

### Quality

`quality/mod.rs` and `browser.rs`. `job` is one call of the gate: the workspace with its references between files (`refs`), what
was changed and deleted, the checkers, whether the task asks for a game. The gate first runs its checkers one after the
other (`Checker...`), each a process that may leave a `helper` which holds its output; then `Discover` computes the pages
that load what was changed; then each page is opened.

| in the model | in the code |
|---|---|
| `pc`, `at`, `todo`, `failed`, `targeted`, `clean` | the locals of `run_quality_gate_with_contract`, its list of steps, `game_contract_targeted` |
| `proc`, `helper`, `status`, `much` | the `ScopedProcess`, the exit status, the overflow flags |
| `serving`, `rundir` | `SmokeResources`: the accept loop, the directory |
| `sequence`, `recorded` | `ProbeSequence` with the ready flag, `server_errors` |
| `page`, `awaited`, `played`, `gameMsg`, `receipt` | the probe script: where it is, what `allSettled` waits for, its receipts on their way |
| `line` | an error's line: logged by the page, written to stderr, read or cut off |

`TakeError` and `PushError` are apart because the lock is released between them. The cleanup of a command is
`Terminated`: `ProcessTree` says what its success means. Left out: what scanners, profiles and duplicate search find (a
choice in `Discover`), the drawing that the game contract looks at, the staging of files, which receipts are valid, and
more requests for missing files than one.

### WorkRun

`verify/orchestrator.rs`, `runner.rs` and `task.rs`: `run-plan`, `verify-task`, `plan-rollback`. A task's executor makes a
product, which is in HEAD, in modified or staged files, or in new files (`head`, `edited`, `added`); one in HEAD may be missing
from the files (`gone`). `git diff HEAD` shows what is edited or gone, not what is added. `doc` is the state in each task's
file, `meta` says where the plan's files are and whether git sees them changed; `log` holds the commits with what they add and
delete. `cmd` is the command that runs, lost when it is killed (`Crash`).

An executor is any `sh -c`. `Change` is one write of it: it makes its own task's product (`Makes`), or removes or overwrites any
other (`Takes`); it may write as often as it likes before it returns (`ExecutorWrites`, `Execute`). One that ran out of time is
dropped and goes on (`strays`, `Stray`). A document may fail to open or to be written (`SaveFails`): `run_plan` ignores that and
goes on to the commit (`AfterSave`), the other commands end. `Checkpoint` ignores errors too: nothing happens, or new files are
staged and not committed, or all is committed. Three variables are history: `touched` (who wrote since the commands passed
last: the run's own executor, a given-up one), `torn` (products that were lost while the documents stayed as they were) and
`unsaved` (tasks whose document this command could not write).

Assumed: executors leave the plan's documents and git's own state (history, index) alone, and nobody but executors writes to the
workspace while commands are given. Left out: freezing of the specification, coverage of a plan, the guard on
tests and the ratchet (each a way for `Judge` to refuse), workspaces without git, plan files in an untracked
subdirectory, writes of the ledger that fail, a clean-up commit of the plan's own files that stages and does not commit, a
kill between a failed `git revert` and its `--abort`. `git add` with `git commit`, and a revert with its abort, are one step each.

## Runs

| run | instance | shows | distinct states |
|---|---|---|---|
| `runtree` | root and 2 other runs, 2 callers of cancel, both symmetric | `CommitExclusive` (`AnswerCommits` and `CancelCommits`): answer and cancel exclude each other; `CancelReachesAll`: a cancel that returned true reached each linked run; `DelegationTracked`; `TerminalAgrees`; `EndIsFinal`; `ImplementsPromise` | 0.73 million |
| `runtree_live` | root and a child, 2 callers, fair | `CancelStopsTree`: a cancelled tree comes to rest | 40,000 |
| `mutation` | 3 files in 2 directories, 2 contents, 2 failing calls, 2 writes of others | `NothingLost`, `CommitIsWhole`, `FailureRestores`: a success is whole, one failure restores every file or is reported, a crash at any step loses nothing | 2.1 million |
| `agent_loop` | 2 agents, 3 and 2 iterations, up to 3 calls in a turn, cap 3, with and without `--yes`, local and remote, fair | `BudgetIsShared`, `EveryCallAnswered`, `ConsentNeeded`, `PreviewFaithful`, `NoThirdRun`, `EveryLoopEnds`: what the tree drew is what its loops used; each call has one result; a risky tool ran on a yes and on what its preview showed; no call runs three times in a row; each step uses up a turn or a part of one (`LoopsAdvance`), and every loop ends | 0.47 million |
| `rpc` | three scripts: a turn, two answers, a cancel with a permit to spare and no timeouts; `initialize`, open, a turn, get under one permit; `initialize` and another request; fair | `RepliesAreTrue`: one reply for each request (`OneReply`), and the confirmed answer is the one that counted (`AnswersCount`); `CommandsAreHeard`; `ServerEnds` | 0.29 million |
| `pipeline` | 5 bindings, 2 reviewers, 2 nodes, 2 continuations, any goal write lost under one of the two staged bindings, fair | `DeliveredIsFounded`, `GoalSettled`, `PipelineEnds`: what is published was checked as it is (`DeliveredWasChecked`), success has its evidence (`EvidenceBacksSuccess`), a staged goal is settled as its task ended unless the last write is lost, and is never complete too early; no step gives back what it used up (`TaskAdvances`), and the task ends | 0.54 million |
| `model_call` | 2 calls, 3 providers, one with 2 accounts, 10 settings, 4 attempts in the tree, fair | `BudgetKept`; `ResultFounded`: a result is a sound reply, an error the cause; `ShownOnce`: nothing is asked again after a piece was displayed; `CallEnds`: each step uses up a candidate, an account or a retry (`CallAdvances`), and the call returns | 0.30 million |
| `terminal` | 7 scripts, up to 3 prompts, 2 followers, 2 criteria, 2 failures, fair | `ShownIsCurrent`, `EscStopsItsTurn`, `SessionSafe`, `DoneIsFounded`, `PromptsServed` | 0.45 million |
| `ulw_done` | the loop script | finding 1 | violation |
| `process_tree` | 2 scripts: one command with 2 forks, a stranger, a lost mark and 2 faults; 2 commands for 1 reservation; 3 PIDs, fair | `CleanupDone`: success means nothing marked is left (`CleanMeansGone`), and what was captured is killed (`CapturedAreKilled`); `StrangersSpared`; `CommandsEnd` | 0.65 million |
| `quality` | 15 jobs: 2 pages, a script and its import, 2 errors and a missing file, up to 2 checkers, fair | `CleanIsFounded`: a page called clean reported no error that arrived; `EveryChangeWasRun`; `NothingLeft`; `GateEnds` | 0.57 million |
| `work_run` | 2 tasks, 3 commands, 1 retry, 1 kill or failed save, 1 stray executor | `DoneIsBacked`: a task marked done has its product, but for three ways the code has to lose one; `CheckpointStands`: a checkpoint holds nothing the run's executor wrote after the commands passed, and is taken in order | 5.5 million |

The type invariants (`TypeOK`, `TermTypeOK`, `ProcTypeOK`) are proved and not run, so that each run asks only what a bug could
answer otherwise; those of `Lifecycle`, `Ulw`, `Binding` and `ProviderStream` are part of the modules above them. `INVARIANT
TypeOK` in a run's `.cfg` checks one.

Why these bounds are enough to meet the interesting cases:

- *Tree.* Three runs give a chain of three (task, its reviewer or its task) and two siblings, the smallest trees where a
  walk meets a child that is being linked below a node it has left. Two callers overlap in every step of each other.
- *Transaction.* Three operations put an undone, a failing and an untouched file in one behaviour, in two directories, one of
  which has two files. Two faults let the rollback fail after the commit did.
- *Loop.* Three turns reach the repeat cap (3 equal calls in a row) across turns, in one turn and across its edge, and the
  limit. `HardCap` is 50 in the code; it is 3 so that it can bind before or after the limits of the agents.
- *Server.* One permit makes a turn block everything behind it, a queue of one makes every send wait for the writer.
- *Model call.* Three providers make a first, a later and a last candidate; four attempts for the tree are fewer than two calls
  may use (three each), so that one call can exhaust what the other counts on. The settings are those that differ in which
  rule of `Binding` decides.
- *Terminal.* Two prompts put a turn after another one with display events still in the channel; a third prompt queues behind a
  queued one. `MaxFollowers` lets two followers of old runs lag behind. An autonomous loop ends after at most four runs in
  the code.
- *Processes.* Three PIDs are a root and two descendants, or a root, a descendant and a stranger, and are few enough to be
  reused. Two forks make a child of a child that is read before or after its parent.
- *Quality.* Two errors are one that is awaited and one that comes later, and fill the server's list; two pages cover two files
  one each, and exceed or meet `MaxEntries`. A script is two references away from its page. The jobs differ in which rule
  of the search or of the contract decides.
- *Work run.* Three commands are a run that is cut off, a resume and a rollback; two tasks give one that is done and one at
  hand, whose executor can take what the first one made and whose commit can take it up. `Weak` is the task whose commands pass
  without its product. One fault is one kill or one document that is not written. An executor's writes are not bounded.
- *Pipeline.* `Reviewers`, `Nodes` and `MaxContinuations` bound loops of the code. Two of each give a first, a last and a
  step in between; rounds of repair and review attempts are the code's own (2). Writes of the goal row fail without a
  bound, under one staged binding (`LossyGoals`); the theorem about the row is for any.

For safety the theorems remove the bounds on nodes, calls, files, prompts, processes and tasks. What stays bounded everywhere is
named in the modules: the two states of a file in `AgentLoop`, one question per turn in `RpcServer`.

### Fairness

- `RunTree`: weak fairness of each driver, and of each walk that has begun. Drivers are tokio tasks that wait for nothing but
  models and tools, which have timeouts, and approvals, which `ApprovalCancelled` leaves on a cancel. Nobody is
  obliged to start a cancel: `call[k] # "idle"` is part of the fair action.
- `AgentLoop`: weak fairness of each loop's step, under which the user's answer comes. Remote and RPC questions expire
  after 300 s and count as a no; a question on the command line blocks on the terminal, and the loop ends only if the
  user answers or the input closes.
- `RpcServer`: weak fairness of the reader, the writer, each task and each forwarder, and of each timeout unless the script is
  `patient`. The client must read its output and need not send, answer or close anything. In the patient script
  `CommandsAreHeard` says that an answer or a cancel is taken up without waiting for a timeout, as fewer turns wait than
  there are permits. With as many waiting turns as permits this is false of the code: every permit is held by a turn that waits
  for an answer no task can read, until the first question expires (hazard list).
- `Pipeline`: weak fairness of its step. Each step is an agent run, a command with a timeout or a database write.
- `ModelCall`: weak fairness of each call's step: a provider answers, breaks off, or runs into the client's timeout.
- `Terminal`: weak fairness of the interface's own steps, of followers and of the turn. `tokio::select!` picks a ready branch at
  random, so a branch that is ready again and again is taken: strong fairness of `ShowQuestion`, `ApplyLive` and
  `FinishTurn`. No key is ever required.
- `ProcessTree`: weak fairness of a command's start (which has a deadline), of its cleanup and of its scan threads. Processes need
  not do anything; a command that runs is ended by its timeout.
- `Quality`: weak fairness of the gate's own steps, which each have a deadline. The checkers, the browser, the page and the
  server's tasks need not do anything.
- `WorkRun` states none: its properties are safety.

### Findings

1. The comment at `ulw.rs:260` wants the verification to have passed where code was changed. `record_run` looks at the run at
   hand, and a run that changes no file skips verification: a run that breaks the build followed by one that ticks off its
   todos is done (`DoneIsVerified`).

`PROJECT.json` quotes the text. What follows was met while modelling and is in no run; most of it is in the note of a hazard:

- `finish_with_error` ignores a refused `Finished`: a cancel after its read leaves a finished run in `CancelRequested`
  (`run/context/lifecycle_api.rs:45`). `TerminalAgrees` exempts this.
- With plan depth Off a run that plans stays in `Planning`, where `ChildStarted` is refused: `PlanOff = TRUE` breaks
  `DelegationTracked`.
- A failed install followed by a failed rename back loses the second error and the original
  (`tools/mutation/commit.rs:129`). `FailureRestores` is about one failure.
- A graph stopped by a denied or failed node is still verified, and a repair replaces its status (`harness/runner.rs:1804`).
- An explicit `--provider` or `--model` is to beat the engine's pin (`harness/binding.rs:405`, and the test at
  `harness/mod.rs:986`). The agent loop orders its candidates without knowing of it (`agent.rs:379`) and asks the pin first, or alone
  if it is strict. `ResultFounded` asks for the strict pin only of tasks without an explicit choice.
- What the next start offers as an interrupted goal (`tui.rs:362`) may be a task that published its answer: the goal loop writes
  "active" when it ends well (`harness/runner.rs:1355`), and only a staged task settles the row later. `GoalSettled` is about staged ones.
- Only what passed is to go on (`verify/orchestrator.rs:109`). A timed-out executor is not killed (`verify/orchestrator.rs:56`), and what
  it writes after the commands have passed is committed. `CheckpointStands` speaks of the run's own executor.
- A group member without marks may be stopped and never killed; a process that takes a listed PID is killed
  (`process_tree.rs:1509`, `1355`).
- A task without any diff is to fail (`verify/task.rs:92`). The diff (`git diff HEAD`, `verify/runner.rs:188`) includes the
  plan's own documents and ledger where git follows them, as after a rollback, which adds all files
  (`verify/orchestrator.rs:391`): the second verification of a task nobody worked on passes.
- In the gate, an error whose receipt fails and whose line the browser has not written when it is killed escapes; scripts that no
  page loads pass without a smoke test; a cancel waits until the gate has ended (`harness/runner.rs:1910`).
- `run-plan` right after a checkpoint re-verifies the last task against an empty diff and stops (`verify/orchestrator.rs:131`); a
  second rollback of a task brings its product back; a rollback killed after its revert, a commit that took up two products, and
  an executor that takes an earlier task's product lose one that is marked done: only the last done task is verified again.
- `run-plan` ignores a document it could not save (`verify/orchestrator.rs:233`): the ledger and the commit say done, the document
  does not, and the next run executes the task once more. A goal whose last write is lost stays active (`harness/runner.rs:1695`).

## Proofs

All theorems hold for every value of the constants under the module's named assumptions, which type them. Each of the eight
modules follows one plan: an inductive invariant `IInv` (or a few smaller ones) that TLC checked before it was proved, a lemma per
action or per group of actions that have the same effect on it, and one theorem per property that follows. Where a step matters
to an invariant only through what it does to a few variables, the lemma says just that of an abstract step, and the actions
are shown to be such steps.

- **RunTreeProofs.** `IInv` joins `TypeOK`; `TreeInv`, the shape of the tree (who may be parent of whom at which point of
  the drivers, so that a chain has at most three runs and no induction over the tree is needed); `CommitInv`, what a
  set token and a published answer say of the root's lifecycle; and `WalkInv`. `CancelReachesAll` alone is not inductive:
  while a walk is under way some runs are not cancelled. `WalkInv` says which: each linked run without a reason is in a
  list of the walk or below one that is, or will read its parent's reason when it is linked. One lemma per action
  shows that `IInv` is kept; the theorems `TypeCorrect`, `CommitCorrect` (`CommitExclusive`),
  `ReachCorrect` and `EndCorrect` follow, and `PromiseCorrect` maps each step to a step or a stutter of `RunPromise`.
  `TerminalCorrect` (`TerminalAgrees`) rests on `EndInv`: how far `finish_with_error` is, and that only a root whose cancel
  fell between its read and its transition keeps a lifecycle that has not ended. `DelegationCorrect` (`DelegationTracked`)
  rests on `DelegInv`: which state a lifecycle has at each point of its driver, and that the root's set of active children
  is the set of children that were announced and not reported. It assumes `~PlanOff`: with plan depth Off the property is
  false of the code, see above.
- **ToolProofs.** What tools do to files and to processes. *MutationTxn:* in each phase every file is in one of four
  conditions: untouched, moved (its original in `backup`), applied, or safe again. `IInv` says which files are in which
  condition: those before the current operation, the current one and those after it (`LoopInv`), with the opposite split during
  the rollback (`UndoInv`). `NothingLost` (`KeptCorrect`), `CommitIsWhole` and `FailureRestores` follow for any number of
  files, faults and edits. *ProcessTree:* processes fork, exit, leave their group and take over PIDs between any two steps of a
  cleanup. `ProcInv` says, at each place of it, what a command knows of its own processes that no step of a process can make
  false (`ProcessStep` says once what such a step may change): a PID it has listed or captured is its own, or was taken over
  after a lookup listed it (`Excused`); nothing captured is alive after the last kill (`CaptureInv`); as long as a round found
  nothing, each marked process that was there when the round began is still ahead of one of its lookups (`CoverInv`).
  `CleanupCorrect` (`CleanupDone`) and `StrangersCorrect` (`StrangersSpared`, an action property) follow for any PIDs,
  commands, forks and faults.
- **AgentLoopProofs.** `ConsentNeeded`, `PreviewFaithful` and `EveryCallAnswered` for any number of loops, calls and files.
  The argument is `Free`: at most one loop is between the comparison of its preview and the result of its tool, so that
  nothing writes in between. `Shape` types just the variables the argument uses. `BudgetCorrect` (`BudgetIsShared`) counts the
  turns as a set of pairs (loop, turn), whose cardinality is what the tree has drawn, so that no sum over loops is needed.
  `RepeatCorrect` (`NoThirdRun`) compares two counts of the same reply: the streak that decides and the history of what
  ran; `RunAt` is a recursive function, and the lemma `RunAtBound` goes by induction over a position in the reply. `TypeCorrect`
  joins these invariants with `RestInv`. `AdvanceCorrect` (`LoopsAdvance`): see below.
- **ModelCallProofs.** First what the operators below it do: `ReplySound` (a reply is whole when its stream ended as its
  protocol demands, for streams of any length), `OrderUsable` and `WithoutOnce` (the order of candidates holds only
  providers that may be asked, each once). Then `CallInv`, for one call: `Placed` (where it is among its candidates),
  `Trail` (what it asked so far), `ErrorsKept` (each error the loops carry is the last one of an attempt that `asked` has),
  `Returned` and `Idle`. A step of one call leaves the others alone (`StepOthers`) but for the tree's budget. `ResultCorrect`
  (`ResultFounded`), `ShownCorrect` (`ShownOnce`, an action property) and `BudgetCorrect` (`BudgetKept`, again with
  a set of pairs for the sum) follow for any calls, settings and streams.
- **RpcServerProofs.** A request is in one place, in the input, with the reader, in a task or answered (`PlaceInv`); a
  permit is free or held by a task (`PermitInv`); the queue of a session's lock holds exactly the tasks that wait for it,
  behind the one that has it (`LockInv`); what a question went through, from the frame to the expiry (`QuestionInv`), and that
  one answer at most is confirmed, to a question the client heard of (`AnswerInv`). `RepliesCorrect` (`RepliesAreTrue`)
  follows for any requests, permits and capacity, and `TurnsExclude`: no two turns work on one session object, whatever
  is opened, reset and closed meanwhile. The latter is a consequence of the invariant that no run lists.
- **TurnProofs.** What a turn is and what the user sees of it. *Pipeline:* `CheckInv` says at each point where the task may
  still succeed what is known of the files as they are: after a verification the gate passed, before the next reviewer the
  last one did, in the final verification, which may not repair, the command too. `cancelled` is the exception the code makes: a
  cancel while a resumed run is verified leaves a success that no reviewer passed, which delivery turns into a cancellation.
  `GoalInv` is the same for the goal row, whose writes may be lost at any point: at the end it says "active" only if the last one
  was, and "complete" only of files that are checked. `BoundInv` bounds rounds and nodes. `DeliveryCorrect` (`DeliveredIsFounded`) and
  `GoalCorrect` (`GoalSettled`) hold for any bindings, reviewers, nodes and continuations. *Terminal:* none of its four
  properties is inductive, and each needs the others' invariants. `TermInv` joins them: the interface is busy exactly while the
  turn is somewhere (`TurnInv`); a follower that has seen the current epoch belongs to the turn at hand, and after a turn none
  has and nobody holds the display's lock (`DisplayInv`); an Esc in a turn stays in the cancel request and reaches the run that
  is active (`EscInv`); each message that was recorded is in the session, in the turn's copy or in a snapshot, and a copy
  without unsaved changes is what its row says (`MessageInv`); a criterion of the loop's file has its evidence, and its runs are bounded by
  the times it was entered (`UlwInv`). `ShownCorrect` (`ShownIsCurrent`), `EscCorrect`
  (`EscStopsItsTurn`), `SessionCorrect` (`SessionSafe`) and `DoneCorrect` (`DoneIsFounded`) hold for any scripts, prompts,
  followers, criteria and failures.
- **QualityProofs.** `HoldInv` is what the gate holds at each point and what may be left behind, `PagesInv` that each page that
  was found waits, is open or was clean. `ScriptInv` is what the script, the server and the log know of each other: the page
  is ready only after the receipts it awaits were settled, and an answered receipt is in the server's list; with it the
  verdict on a page is sound (`CleanInv`) although a receipt may still be answered when the server is gone. The
  lemma `PagesFound` is about the search: each file it covers is on or below a page it found. `CleanCorrect`
  (`CleanIsFounded`), `ChangesCorrect` (`EveryChangeWasRun`) and `NothingLeftCorrect` (`NothingLeft`) hold for any
  workspace, checkers, errors and limits.
- **WorkRunProofs.** `DoneIsBacked` (`BackedCorrect`) and `CheckpointStands` (`CheckpointCorrect`) for any number of tasks, retries,
  commands, kills, failed saves and strays. A done document alone says nothing about a product; what links them is
  `CmdInv`: where in a command the task at hand is `Covered`, that is in the files, not needed by its commands, or noted as
  torn. Whatever executors write, what is covered stays so (`ChangeCovers`). `OrderInv` says that everything before the task
  at hand is done or could not be saved while a plan runs, `CleanInv` that the run's own executor wrote nothing since the
  commands passed, from the verdict to the commit. `TypeCorrect`
  adds that the task at hand is one of the plan's and that the commit a rollback takes back exists (`MaxIn`).

Three components promise that they end: a task (`PipelineEnds`), a model call (`CallEnds`) and an agent loop
(`EveryLoopEnds`). Half of each is safety, and proved: its first conjunct, `TaskAdvances`, `CallAdvances` or `LoopsAdvance`, says
that each step lowers a tuple of what is left (`Remaining`, `ToTry`, `ToDo`), compared from its first part on, and that neither a cancel nor the step
of another call or loop raises it. With each goes an invariant, that the tuple is one of natural numbers, so that no behaviour
has infinitely many such steps, whatever agents, providers, users and tools answer (`AdvanceCorrect` of `TurnProofs`,
`ModelCallProofs` and `AgentLoopProofs`). One lemma (`UsedUp`, `FewerAt`) says what lowers a tuple; each action is shown to use
up one of its parts. The other half, that a step is enabled until the end and is taken, is `ENABLED` and fairness and stays
with TLC.

The operators that go through a list or a stream are recursive functions on numbers. The induction schemes of the library take
an operator, which no installed prover can instantiate; where an induction is needed (`RunAtBound`, the decoding of streams,
the search of an order) the set of the numbers without the property is formed and its smallest element refuted.

The assumptions are the modules' own: constants have their types, a script of `Terminal` and `ProcessTree` says only what may
happen in a behaviour (`ScriptsAssumption`, `CommandsAssumption`), and an account list is finite (`ModelCallAssumption`).
`DelegationCorrect` is the one theorem with a further hypothesis, `~PlanOff`.

Model-checked only: liveness (`CancelStopsTree`, `EveryLoopEnds`, `CommandsAreHeard`, `ServerEnds`, `PipelineEnds`, `CallEnds`,
`PromptsServed`, `CommandsEnd`, `GateEnds`), because fairness and `ENABLED` are out of the prover's reach, and `DoneIsVerified`,
which the code violates. What streams, orders and reachable pages are computed to be is proved only as far as the properties
need it.

## Not modelled

Prompts, wire formats, rendering, configuration and text assets decide nothing that interleaves. The database is
seen through the goal row of `Pipeline` and the session rows and snapshots of `Terminal`. The desktop shell and Telegram are
further fronts with nothing of their own beyond `RpcServer` and `Terminal`. What the plan still has, and the rest with its reason, is listed under
`components` in `PROJECT.json`.
