----------------------------- MODULE AgentLoop -----------------------------
(***************************************************************************)
(* The agent loops of one run tree (agent.rs, run_agent_with_delivery): a  *)
(* model is asked in turns and its tool calls are run between the turns.   *)
(* The loops share the tree's budget of model iterations, its approval     *)
(* flag, its cancel token and the workspace.                               *)
(*                                                                         *)
(* Loops that run at the same time are futures of one task (join_all): one *)
(* of them moves while the others wait at an await.  Approvals and cancels *)
(* come from other threads, at any time.                                   *)
(*                                                                         *)
(* This is the loop with deferred delivery, the only one the pipeline      *)
(* uses; the publication of the answer is in RunTree.                      *)
(***************************************************************************)
EXTENDS Integers, Sequences, FiniteSets

CONSTANTS
    Agents,
    Calls,          \* tool calls, a name and an input each
    Risky,          \* those that need an approval; they write the workspace
    Unknown,        \* those whose tool is not registered
    Tasks,          \* delegations
    Files, TargetOf,\* the file a risky call writes
    NoCall,
    MaxIterations,  \* max_iterations of each agent
    HardCap,        \* HARD_CAP, 50 in the code
    Modes,          \* how the task may be started: with --yes, from a remote chat
    Replies         \* bound: the series of tool calls that the model of each agent may ask for

ASSUME LoopAssumption ==
    /\ Risky \subseteq Calls /\ Unknown \subseteq Calls /\ Tasks \subseteq Calls
    /\ Unknown \cap (Risky \cup Tasks) = {} /\ Risky \cap Tasks = {}
    /\ TargetOf \in [Risky -> Files]
    /\ NoCall \notin Calls
    /\ MaxIterations \in [Agents -> Nat]
    /\ HardCap \in Nat \ {0}
    /\ Modes \subseteq [yes : BOOLEAN, remote : BOOLEAN]
    /\ Replies \in [Agents -> SUBSET Seq(Calls)]

VARIABLES
    mode,           \* of the task: --yes and interaction.is_remote
    pc,
    iterations,     \* turns each agent took
    allowAll,       \* allow_all, a local of each loop
    pending,        \* calls of the current turn that are not taken yet
    asked, answered,\* calls of the current turn, results collected for it
    current,        \* the call being handled
    preview,        \* state of its target when its preview was shown
    lastKey, streak,\* last_call_key and same_call_streak
    truncated, leaked, \* truncation_retries and leaked_tool_retries
    denied,         \* denied_any
    status,         \* of the outcome
    limit, used,    \* the tree's iteration budget
    approvalAll,    \* approval_all of the tree
    cancelled,      \* the tree's token
    world,          \* content of the files
    granted,        \* history: the user said yes to the current call
    lastRun, runs,  \* history: the last call started, and how often with no other call asked between
    thirdRun        \* history: a call was started for the third time like that

turnVars == <<pending, asked, answered>>
callVars == <<current, preview, granted>>
repeatVars == <<lastKey, streak>>
retryVars == <<truncated, leaked>>
runVars == <<lastRun, runs, thirdRun>>
sharedVars == <<limit, used, approvalAll, cancelled, world>>
vars == <<mode, pc, iterations, allowAll, turnVars, callVars, repeatVars, retryVars, denied,
          status, sharedVars, runVars>>

Points == {"idle", "top", "model", "tools", "approval", "launch", "running", "delegating", "ended"}
Statuses == {"none", "ok", "limit", "cancelled", "incomplete", "denied", "error"}
States == {0, 1}            \* contents of a file that the previews tell apart
NoPreview == 2
RetryCap == 2               \* truncation_retries < 2, LEAKED_TOOL_RETRY_CAP
RepeatCap == 3

Min2(a, b) == IF a < b THEN a ELSE b
Max2(a, b) == IF a < b THEN b ELSE a

TypeOK ==
    /\ mode \in Modes
    /\ pc \in [Agents -> Points]
    /\ iterations \in [Agents -> Nat]
    /\ allowAll \in [Agents -> BOOLEAN]
    /\ pending \in [Agents -> Seq(Calls)]
    /\ asked \in [Agents -> Nat] /\ answered \in [Agents -> Nat]
    /\ current \in [Agents -> Calls \cup {NoCall}]
    /\ preview \in [Agents -> States \cup {NoPreview}]
    /\ lastKey \in [Agents -> Calls \cup {NoCall}] /\ streak \in [Agents -> Nat]
    /\ truncated \in [Agents -> 0 .. RetryCap] /\ leaked \in [Agents -> 0 .. RetryCap]
    /\ denied \in [Agents -> BOOLEAN]
    /\ status \in [Agents -> Statuses]
    /\ limit \in Nat /\ used \in Nat
    /\ approvalAll \in BOOLEAN /\ cancelled \in BOOLEAN
    /\ world \in [Files -> States]
    /\ granted \in [Agents -> BOOLEAN]
    /\ lastRun \in [Agents -> Calls \cup {NoCall}]
    /\ runs \in [Agents -> Nat] /\ thirdRun \in [Agents -> BOOLEAN]

Init ==
    /\ mode \in Modes
    /\ pc = [a \in Agents |-> "idle"]
    /\ iterations = [a \in Agents |-> 0]
    /\ allowAll = [a \in Agents |-> FALSE]
    /\ pending = [a \in Agents |-> <<>>]
    /\ asked = [a \in Agents |-> 0] /\ answered = [a \in Agents |-> 0]
    /\ current = [a \in Agents |-> NoCall]
    /\ preview = [a \in Agents |-> NoPreview]
    /\ lastKey = [a \in Agents |-> NoCall] /\ streak = [a \in Agents |-> 0]
    /\ truncated = [a \in Agents |-> 0] /\ leaked = [a \in Agents |-> 0]
    /\ denied = [a \in Agents |-> FALSE]
    /\ status = [a \in Agents |-> "none"]
    /\ limit = 0 /\ used = 0
    /\ approvalAll = FALSE /\ cancelled = FALSE
    /\ world \in [Files -> {0}]
    /\ granted = [a \in Agents |-> FALSE]
    /\ lastRun = [a \in Agents |-> NoCall]
    /\ runs = [a \in Agents |-> 0] /\ thirdRun = [a \in Agents |-> FALSE]

\* From the checks to the result of a tool there is no await: no other loop of the task moves.
Free(a) == \A b \in Agents \ {a} : pc[b] \notin {"launch", "running"}

Goto(a, p) == pc' = [pc EXCEPT ![a] = p]
End(a, s) == Goto(a, "ended") /\ status' = [status EXCEPT ![a] = s]
Set(f, a, v) == [f EXCEPT ![a] = v]

-----------------------------------------------------------------------------
(* The top of the loop *)

\* Seeded fault: --yes also counts in a remote chat.
YesAnywhere == mode.yes

\* effective_yes: a remote chat never runs without approvals.
EffectiveYes == mode.yes /\ ~mode.remote

\* The first agent of the tree fixes the shared limit (ensure_model_iteration_limit).
Start(a) ==
    /\ pc[a] = "idle"
    /\ approvalAll' = (approvalAll \/ EffectiveYes)
    /\ allowAll' = Set(allowAll, a, EffectiveYes \/ approvalAll)
    /\ limit' = IF limit = 0 THEN Max2(1, Min2(MaxIterations[a], HardCap)) ELSE limit
    /\ Goto(a, "top")
    /\ UNCHANGED <<iterations, turnVars, callVars, repeatVars, retryVars, denied, status, used,
                   cancelled, world, runVars>>

TopCancelled(a) ==
    /\ pc[a] = "top" /\ cancelled
    /\ End(a, "cancelled")
    /\ UNCHANGED <<iterations, allowAll, turnVars, callVars, repeatVars, retryVars, denied,
                   sharedVars, runVars>>

TopLimit(a) ==
    /\ pc[a] = "top" /\ ~cancelled
    /\ iterations[a] >= Min2(MaxIterations[a], HardCap) \/ used >= limit
    /\ End(a, "limit")
    /\ UNCHANGED <<iterations, allowAll, turnVars, callVars, repeatVars, retryVars, denied,
                   sharedVars, runVars>>

\* Seeded fault: the limit itself may be drawn too (<=).
ClaimOneMore(a) ==
    /\ pc[a] = "top" /\ ~cancelled
    /\ iterations[a] < Min2(MaxIterations[a], HardCap)
    /\ used <= limit
    /\ used' = used + 1
    /\ iterations' = [iterations EXCEPT ![a] = @ + 1]
    /\ Goto(a, "model")
    /\ UNCHANGED <<allowAll, turnVars, callVars, repeatVars, retryVars, denied, status, limit,
                   approvalAll, cancelled, world, runVars>>

\* Seeded fault: the turn is not counted, neither for the agent nor for the tree.
ClaimFree(a) ==
    /\ pc[a] = "top" /\ ~cancelled
    /\ iterations[a] < Min2(MaxIterations[a], HardCap)
    /\ used < limit
    /\ Goto(a, "model")
    /\ UNCHANGED <<iterations, allowAll, turnVars, callVars, repeatVars, retryVars, denied,
                   status, sharedVars, runVars>>

\* claim_model_iteration: the compare-and-swap makes the check and the increment one step.
Claim(a) ==
    /\ pc[a] = "top" /\ ~cancelled
    /\ iterations[a] < Min2(MaxIterations[a], HardCap)
    /\ used < limit
    /\ used' = used + 1
    /\ iterations' = [iterations EXCEPT ![a] = @ + 1]
    /\ Goto(a, "model")
    /\ UNCHANGED <<allowAll, turnVars, callVars, repeatVars, retryVars, denied, status, limit,
                   approvalAll, cancelled, world, runVars>>

-----------------------------------------------------------------------------
(* The model's reply *)

\* await_provider_or_cancel looks at the token first.
ModelCancelled(a) ==
    /\ pc[a] = "model" /\ cancelled
    /\ End(a, "cancelled")
    /\ UNCHANGED <<iterations, allowAll, turnVars, callVars, repeatVars, retryVars, denied,
                   sharedVars, runVars>>

\* No room for a request, a provider error, or no attempt left (binding.rs).
ModelFails(a) ==
    /\ pc[a] = "model"
    /\ \E s \in {"error", "limit"} : End(a, s)
    /\ UNCHANGED <<iterations, allowAll, turnVars, callVars, repeatVars, retryVars, denied,
                   sharedVars, runVars>>

\* A text that looks like a tool call is answered with a reminder, twice at most in a row.
LeakedReply(a) ==
    /\ pc[a] = "model" /\ ~cancelled
    /\ IF leaked[a] < RetryCap
       THEN leaked' = Set(leaked, a, leaked[a] + 1) /\ Goto(a, "top") /\ UNCHANGED status
       ELSE End(a, "incomplete") /\ UNCHANGED leaked
    /\ UNCHANGED <<iterations, allowAll, turnVars, callVars, repeatVars, truncated, denied,
                   sharedVars, runVars>>

\* The reply hit the output limit before any tool call.  After two retries it is recorded, when it
\* has a text, and the run is incomplete either way.
TruncatedReply(a) ==
    /\ pc[a] = "model" /\ ~cancelled
    /\ IF truncated[a] < RetryCap
       THEN truncated' = Set(truncated, a, truncated[a] + 1) /\ Goto(a, "top") /\ UNCHANGED status
       ELSE End(a, "incomplete") /\ UNCHANGED truncated
    /\ UNCHANGED <<iterations, allowAll, turnVars, callVars, repeatVars, leaked, denied,
                   sharedVars, runVars>>

\* record_final_answer (deferred): a text is final; an empty reply is not deliverable, and so is
\* one that announces tools and calls none.
FinalReply(a, deliverable) ==
    /\ pc[a] = "model" /\ ~cancelled
    /\ End(a, IF ~deliverable THEN "incomplete" ELSE IF denied[a] THEN "denied" ELSE "ok")
    /\ UNCHANGED <<iterations, allowAll, turnVars, callVars, repeatVars, retryVars, denied,
                   sharedVars, runVars>>

ToolReply(a, calls) ==
    /\ pc[a] = "model" /\ ~cancelled
    /\ calls # <<>>
    /\ pending' = Set(pending, a, calls)
    /\ asked' = Set(asked, a, Len(calls))
    /\ answered' = Set(answered, a, 0)
    /\ Goto(a, "tools")
    /\ UNCHANGED <<iterations, allowAll, callVars, repeatVars, retryVars, denied, status,
                   sharedVars, runVars>>

\* All calls have their result: they go to the transcript, and progress resets the retries.
TurnDone(a) ==
    /\ pc[a] = "tools" /\ pending[a] = <<>>
    /\ truncated' = Set(truncated, a, 0)
    /\ leaked' = Set(leaked, a, 0)
    /\ Goto(a, "top")
    /\ UNCHANGED <<iterations, allowAll, turnVars, callVars, repeatVars, denied, status,
                   sharedVars, runVars>>

-----------------------------------------------------------------------------
(* Tool calls *)

ToolCancelled(a) ==
    /\ pc[a] = "tools" /\ pending[a] # <<>> /\ cancelled
    /\ End(a, "cancelled")
    /\ UNCHANGED <<iterations, allowAll, turnVars, callVars, repeatVars, retryVars, denied,
                   sharedVars, runVars>>

\* How often in a row the i-th call of a series was made, when `count` calls of `last` came before.
RunAt(last, count, series, i) ==
    LET before(j) == IF j = 1 THEN last ELSE series[j - 1]
        run[j \in 0 .. Len(series)] ==
            IF j = 0 THEN count ELSE IF series[j] = before(j) THEN run[j - 1] + 1 ELSE 1
    IN run[i]

\* same_call_repeated, one call of the series after the other.
StreakAt(a, series, i) == RunAt(lastKey[a], streak[a], series, i)

\* Seeded fault: the third call in a row still runs.
RepeatedLate(a, series) == \E i \in 1 .. Len(series) : StreakAt(a, series, i) > RepeatCap

Repeated(a, series) == \E i \in 1 .. Len(series) : StreakAt(a, series, i) >= RepeatCap

Count(a, series) ==
    LET n == Len(series) IN
    /\ streak' = Set(streak, a, StreakAt(a, series, n))
    /\ lastKey' = Set(lastKey, a, series[n])

\* History of the calls that were started.
RecordRuns(a, series) ==
    LET n == Len(series)
        count(i) == RunAt(lastRun[a], runs[a], series, i)
    IN /\ lastRun' = Set(lastRun, a, series[n])
       /\ runs' = Set(runs, a, count(n))
       /\ thirdRun' = Set(thirdRun, a, thirdRun[a] \/ \E i \in 1 .. n : count(i) >= 3)

\* leading_task_span: the delegations at the head of the turn run together when nothing has to be
\* approved; a single one takes the sequential path.
Span(a, n) ==
    /\ allowAll[a] /\ n >= 2
    /\ \A i \in 1 .. n : pending[a][i] \in Tasks
    /\ n < Len(pending[a]) => pending[a][n + 1] \notin Tasks

StartBatch(a) ==
    /\ pc[a] = "tools" /\ ~cancelled
    /\ \E n \in 2 .. Len(pending[a]) :
       /\ Span(a, n)
       /\ LET batch == SubSeq(pending[a], 1, n) IN
          /\ Count(a, batch)
          /\ IF Repeated(a, batch)
             THEN End(a, "limit") /\ UNCHANGED runVars
             ELSE Goto(a, "delegating") /\ RecordRuns(a, batch) /\ UNCHANGED status
       /\ pending' = Set(pending, a, SubSeq(pending[a], n + 1, Len(pending[a])))
    /\ current' = Set(current, a, NoCall)
    /\ UNCHANGED <<iterations, allowAll, asked, answered, preview, granted, retryVars, denied,
                   sharedVars>>

\* join_all: every delegation of the batch has its result, an error or not.
BatchDone(a) ==
    /\ pc[a] = "delegating" /\ current[a] = NoCall
    /\ answered' = Set(answered, a, asked[a] - Len(pending[a]))
    /\ Goto(a, "tools")
    /\ UNCHANGED <<iterations, allowAll, pending, asked, callVars, repeatVars, retryVars, denied,
                   status, sharedVars, runVars>>

\* The result of the current call is known: the next call of the turn.
Answer(a) == answered' = Set(answered, a, answered[a] + 1) /\ Goto(a, "tools")

NeedsApproval(a, c) == c \in Risky /\ ~allowAll[a]

\* The next call is taken off the turn: refused when it repeats, answered when its tool is unknown
\* or its preview fails, shown to the user when it needs an approval, else about to start.
TakeCall(a) ==
    /\ pc[a] = "tools" /\ pending[a] # <<>> /\ ~cancelled
    /\ \A n \in 2 .. Len(pending[a]) : ~Span(a, n)
    /\ LET c == Head(pending[a]) IN
       /\ Count(a, <<c>>)
       /\ pending' = Set(pending, a, Tail(pending[a]))
       /\ current' = Set(current, a, c)
       /\ granted' = Set(granted, a, FALSE)
       /\ lastRun' = Set(lastRun, a, IF c = lastRun[a] THEN c ELSE NoCall)
       /\ runs' = Set(runs, a, IF c = lastRun[a] THEN runs[a] ELSE 0)
       /\ \/ /\ Repeated(a, <<c>>)
             /\ End(a, "limit") /\ preview' = Set(preview, a, NoPreview) /\ UNCHANGED answered
          \/ /\ ~Repeated(a, <<c>>)
             /\ c \in Unknown \/ NeedsApproval(a, c)
             /\ Answer(a) /\ preview' = Set(preview, a, NoPreview) /\ UNCHANGED status
          \/ /\ ~Repeated(a, <<c>>) /\ NeedsApproval(a, c)
             /\ Goto(a, "approval") /\ preview' = Set(preview, a, world[TargetOf[c]])
             /\ UNCHANGED <<answered, status>>
          \/ /\ ~Repeated(a, <<c>>) /\ c \notin Unknown /\ ~NeedsApproval(a, c)
             /\ Goto(a, "launch") /\ preview' = Set(preview, a, NoPreview)
             /\ UNCHANGED <<answered, status>>
    /\ UNCHANGED <<iterations, allowAll, asked, retryVars, denied, sharedVars, thirdRun>>

ApprovalCancelled(a) ==
    /\ pc[a] = "approval" /\ cancelled
    /\ End(a, "cancelled")
    /\ UNCHANGED <<iterations, allowAll, turnVars, callVars, repeatVars, retryVars, denied,
                   sharedVars, runVars>>

\* The question cannot be read, or the second preview fails.
ApprovalFails(a) ==
    /\ pc[a] = "approval"
    /\ End(a, "error")
    /\ UNCHANGED <<iterations, allowAll, turnVars, callVars, repeatVars, retryVars, denied,
                   sharedVars, runVars>>

\* Seeded fault: a refused call gets no result.
DenySilently(a) ==
    /\ pc[a] = "approval"
    /\ denied' = Set(denied, a, TRUE)
    /\ Goto(a, "tools")
    /\ UNCHANGED <<iterations, allowAll, turnVars, callVars, repeatVars, retryVars, status,
                   sharedVars, runVars>>

\* "No", from the user or because a remote approval timed out.
Deny(a) ==
    /\ pc[a] = "approval"
    /\ denied' = Set(denied, a, TRUE)
    /\ Answer(a)
    /\ UNCHANGED <<iterations, allowAll, pending, asked, callVars, repeatVars, retryVars, status,
                   sharedVars, runVars>>

\* Seeded fault: the target is not looked at again after the question.
ApproveStale(a, always) ==
    /\ pc[a] = "approval"
    /\ always => ~mode.remote
    /\ granted' = Set(granted, a, TRUE)
    /\ allowAll' = IF always THEN Set(allowAll, a, TRUE) ELSE allowAll
    /\ approvalAll' = (approvalAll \/ always)
    /\ Goto(a, "launch")
    /\ UNCHANGED <<iterations, pending, asked, answered, current, preview, repeatVars, retryVars,
                   denied, status, limit, used, cancelled, world, runVars>>

\* "Yes" or "always": the target is looked at again, and a changed one is not touched.  Both ends
\* of the select may be ready: an approval counts although the run was just cancelled.
Approve(a, always) ==
    /\ pc[a] = "approval"
    /\ always => ~mode.remote
    /\ granted' = Set(granted, a, TRUE)
    /\ \/ /\ world[TargetOf[current[a]]] # preview[a]
          /\ Answer(a) /\ UNCHANGED <<allowAll, approvalAll>>
       \/ /\ world[TargetOf[current[a]]] = preview[a]
          /\ allowAll' = IF always THEN Set(allowAll, a, TRUE) ELSE allowAll
          /\ approvalAll' = (approvalAll \/ always)
          /\ Goto(a, "launch") /\ UNCHANGED answered
    /\ UNCHANGED <<iterations, pending, asked, current, preview, repeatVars, retryVars, denied,
                   status, limit, used, cancelled, world, runVars>>

\* tool.run starts: the token was last looked at when the call was taken.
Launch(a) ==
    /\ pc[a] = "launch"
    /\ RecordRuns(a, <<current[a]>>)
    /\ Goto(a, IF current[a] \in Tasks THEN "delegating" ELSE "running")
    /\ UNCHANGED <<iterations, allowAll, turnVars, callVars, repeatVars, retryVars, denied, status,
                   sharedVars>>

\* tool.run returns, with a result or an error; a risky tool may have written its file.
ToolReturns(a) ==
    /\ pc[a] \in {"running", "delegating"} /\ current[a] # NoCall
    /\ IF current[a] \in Risky
       THEN \E v \in States : world' = [world EXCEPT ![TargetOf[current[a]]] = v]
       ELSE UNCHANGED world
    /\ \/ cancelled /\ End(a, "cancelled") /\ UNCHANGED answered
       \/ ~cancelled /\ Answer(a) /\ UNCHANGED status
    /\ UNCHANGED <<iterations, allowAll, pending, asked, callVars, repeatVars, retryVars, denied,
                   limit, used, approvalAll, cancelled, runVars>>

-----------------------------------------------------------------------------

\* RunContext::cancel on the root: every run of the tree sees the token.
Cancel ==
    /\ ~cancelled
    /\ cancelled' = TRUE
    /\ UNCHANGED <<mode, pc, iterations, allowAll, turnVars, callVars, repeatVars, retryVars, denied,
                   status, limit, used, approvalAll, world, runVars>>

Turn(a) ==
    \/ Start(a) \/ TopCancelled(a) \/ TopLimit(a) \/ Claim(a)
    \/ ModelCancelled(a) \/ ModelFails(a) \/ LeakedReply(a) \/ TruncatedReply(a)
    \/ \E deliverable \in BOOLEAN : FinalReply(a, deliverable)
    \/ \E calls \in Replies[a] : ToolReply(a, calls)
    \/ TurnDone(a)

Tool(a) ==
    \/ ToolCancelled(a) \/ StartBatch(a) \/ BatchDone(a) \/ TakeCall(a) \/ Launch(a) \/ ToolReturns(a)

Approval(a) ==
    \/ ApprovalCancelled(a) \/ ApprovalFails(a) \/ Deny(a)
    \/ \E always \in BOOLEAN : Approve(a, always)

Step(a) == Free(a) /\ UNCHANGED mode /\ (Turn(a) \/ Tool(a) \/ Approval(a))

\* Every loop has ended: the tree rests.
Rest == (\A a \in Agents : pc[a] = "ended") /\ UNCHANGED vars

Next == (\E a \in Agents : Step(a)) \/ Cancel \/ Rest

Spec == Init /\ [][Next]_vars

\* A loop that can move does, and an approval gets an answer: a remote or RPC question is
\* answered "no" when its time is over.
FairSpec == Spec /\ \A a \in Agents : WF_vars(Step(a))

-----------------------------------------------------------------------------
(* Properties *)

\* RELEASE_NOTES_v1.1.9.md:18: all runs of a tree draw on one budget, and what they report adds up
\* to what was drawn.
BudgetIsShared ==
    /\ used = Cardinality({t \in Agents \X (1 .. HardCap) : t[2] <= iterations[t[1]]})
    /\ used <= limit /\ limit <= HardCap

\* When the model is asked again, each call of its last turn has exactly one result, whichever way
\* the call ended; a provider refuses a transcript with an open call.
EveryCallAnswered ==
    \A a \in Agents : /\ pc[a] \in {"top", "model"} => answered[a] = asked[a]
                      /\ pc[a] = "tools" => answered[a] + Len(pending[a]) = asked[a]

\* A risky tool runs only after a yes for this very call, or after --yes or an "always" that took
\* effect somewhere in the tree; never without a question when the approvals are remote.
ConsentNeeded ==
    \A a \in Agents : pc[a] \in {"launch", "running"} /\ current[a] \in Risky =>
        granted[a] \/ (approvalAll /\ ~mode.remote)

\* A tool that was approved on its preview acts on the state that the preview showed, although
\* other loops wrote the workspace while the question was open.
PreviewFaithful ==
    \A a \in Agents : pc[a] \in {"launch", "running"} /\ preview[a] # NoPreview =>
        world[TargetOf[current[a]]] = preview[a]

\* No loop runs one call three times with no other call between, across turns, approvals and
\* parallel batches (agent.rs:41: only a loop in place is stopped).
NoThirdRun == \A a \in Agents : ~thirdRun[a]

\* What a loop may still do, the most significant first: turns, the reply that is awaited, calls of the
\* turn; then how far it is with the current call.
Stage(a) == CASE pc[a] = "idle" -> 2 [] pc[a] = "ended" -> 0 [] OTHER -> 1

Phase(a) ==
    CASE pc[a] = "model" -> 2
      [] pc[a] \in {"tools", "approval", "launch", "running", "delegating"} -> 1
      [] OTHER -> 0

Point(a) == CASE pc[a] = "approval" -> 3 [] pc[a] = "launch" -> 2 [] pc[a] \in {"running", "delegating"} -> 1 [] OTHER -> 0

ToDo(a) == << Stage(a), Min2(MaxIterations[a], HardCap) - iterations[a], Phase(a), Len(pending[a]), Point(a) >>

Fewer(x, y) == \E i \in 1 .. 5 : x[i] < y[i] /\ \A j \in 1 .. 5 : j < i => x[j] = y[j]

\* No loop goes round in circles: whatever models, users and tools answer, a step uses up a turn or a
\* part of one, which neither a retry nor another loop gives back; a cancel takes nothing from it.
LoopsAdvance ==
    [][\/ cancelled' # cancelled /\ \A a \in Agents : ToDo(a)' = ToDo(a)
       \/ \E a \in Agents : /\ Fewer(ToDo(a)', ToDo(a))
                            /\ \A b \in Agents \ {a} : ToDo(b)' = ToDo(b)]_vars

\* Every loop ends, and comes closer to its end with each step: retries, repeated calls and refused
\* approvals all use up iterations.
EveryLoopEnds == LoopsAdvance /\ <>(\A a \in Agents : pc[a] = "ended")
=============================================================================
