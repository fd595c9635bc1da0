------------------------------ MODULE RunTree ------------------------------
(***************************************************************************)
(* One run tree of the agent harness: a root run, the runs it delegates    *)
(* with the task tool, and the reviewers a pipeline starts.  Each run has  *)
(* a lifecycle reducer, a node of the cancellation tree and a terminal     *)
(* slot.  The pipeline of a run (the driver) and the callers of            *)
(* RunContext::cancel (RPC run.cancel, end of input, TUI Esc, Telegram)    *)
(* run on different threads; every action below is one critical section    *)
(* or one atomic access, so every interleaving of them is a behaviour.     *)
(***************************************************************************)
EXTENDS Lifecycle

CONSTANTS
  Runs,        \* identities a run of this tree may have
  Root,        \* the run the user started
  Cancellers,  \* concurrent callers of RunContext::cancel on the root
  PlanOff,     \* TRUE: the engine's plan depth is Off (settable in config)
  NoRun        \* no run: the parent of the root, the argument of most events

ASSUME RunTreeAssumption == Root \in Runs /\ NoRun \notin Runs /\ PlanOff \in BOOLEAN

Kinds == {"root", "task", "reviewer"}

\* AgentOutcome.status, and "error" for a pipeline that returned Err
Outcomes == {"pending", "ok", "limit", "incomplete", "fail", "denied", "cancelled", "error"}

DriverPoints == {"absent", "pushed", "linked", "ready", "planning", "working",
                 "calling", "reviewing", "approving", "delivering", "publishing",
                 "finishing", "settling", "closing", "reporting", "done"}

CallPoints == {"idle", "checked", "requested", "walking", "accepted", "refused"}

VARIABLES
  kind, parent,  \* of each run, once created
  life, active,  \* the reducer of each run
  reason,        \* the cancel node of a run holds a reason
  kids,          \* CancelNode.children
  terminal,      \* RunControl.terminal
  pc,            \* where the driver of the run is
  outcome,       \* status of the AgentOutcome the driver holds
  verdict,       \* the terminal state finish_with_error is about to store
  published,     \* the final answer was shown
  call,          \* where each caller of cancel is
  visit, expand  \* its walk: nodes to cancel, nodes whose children are unread

runVars    == <<kind, parent, life, active, reason, kids, terminal, pc, outcome, verdict, published>>
cancelVars == <<call, visit, expand>>
vars       == <<runVars, cancelVars>>

-----------------------------------------------------------------------------
(* LifecycleRuntime::transition with its result ignored, as most callers do *)

Transition(r, event, arg) ==
  IF Accepts(event, arg, life[r], active[r])
  THEN /\ life' = [life EXCEPT ![r] = StateAfter(event, arg, active[r])]
       /\ active' = [active EXCEPT ![r] = ActiveAfter(event, arg, active[r])]
  ELSE UNCHANGED <<life, active>>

\* the status of an outcome as a terminal state
TerminalOf(o) ==
  CASE o = "ok" -> "Succeeded"
    [] o = "cancelled" -> "Cancelled"
    [] o \in {"limit", "incomplete"} -> "Limited"
    [] OTHER -> "Failed"

Children(r) == {c \in Runs : parent[c] = r}

Init ==
  /\ kind = [r \in Runs |-> "root"]
  /\ parent = [r \in Runs |-> NoRun]
  /\ life = [r \in Runs |-> IF r = Root THEN "Queued" ELSE "none"]
  /\ active = [r \in Runs |-> {}]
  /\ reason = [r \in Runs |-> FALSE]
  /\ kids = [r \in Runs |-> {}]
  /\ terminal = [r \in Runs |-> "none"]
  /\ pc = [r \in Runs |-> IF r = Root THEN "ready" ELSE "absent"]
  /\ outcome = [r \in Runs |-> "pending"]
  /\ verdict = [r \in Runs |-> "none"]
  /\ published = [r \in Runs |-> FALSE]
  /\ call = [k \in Cancellers |-> "idle"]
  /\ visit = [k \in Cancellers |-> {}]
  /\ expand = [k \in Cancellers |-> {}]

-----------------------------------------------------------------------------
(* The driver: one pipeline per run *)

Goto(r, point) == pc' = [pc EXCEPT ![r] = point]

\* run_pipeline_with_context opens with PlanningStarted or RunStarted; a
\* reviewer has no pipeline, its agent loop sends RunStarted when Queued.
\* With plan depth Off the planning block, and its RunStarted, is skipped.
Start(r, planFirst) ==
  /\ pc[r] = "ready"
  /\ kind[r] = "reviewer" => ~planFirst
  /\ Transition(r, IF planFirst THEN "PlanningStarted" ELSE "RunStarted", NoRun)
  /\ Goto(r, IF planFirst /\ ~PlanOff THEN "planning" ELSE "working")
  /\ UNCHANGED <<kind, parent, reason, kids, terminal, outcome, verdict, published, cancelVars>>

\* the planning call returned and the run was not seen cancelled
PlanDone(r) ==
  /\ pc[r] = "planning"
  /\ Transition(r, "RunStarted", NoRun)
  /\ Goto(r, "working")
  /\ UNCHANGED <<kind, parent, reason, kids, terminal, outcome, verdict, published, cancelVars>>

\* the agent loop saw no cancellation and starts the next tool call, or the
\* next span of task calls
BeginCall(r) ==
  /\ pc[r] = "working" /\ ~reason[r]
  /\ Goto(r, "calling")
  /\ UNCHANGED <<kind, parent, life, active, reason, kids, terminal, outcome, verdict, published, cancelVars>>

\* a tool that needs approval; the task tool does not
AskApproval(r) ==
  /\ pc[r] = "calling" /\ \A c \in Children(r) : pc[c] = "done"
  /\ Transition(r, "ApprovalRequested", NoRun)
  /\ Goto(r, "approving")
  /\ UNCHANGED <<kind, parent, reason, kids, terminal, outcome, verdict, published, cancelVars>>

ResolveApproval(r) ==
  /\ pc[r] = "approving"
  /\ Transition(r, "ApprovalResolved", NoRun)
  /\ Goto(r, "working")
  /\ UNCHANGED <<kind, parent, reason, kids, terminal, outcome, verdict, published, cancelVars>>

\* seeded fault: only the answer ends the wait
ApprovalUncancellable(r) == FALSE /\ UNCHANGED vars

\* the cancelled branch of decide_approval_or_cancel
ApprovalCancelled(r) ==
  /\ pc[r] = "approving" /\ reason[r]
  /\ outcome' = [outcome EXCEPT ![r] = "cancelled"]
  /\ Goto(r, IF kind[r] = "reviewer" THEN "finishing" ELSE "delivering")
  /\ UNCHANGED <<kind, parent, life, active, reason, kids, terminal, verdict, published, cancelVars>>

\* the prompt itself failed (read_approval on a broken terminal)
ApprovalFailed(r) ==
  /\ pc[r] = "approving"
  /\ outcome' = [outcome EXCEPT ![r] = "error"]
  /\ Goto(r, IF kind[r] = "reviewer" THEN "finishing" ELSE "delivering")
  /\ UNCHANGED <<kind, parent, life, active, reason, kids, terminal, verdict, published, cancelVars>>

\* the pipeline reaches the review gate
BeginReview(r) ==
  /\ pc[r] = "working" /\ kind[r] # "reviewer" /\ ~reason[r]
  /\ Goto(r, "reviewing")
  /\ UNCHANGED <<kind, parent, life, active, reason, kids, terminal, outcome, verdict, published, cancelVars>>

\* RunContext::child up to the push in RunControl::child: the child's
\* reducer is Queued and its node hangs below the parent's, still unset.
\* Only a root has the task tool, TaskTool::delegate takes it from the
\* child; a review gate runs its reviewers one after the other.
CreateChild(r, c) ==
  /\ pc[c] = "absent"
  /\ \/ pc[r] = "calling" /\ kind[r] = "root"
     \/ pc[r] = "reviewing" /\ \A d \in Children(r) : pc[d] = "done"
  /\ kind' = [kind EXCEPT ![c] = IF pc[r] = "calling" THEN "task" ELSE "reviewer"]
  /\ parent' = [parent EXCEPT ![c] = r]
  /\ life' = [life EXCEPT ![c] = "Queued"]
  /\ kids' = [kids EXCEPT ![r] = @ \cup {c}]
  /\ Goto(c, "pushed")
  /\ UNCHANGED <<active, reason, terminal, outcome, verdict, published, cancelVars>>

\* seeded fault: the new node does not look at its parent
NothingInherited(c) == FALSE

\* whether the parent is cancelled when the new node looks
InheritedReason(c) == reason[parent[c]]

\* the rest of RunControl::child: read the parent's reason and cancel the
\* new node, which nobody else can give children yet
LinkChild(c) ==
  /\ pc[c] = "pushed"
  /\ reason' = [reason EXCEPT ![c] = @ \/ InheritedReason(c)]
  /\ Goto(c, IF kind[c] = "task" THEN "linked" ELSE "ready")
  /\ UNCHANGED <<kind, parent, life, active, kids, terminal, outcome, verdict, published, cancelVars>>

\* TaskTool::delegate tells the parent's lifecycle
AnnounceChild(c) ==
  /\ pc[c] = "linked"
  /\ Transition(parent[c], "ChildStarted", c)
  /\ Goto(c, "ready")
  /\ UNCHANGED <<kind, parent, reason, kids, terminal, outcome, verdict, published, cancelVars>>

\* finish_parent, once the child's pipeline is over
ReportChild(c) ==
  /\ pc[c] = "reporting"
  /\ Transition(parent[c], "ChildFinished", c)
  /\ Goto(c, "done")
  /\ UNCHANGED <<kind, parent, reason, kids, terminal, outcome, verdict, published, cancelVars>>

\* the tool, every delegate of the span, or the review gate returned
CallReturned(r) ==
  /\ pc[r] \in {"calling", "reviewing"}
  /\ \A c \in Children(r) : pc[c] = "done"
  /\ Goto(r, "working")
  /\ UNCHANGED <<kind, parent, life, active, reason, kids, terminal, outcome, verdict, published, cancelVars>>

\* the pipeline body ends; "cancelled" only when it saw the reason
EndBody(r, o) ==
  /\ pc[r] \in {"planning", "working"}
  /\ o = "cancelled" => reason[r]
  /\ pc[r] = "planning" => o \in {"limit", "cancelled", "error"}
  /\ outcome' = [outcome EXCEPT ![r] = o]
  /\ Goto(r, IF kind[r] = "reviewer" THEN "finishing" ELSE "delivering")
  /\ UNCHANGED <<kind, parent, life, active, reason, kids, terminal, verdict, published, cancelVars>>

\* finalize_pipeline_delivery reads the token; a child publishes nothing
Deliver(r) ==
  /\ pc[r] = "delivering"
  /\ outcome' = [outcome EXCEPT ![r] = IF reason[r] THEN "cancelled" ELSE @]
  /\ Goto(r, IF ~reason[r] /\ kind[r] = "root" /\ outcome[r] = "ok"
             THEN "publishing" ELSE "finishing")
  /\ UNCHANGED <<kind, parent, life, active, reason, kids, terminal, verdict, published, cancelVars>>

\* publish_verified_answer: an empty text or a refused AnswerStarted leaves
\* the answer unpublished and the outcome incomplete
Publish(r, hasText) ==
  /\ pc[r] = "publishing"
  /\ IF hasText /\ Accepts("AnswerStarted", NoRun, life[r], active[r])
     THEN /\ Transition(r, "AnswerStarted", NoRun)
          /\ published' = [published EXCEPT ![r] = TRUE]
          /\ UNCHANGED outcome
     ELSE /\ outcome' = [outcome EXCEPT ![r] = "incomplete"]
          /\ UNCHANGED <<life, active, published>>
  /\ Goto(r, "finishing")
  /\ UNCHANGED <<kind, parent, reason, kids, terminal, verdict, cancelVars>>

\* finish_with_error, three separate accesses: the lifecycle state is read,
FinishRead(r) ==
  /\ pc[r] = "finishing"
  /\ verdict' = [verdict EXCEPT ![r] =
                   IF life[r] = "CancelRequested" THEN "Cancelled" ELSE TerminalOf(outcome[r])]
  /\ Goto(r, "settling")
  /\ UNCHANGED <<kind, parent, life, active, reason, kids, terminal, outcome, published, cancelVars>>

\* the terminal slot is set once,
FinishSet(r) ==
  /\ pc[r] = "settling"
  /\ IF terminal[r] = "none"
     THEN /\ terminal' = [terminal EXCEPT ![r] = verdict[r]]
          /\ Goto(r, "closing")
     ELSE /\ UNCHANGED terminal
          /\ Goto(r, IF kind[r] = "task" THEN "reporting" ELSE "done")
  /\ UNCHANGED <<kind, parent, life, active, reason, kids, outcome, verdict, published, cancelVars>>

\* and the lifecycle is told, its answer ignored
FinishTransition(r) ==
  /\ pc[r] = "closing"
  /\ Transition(r, "Finished", verdict[r])
  /\ Goto(r, IF kind[r] = "task" THEN "reporting" ELSE "done")
  /\ UNCHANGED <<kind, parent, reason, kids, terminal, outcome, verdict, published, cancelVars>>

\* everything a driver does without a human's answer
Driver(r) ==
  \/ \E planFirst \in BOOLEAN : Start(r, planFirst)
  \/ PlanDone(r)
  \/ BeginCall(r) \/ BeginReview(r) \/ CallReturned(r)
  \/ AskApproval(r) \/ ApprovalCancelled(r)
  \/ \E c \in Runs : CreateChild(r, c)
  \/ LinkChild(r) \/ AnnounceChild(r) \/ ReportChild(r)
  \/ \E o \in Outcomes \ {"pending"} : EndBody(r, o)
  \/ Deliver(r)
  \/ \E hasText \in BOOLEAN : Publish(r, hasText)
  \/ FinishRead(r) \/ FinishSet(r) \/ FinishTransition(r)

-----------------------------------------------------------------------------
(* RunContext::cancel on the root, by one of the callers *)

\* the early return on a token that is already set
CancelCheck(k) ==
  /\ call[k] = "idle"
  /\ call' = [call EXCEPT ![k] = IF reason[Root] THEN "refused" ELSE "checked"]
  /\ UNCHANGED <<runVars, visit, expand>>

\* seeded fault: the refusal of the lifecycle is ignored
CancelRequestUnchecked(k) ==
  /\ call[k] = "checked"
  /\ Transition(Root, "CancelRequested", NoRun)
  /\ call' = [call EXCEPT ![k] = "requested"]
  /\ UNCHANGED <<kind, parent, reason, kids, terminal, pc, outcome, verdict, published, visit, expand>>

\* the lifecycle decides: refused after AnswerStarted and after the end
CancelRequest(k) ==
  /\ call[k] = "checked"
  /\ Transition(Root, "CancelRequested", NoRun)
  /\ call' = [call EXCEPT ![k] =
       IF Accepts("CancelRequested", NoRun, life[Root], active[Root])
       THEN "requested" ELSE "refused"]
  /\ UNCHANGED <<kind, parent, reason, kids, terminal, pc, outcome, verdict, published, visit, expand>>

\* CancelNode::cancel on the root's node
CancelToken(k) ==
  /\ call[k] = "requested"
  /\ IF reason[Root]
     THEN /\ call' = [call EXCEPT ![k] = "refused"]
          /\ UNCHANGED <<reason, expand>>
     ELSE /\ call' = [call EXCEPT ![k] = "walking"]
          /\ reason' = [reason EXCEPT ![Root] = TRUE]
          /\ expand' = [expand EXCEPT ![k] = {Root}]
  /\ UNCHANGED <<kind, parent, life, active, kids, terminal, pc, outcome, verdict, published, visit>>

\* the children of a node are copied after its reason was set
WalkExpand(k, n) ==
  /\ n \in expand[k]
  /\ visit' = [visit EXCEPT ![k] = @ \cup kids[n]]
  /\ expand' = [expand EXCEPT ![k] = @ \ {n}]
  /\ UNCHANGED <<runVars, call>>

\* the recursive call on a child; a node cancelled before ends the descent
WalkVisit(k, n) ==
  /\ n \in visit[k] /\ expand[k] = {}
  /\ visit' = [visit EXCEPT ![k] = @ \ {n}]
  /\ expand' = [expand EXCEPT ![k] = IF reason[n] THEN @ ELSE {n}]
  /\ reason' = [reason EXCEPT ![n] = TRUE]
  /\ UNCHANGED <<kind, parent, life, active, kids, terminal, pc, outcome, verdict, published, call>>

\* control.cancel returned true
WalkEnd(k) ==
  /\ call[k] = "walking" /\ visit[k] = {} /\ expand[k] = {}
  /\ call' = [call EXCEPT ![k] = "accepted"]
  /\ UNCHANGED <<runVars, visit, expand>>

Cancel(k) ==
  \/ CancelCheck(k) \/ CancelRequest(k) \/ CancelToken(k)
  \/ \E n \in Runs : WalkExpand(k, n) \/ WalkVisit(k, n)
  \/ WalkEnd(k)

-----------------------------------------------------------------------------
Terminated == pc[Root] = "done" /\ \A k \in Cancellers : call[k] \in {"accepted", "refused"}

\* nothing is left to do: the tree stutters instead of deadlocking
Rest == Terminated /\ UNCHANGED vars

Next ==
  \/ \E r \in Runs : Driver(r) \/ ResolveApproval(r) \/ ApprovalFailed(r)
  \/ \E k \in Cancellers : Cancel(k)
  \/ Rest

Spec == Init /\ [][Next]_vars

\* The drivers are tasks of the async runtime, their provider calls and tools
\* carry timeouts, and a cancel that began runs to its return.  Nobody is
\* obliged to call cancel, or to answer an approval.
Fairness ==
  /\ \A r \in Runs : WF_vars(Driver(r))
  /\ \A k \in Cancellers : WF_vars(call[k] # "idle" /\ Cancel(k))

FairSpec == Spec /\ Fairness
-----------------------------------------------------------------------------
(* Properties *)

\* Every variable keeps its type.
TypeOK ==
  /\ kind \in [Runs -> Kinds] /\ parent \in [Runs -> Runs \cup {NoRun}]
  /\ life \in [Runs -> LifecycleStates] /\ active \in [Runs -> SUBSET Runs]
  /\ reason \in [Runs -> BOOLEAN] /\ kids \in [Runs -> SUBSET Runs]
  /\ terminal \in [Runs -> TerminalStates \cup {"none"}]
  /\ verdict \in [Runs -> TerminalStates \cup {"none"}]
  /\ pc \in [Runs -> DriverPoints] /\ outcome \in [Runs -> Outcomes]
  /\ published \in [Runs -> BOOLEAN]
  /\ call \in [Cancellers -> CallPoints]
  /\ visit \in [Cancellers -> SUBSET Runs] /\ expand \in [Cancellers -> SUBSET Runs]

\* The answer is committed before it is shown: once the user has seen it, no
\* caller of cancel sets the root's token, and the run is Answering until it
\* ends Succeeded, whatever was between their checks (cancel in
\* lifecycle_api.rs against publish_verified_answer).
AnswerCommits ==
  published[Root] => ~reason[Root] /\ life[Root] \in {"Answering", "Succeeded"}

\* The token of the root is set only after the lifecycle accepted the
\* request, and from then on the run cannot be reported as succeeded by its
\* lifecycle or by its terminal slot, though the two are written apart.
CancelCommits ==
  reason[Root] => /\ life[Root] \in {"CancelRequested", "Cancelled"}
                  /\ terminal[Root] # "Succeeded" /\ verdict[Root] # "Succeeded"

\* Answer and cancel exclude each other.
CommitExclusive == AnswerCommits /\ CancelCommits

\* When cancel has returned true, every run of the tree that left
\* RunContext::child is cancelled, also the ones created while the walk was
\* copying child lists (push then read, against write then copy).
CancelReachesAll ==
  (\E k \in Cancellers : call[k] = "accepted") =>
    \A r \in Runs : pc[r] \notin {"absent", "pushed"} => reason[r]

\* points of a task child at which its parent counts it as active
AnnouncedPoints == {"ready", "planning", "working", "calling", "reviewing", "approving",
                    "delivering", "publishing", "finishing", "settling", "closing", "reporting"}

\* A parent's lifecycle counts exactly the task children that run: while it
\* is not being cancelled, its active set is the delegated children between
\* ChildStarted and ChildFinished, and Delegating means there is one.  Not
\* with the plan depth Off: then it stays in Planning, which takes neither.
DelegationTracked ==
  \A r \in Runs : life[r] \in LiveStates \ {"CancelRequested"} =>
    /\ active[r] = {c \in Children(r) : kind[c] = "task" /\ pc[c] \in AnnouncedPoints}
    /\ (life[r] = "Delegating") <=> (active[r] # {})

\* A lifecycle that ended says what the terminal slot says; and a run that is
\* over has such a lifecycle unless it is the root and a cancel slipped
\* between the read and the transition of finish_with_error.
TerminalAgrees ==
  \A r \in Runs :
    /\ life[r] \in TerminalStates => terminal[r] = life[r]
    /\ pc[r] = "done" => \/ life[r] \in TerminalStates
                         \/ r = Root /\ life[r] = "CancelRequested" /\ terminal[r] # "none"

\* The terminal slot and an ended lifecycle never change again.
EndIsFinal ==
  [][\A r \in Runs : /\ terminal[r] # "none" => terminal'[r] = terminal[r]
                     /\ life[r] \in TerminalStates => life'[r] = life[r]]_vars

\* A cancelled tree comes to rest: once the root's token is set, every run
\* that exists ends, through approvals, calls and delegations under way; and
\* each caller whose request was accepted gets its answer, whatever children
\* are added while it walks.
CancelStopsTree ==
  /\ \A r \in Runs : (reason[Root] /\ pc[r] # "absent") ~> (pc[r] = "done")
  /\ \A k \in Cancellers : (call[k] = "requested") ~> (call[k] \in {"accepted", "refused"})

-----------------------------------------------------------------------------
(* What the tree promises to its users: module RunPromise *)

PhaseOf(state) ==
  CASE state = "none" -> "absent"
    [] state \in TerminalStates -> state
    [] state = "Answering" -> "answered"
    [] state = "CancelRequested" -> "cancelling"
    [] OTHER -> "open"

Promise == INSTANCE RunPromise WITH phase <- [r \in Runs |-> PhaseOf(life[r])], stop <- reason

\* The tree implements RunPromise.
ImplementsPromise == Promise!Spec
=============================================================================
