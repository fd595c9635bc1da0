----------------------------- MODULE Lifecycle -----------------------------
(***************************************************************************)
(* The lifecycle of one run: LifecycleReducer::apply                       *)
(* (agent-harness/src/lifecycle/reducer.rs), as two operators.  An event is *)
(* a name and an argument: the child run of "ChildStarted" and             *)
(* "ChildFinished", the outcome of "Finished"; other events ignore it.     *)
(* The reducer holds a state and the set of the active children.  What     *)
(* Accepts refuses leaves both unchanged (the IllegalTransition error).    *)
(***************************************************************************)

TerminalStates == {"Succeeded", "Limited", "Failed", "Cancelled"}

LiveStates == {"Queued", "Planning", "Running", "WaitingApproval",
               "Delegating", "Answering", "CancelRequested"}

\* "none" is the reducer before Queued: Option::None
LifecycleStates == {"none"} \cup LiveStates \cup TerminalStates

\* events whose only effect is that they are refused outside Running
WorkEvents == {"Iteration", "Tokens", "ToolStarted", "ToolFinished"}

\* seeded faults: a late cancel overrides the answer, or an ended run
CancellableWhileAnswering == LiveStates \ {"CancelRequested"}
CancellableWhenOver == (LiveStates \cup TerminalStates) \ {"Answering", "CancelRequested"}

\* the states CancelRequested leaves: an answer being published is not one
CancellableStates == LiveStates \ {"Answering", "CancelRequested"}

\* seeded fault: a run cannot end while it waits for an approval
FinishableUnlessWaiting == LiveStates \ {"WaitingApproval"}

\* the states Finished leaves
FinishableStates == LiveStates

\* the outcomes Finished may carry: a requested cancel admits only Cancelled
OutcomesFrom(state) == IF state = "CancelRequested" THEN {"Cancelled"} ELSE TerminalStates

Accepts(event, arg, state, active) ==
  \/ event = "Queued" /\ state = "none"
  \/ event = "PlanningStarted" /\ state = "Queued"
  \/ event = "RunStarted" /\ state \in {"Queued", "Planning", "WaitingApproval"}
  \/ event \in WorkEvents \cup {"ApprovalRequested"} /\ state = "Running"
  \/ event = "ApprovalResolved" /\ state = "WaitingApproval"
  \/ event = "ChildStarted" /\ state \in {"Running", "Delegating"} /\ arg \notin active
  \/ event = "ChildFinished" /\ state = "Delegating" /\ arg \in active
  \/ event = "AnswerStarted" /\ state \in {"Running", "Planning"}
  \/ event = "CancelRequested" /\ state \in CancellableStates
  \/ event = "Finished" /\ state \in FinishableStates /\ arg \in OutcomesFrom(state)

\* the active children after an accepted event
ActiveAfter(event, arg, active) ==
  CASE event = "ChildStarted"  -> active \cup {arg}
    [] event = "ChildFinished" -> active \ {arg}
    [] event = "Finished"      -> {}
    [] OTHER                   -> active

\* seeded fault: the first child to finish ends the delegation
StateAfterAnyChild(child, active) == "Running"

\* a finished child ends the delegation when it was the last active one
StateAfterChild(child, active) == IF active \subseteq {child} THEN "Running" ELSE "Delegating"

\* the state after an accepted event
StateAfter(event, arg, active) ==
  CASE event = "Queued"            -> "Queued"
    [] event = "PlanningStarted"   -> "Planning"
    [] event = "ApprovalRequested" -> "WaitingApproval"
    [] event = "ChildStarted"      -> "Delegating"
    [] event = "ChildFinished"     -> StateAfterChild(arg, active)
    [] event = "AnswerStarted"     -> "Answering"
    [] event = "CancelRequested"   -> "CancelRequested"
    [] event = "Finished"          -> arg
    [] OTHER                       -> "Running"
=============================================================================
