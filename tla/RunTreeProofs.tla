--------------------------- MODULE RunTreeProofs ---------------------------
(***************************************************************************)
(* Proofs about RunTree, for any set of runs and of callers of cancel.     *)
(* The inductive invariant IInv is TypeOK with three parts: where the      *)
(* drivers can be (TreeInv), which of answer and cancel was committed      *)
(* (CommitInv), and what a walk in progress still has to reach (WalkInv).  *)
(***************************************************************************)
EXTENDS RunTree, TLAPS

Created == {r \in Runs : pc[r] # "absent"}
Linked  == {r \in Runs : pc[r] \notin {"absent", "pushed"}}

\* The shape of the tree.  A task hangs below the root, a reviewer below the
\* root or a task, so a chain of parents has at most three runs.
TreeInv ==
  /\ Root \in Linked /\ kind[Root] = "root" /\ pc[Root] \notin {"linked", "reporting"}
  /\ \A r \in Runs : (pc[r] = "absent") <=> (life[r] = "none")
  /\ \A c \in Created \ {Root} :
       /\ parent[c] \in Linked /\ c \in kids[parent[c]]
       /\ \/ kind[c] = "task" /\ parent[c] = Root
          \/ kind[c] = "reviewer" /\ (parent[c] = Root \/ kind[parent[c]] = "task")
  /\ \A r \in Runs : kids[r] \subseteq Created
  /\ \A r \in Runs : pc[r] = "reviewing" => kind[r] # "reviewer"

Over == {"CancelRequested", "Cancelled"}

\* A caller that the lifecycle accepted
Held == {"requested", "walking", "accepted"}

Ending == {"finishing", "settling", "closing", "done"}

\* A cancel is in the lifecycle before it is anywhere else.
TokenInv ==
  /\ \A k \in Cancellers : call[k] \in Held => life[Root] \in Over
  /\ reason[Root] => life[Root] \in Over
  /\ \A r \in Runs : reason[r] => reason[Root]
  /\ \A r \in Runs : outcome[r] = "cancelled" => reason[r]
  /\ \A r \in Runs : verdict[r] = "Cancelled" => reason[r] \/ (r = Root /\ life[Root] \in Over)

\* Only the root answers, and only a published answer succeeds.
AnswerInv ==
  /\ \A r \in Runs \ {Root} : /\ life[r] \notin {"CancelRequested", "Answering"}
                              /\ ~published[r] /\ pc[r] # "publishing"
  /\ \A r \in Runs : pc[r] \in {"settling", "closing"} => verdict[r] # "none"
  /\ published[Root] => /\ life[Root] \in {"Answering", "Succeeded"}
                        /\ pc[Root] \in Ending /\ outcome[Root] = "ok"
                        /\ pc[Root] # "finishing" => verdict[Root] = "Succeeded"
  /\ pc[Root] \in Ending /\ outcome[Root] = "ok" => published[Root]
  /\ pc[Root] = "publishing" => outcome[Root] = "ok"
  /\ life[Root] = "Answering" => published[Root]
  /\ verdict[Root] = "Succeeded" => published[Root]
  /\ terminal[Root] = "Succeeded" => published[Root]

\* Which of answer and cancel was committed.
CommitInv == TokenInv /\ AnswerInv

\* What is left of a walk: below a cancelled run, a linked child that is not
\* cancelled yet is still in front of some caller's walk.
WalkInv ==
  /\ \A k \in Cancellers : /\ visit[k] \subseteq Created /\ expand[k] \subseteq Created
                           /\ (visit[k] # {} \/ expand[k] # {}) => (reason[Root] /\ call[k] = "walking")
                           /\ call[k] \in {"walking", "accepted"} => reason[Root]
  /\ \A k, j \in Cancellers : call[k] \in Held /\ call[j] \in Held => k = j
  /\ \A c \in Linked \ {Root} : reason[parent[c]] /\ ~reason[c] =>
       \E k \in Cancellers : parent[c] \in expand[k] \/ c \in visit[k]

IInv == TypeOK /\ TreeInv /\ CommitInv /\ WalkInv

-----------------------------------------------------------------------------
(* The reducer *)

\* What the reducer answers is a lifecycle state other than "none".
LEMMA StateAfterType ==
  ASSUME NEW event, NEW arg, NEW state, NEW act, Accepts(event, arg, state, act)
  PROVE  StateAfter(event, arg, act) \in LiveStates \cup TerminalStates
BY DEF Accepts, StateAfter, StateAfterChild, OutcomesFrom, LiveStates, TerminalStates,
       WorkEvents, CancellableStates, FinishableStates

\* A transition keeps the types, of whatever run it is.
LEMMA TransitionType ==
  ASSUME life \in [Runs -> LifecycleStates], active \in [Runs -> SUBSET Runs],
         NEW r, NEW event, NEW arg, event = "ChildStarted" => arg \in Runs,
         Transition(r, event, arg)
  PROVE  life' \in [Runs -> LifecycleStates] /\ active' \in [Runs -> SUBSET Runs]
<1>1. CASE Accepts(event, arg, life[r], active[r])
  <2>1. StateAfter(event, arg, active[r]) \in LifecycleStates
    BY <1>1, StateAfterType DEF LifecycleStates
  <2>2. r \in Runs => ActiveAfter(event, arg, active[r]) \in SUBSET Runs
    BY DEF ActiveAfter
  <2> QED BY <1>1, <2>1, <2>2 DEF Transition
<1>2. CASE ~Accepts(event, arg, life[r], active[r])
  BY <1>2 DEF Transition
<1> QED BY <1>1, <1>2

-----------------------------------------------------------------------------
(* Types *)

LEMMA InitType == Init => TypeOK
BY RunTreeAssumption DEF Init, TypeOK, Kinds, LifecycleStates, LiveStates, DriverPoints, Outcomes,
   CallPoints

\* Every step of a driver, of an approval and of a caller keeps the types.
LEMMA NextType == TypeOK /\ [Next]_vars => TypeOK'
<1> SUFFICES ASSUME TypeOK, [Next]_vars PROVE TypeOK'
  OBVIOUS
<1> USE DEF TypeOK, Goto, DriverPoints, Outcomes, Kinds, CallPoints, runVars, cancelVars
<1>1. ASSUME NEW r \in Runs, NEW p \in BOOLEAN, Start(r, p) PROVE TypeOK'
  BY <1>1, TransitionType DEF Start
<1>2. ASSUME NEW r \in Runs, PlanDone(r) PROVE TypeOK'
  BY <1>2, TransitionType DEF PlanDone
<1>3. ASSUME NEW r \in Runs, BeginCall(r) \/ BeginReview(r) \/ CallReturned(r) PROVE TypeOK'
  BY <1>3 DEF BeginCall, BeginReview, CallReturned
<1>4. ASSUME NEW r \in Runs, AskApproval(r) PROVE TypeOK'
  BY <1>4, TransitionType DEF AskApproval
<1>5. ASSUME NEW r \in Runs, ResolveApproval(r) PROVE TypeOK'
  BY <1>5, TransitionType DEF ResolveApproval
<1>6. ASSUME NEW r \in Runs, ApprovalCancelled(r) \/ ApprovalFailed(r) PROVE TypeOK'
  BY <1>6 DEF ApprovalCancelled, ApprovalFailed
<1>7. ASSUME NEW r \in Runs, NEW c \in Runs, CreateChild(r, c) PROVE TypeOK'
  BY <1>7 DEF CreateChild, LifecycleStates, LiveStates
<1>8. ASSUME NEW r \in Runs, LinkChild(r) PROVE TypeOK'
  <2>1. reason' \in [Runs -> BOOLEAN]
    <3>1. CASE reason[r] \/ InheritedReason(r)
      BY <1>8, <3>1 DEF LinkChild
    <3>2. CASE ~(reason[r] \/ InheritedReason(r))
      BY <1>8, <3>2 DEF LinkChild
    <3> QED BY <3>1, <3>2
  <2> QED BY <1>8, <2>1 DEF LinkChild
<1>9. ASSUME NEW r \in Runs, AnnounceChild(r) PROVE TypeOK'
  BY <1>9, TransitionType DEF AnnounceChild
<1>10. ASSUME NEW r \in Runs, ReportChild(r) PROVE TypeOK'
  BY <1>10, TransitionType DEF ReportChild
<1>11. ASSUME NEW r \in Runs, NEW o \in Outcomes \ {"pending"}, EndBody(r, o) PROVE TypeOK'
  BY <1>11 DEF EndBody
<1>12. ASSUME NEW r \in Runs, Deliver(r) PROVE TypeOK'
  BY <1>12 DEF Deliver
<1>13. ASSUME NEW r \in Runs, NEW h \in BOOLEAN, Publish(r, h) PROVE TypeOK'
  BY <1>13, TransitionType DEF Publish
<1>14. ASSUME NEW r \in Runs, FinishRead(r) PROVE TypeOK'
  BY <1>14 DEF FinishRead, TerminalOf, TerminalStates
<1>15. ASSUME NEW r \in Runs, FinishSet(r) PROVE TypeOK'
  BY <1>15 DEF FinishSet
<1>16. ASSUME NEW r \in Runs, FinishTransition(r) PROVE TypeOK'
  BY <1>16, TransitionType DEF FinishTransition
<1>17. ASSUME NEW k \in Cancellers, CancelCheck(k) PROVE TypeOK'
  BY <1>17 DEF CancelCheck
<1>18. ASSUME NEW k \in Cancellers, CancelRequest(k) PROVE TypeOK'
  BY <1>18, TransitionType DEF CancelRequest
<1>19. ASSUME NEW k \in Cancellers, CancelToken(k) PROVE TypeOK'
  <2>1. CASE reason[Root]
    BY <1>19, <2>1 DEF CancelToken
  <2>2. CASE ~reason[Root]
    <3>1. expand' = [expand EXCEPT ![k] = {Root}] /\ {Root} \in SUBSET Runs
      BY <1>19, <2>2, RunTreeAssumption DEF CancelToken
    <3>2. expand' \in [Cancellers -> SUBSET Runs]
      BY <3>1
    <3> QED BY <1>19, <2>2, <3>2 DEF CancelToken
  <2> QED BY <2>1, <2>2
<1>20. ASSUME NEW k \in Cancellers, NEW n \in Runs, WalkExpand(k, n) PROVE TypeOK'
  BY <1>20 DEF WalkExpand
<1>21. ASSUME NEW k \in Cancellers, NEW n \in Runs, WalkVisit(k, n) PROVE TypeOK'
  BY <1>21 DEF WalkVisit
<1>22. ASSUME NEW k \in Cancellers, WalkEnd(k) PROVE TypeOK'
  BY <1>22 DEF WalkEnd
<1>23. CASE UNCHANGED vars
  BY <1>23 DEF vars
<1> QED
  BY <1>1, <1>2, <1>3, <1>4, <1>5, <1>6, <1>7, <1>8, <1>9, <1>10, <1>11, <1>12, <1>13, <1>14,
     <1>15, <1>16, <1>17, <1>18, <1>19, <1>20, <1>21, <1>22, <1>23
     DEF Next, Driver, Cancel, Rest

\* Every variable keeps its type, whatever the interleaving.
THEOREM TypeCorrect == Spec => []TypeOK
BY InitType, NextType, PTL DEF Spec

-----------------------------------------------------------------------------
(* The shape of the tree *)

\* A transition other than Queued touches one run, and neither creates nor
\* destroys its reducer.
LEMMA TransitionEffect ==
  ASSUME TypeOK, NEW r \in Runs, NEW event, NEW arg, event # "Queued", Transition(r, event, arg)
  PROVE  /\ \A q \in Runs : (life'[q] = "none") <=> (life[q] = "none")
         /\ \A q \in Runs \ {r} : life'[q] = life[q]
         /\ life'[r] = life[r] \/ ( /\ Accepts(event, arg, life[r], active[r])
                                   /\ life'[r] = StateAfter(event, arg, active[r]) )
<1>1. CASE Accepts(event, arg, life[r], active[r])
  <2>1. life' = [life EXCEPT ![r] = StateAfter(event, arg, active[r])]
    BY <1>1 DEF Transition
  <2>2. StateAfter(event, arg, active[r]) # "none"
    BY <1>1, StateAfterType DEF LiveStates, TerminalStates
  <2>3. life[r] # "none"
    BY <1>1 DEF Accepts, WorkEvents, CancellableStates, FinishableStates, LiveStates
  <2> QED BY <1>1, <2>1, <2>2, <2>3 DEF TypeOK
<1>2. CASE ~Accepts(event, arg, life[r], active[r])
  BY <1>2 DEF Transition
<1> QED BY <1>1, <1>2

\* Moving the driver of a linked run keeps the shape.
LEMMA TreeMove ==
  ASSUME TypeOK, TreeInv, NEW r \in Linked, NEW point,
         point \notin {"absent", "pushed", "linked"}, point = "reporting" => r # Root,
         point = "reviewing" => kind[r] # "reviewer",
         Goto(r, point), UNCHANGED <<kind, parent, kids>>,
         \A q \in Runs : (life'[q] = "none") <=> (life[q] = "none")
  PROVE  TreeInv'
<1> USE DEF Goto, Linked, Created
<1>1. \A q \in Runs : (q \in Linked' <=> q \in Linked) /\ (q \in Created' <=> q \in Created)
  BY DEF TypeOK
<1>2. Linked' = Linked /\ Created' = Created
  BY <1>1
<1>3. (Root \in Linked /\ kind[Root] = "root" /\ pc[Root] \notin {"linked", "reporting"})'
  BY <1>2, RunTreeAssumption DEF TypeOK, TreeInv
<1>4. \A q \in Runs : (pc'[q] = "absent") <=> (life'[q] = "none")
  BY DEF TypeOK, TreeInv
<1>5. \A q \in Runs : pc'[q] = "reviewing" => kind'[q] # "reviewer"
  BY DEF TypeOK, TreeInv
<1> HIDE DEF Linked, Created
<1> QED BY <1>2, <1>3, <1>4, <1>5 DEF TreeInv

\* A step that moves no driver keeps the shape.
LEMMA TreeStay ==
  ASSUME TypeOK, TreeInv, UNCHANGED <<kind, parent, kids, pc>>,
         \A q \in Runs : (life'[q] = "none") <=> (life[q] = "none")
  PROVE  TreeInv'
BY DEF TreeInv, Linked, Created

LEMMA TreeStep == TypeOK /\ TreeInv /\ [Next]_vars => TreeInv'
<1> SUFFICES ASSUME TypeOK, TreeInv, [Next]_vars PROVE TreeInv'
  OBVIOUS
<1> USE DEF Linked
<1>1. ASSUME NEW r \in Runs, NEW p \in BOOLEAN, Start(r, p) PROVE TreeInv'
  BY <1>1, TransitionEffect, TreeMove DEF Start
<1>2. ASSUME NEW r \in Runs, PlanDone(r) PROVE TreeInv'
  BY <1>2, TransitionEffect, TreeMove DEF PlanDone
<1>3. ASSUME NEW r \in Runs, BeginCall(r) \/ BeginReview(r) \/ CallReturned(r) PROVE TreeInv'
  BY <1>3, TreeMove DEF BeginCall, BeginReview, CallReturned
<1>4. ASSUME NEW r \in Runs, AskApproval(r) PROVE TreeInv'
  BY <1>4, TransitionEffect, TreeMove DEF AskApproval
<1>5. ASSUME NEW r \in Runs, ResolveApproval(r) PROVE TreeInv'
  BY <1>5, TransitionEffect, TreeMove DEF ResolveApproval
<1>6. ASSUME NEW r \in Runs, ApprovalCancelled(r) \/ ApprovalFailed(r) PROVE TreeInv'
  BY <1>6, TreeMove DEF ApprovalCancelled, ApprovalFailed
<1>7. ASSUME NEW r \in Runs, NEW c \in Runs, CreateChild(r, c) PROVE TreeInv'
  <2>1. r \in Linked /\ c \notin Created /\ c # r
    BY <1>7 DEF CreateChild, Created
  <2>2. /\ kind' = [kind EXCEPT ![c] = IF pc[r] = "calling" THEN "task" ELSE "reviewer"]
        /\ parent' = [parent EXCEPT ![c] = r]
        /\ life' = [life EXCEPT ![c] = "Queued"]
        /\ kids' = [kids EXCEPT ![r] = @ \cup {c}]
        /\ pc' = [pc EXCEPT ![c] = "pushed"]
    BY <1>7 DEF CreateChild, Goto
  <2>3. Linked' = Linked /\ Created' = Created \cup {c}
    BY <2>1, <2>2 DEF TypeOK, Created
  <2>4. c # Root
    BY <2>1 DEF TreeInv, Created
  <2>5. (Root \in Linked /\ kind[Root] = "root" /\ pc[Root] \notin {"linked", "reporting"})'
    BY <2>2, <2>3, <2>4, RunTreeAssumption DEF TypeOK, TreeInv
  <2>6. \A q \in Runs : (pc'[q] = "absent") <=> (life'[q] = "none")
    BY <2>2 DEF TypeOK, TreeInv
  <2>7. /\ parent'[c] = r /\ c \in kids'[r]
        /\ \/ kind'[c] = "task" /\ r = Root
           \/ kind'[c] = "reviewer" /\ (r = Root \/ kind'[r] = "task")
    <3>1. kind[r] = "root" => r = Root
      BY <2>1 DEF TreeInv, Created
    <3>3. (pc[r] = "calling" /\ kind[r] = "root") \/ (pc[r] = "reviewing" /\ kind[r] # "reviewer")
      BY <1>7 DEF CreateChild, TreeInv
    <3>4. parent'[c] = r /\ c \in kids'[r] /\ kind'[r] = kind[r]
      BY <2>1, <2>2 DEF TypeOK
    <3>5. kind'[c] = IF pc[r] = "calling" THEN "task" ELSE "reviewer"
      BY <2>2 DEF TypeOK
    <3>6. kind[r] \in {"root", "task", "reviewer"}
      BY DEF TypeOK, Kinds
    <3> QED BY <3>1, <3>3, <3>4, <3>5, <3>6
  <2>8. ASSUME NEW d \in Created \ {Root}
        PROVE  /\ parent'[d] \in Linked /\ d \in kids'[parent'[d]]
               /\ \/ kind'[d] = "task" /\ parent'[d] = Root
                  \/ kind'[d] = "reviewer" /\ (parent'[d] = Root \/ kind'[parent'[d]] = "task")
    BY <2>1, <2>2, <2>8 DEF TypeOK, TreeInv, Created
  <2>9. \A q \in Runs : kids'[q] \subseteq Created'
    BY <2>2, <2>3 DEF TypeOK, TreeInv
  <2>10. \A q \in Runs : pc'[q] = "reviewing" => kind'[q] # "reviewer"
    BY <2>1, <2>2 DEF TypeOK, TreeInv, Created
  <2> QED BY <2>1, <2>3, <2>4, <2>5, <2>6, <2>7, <2>8, <2>9, <2>10 DEF TreeInv
<1>8. ASSUME NEW r \in Runs, LinkChild(r) PROVE TreeInv'
  <2>1. r # Root /\ r \in Created
    BY <1>8 DEF LinkChild, TreeInv, Created
  <2>2. Linked' = Linked \cup {r} /\ Created' = Created
    BY <1>8 DEF LinkChild, Goto, TypeOK, Created
  <2>3. \A q \in Runs : (pc'[q] = "absent") <=> (life'[q] = "none")
    BY <1>8 DEF LinkChild, Goto, TypeOK, TreeInv
  <2>4. (Root \in Linked /\ kind[Root] = "root" /\ pc[Root] \notin {"linked", "reporting"})'
    BY <1>8, <2>1, <2>2, RunTreeAssumption DEF LinkChild, Goto, TypeOK, TreeInv
  <2>5. kind' = kind /\ parent' = parent /\ kids' = kids
    BY <1>8 DEF LinkChild
  <2>6. \A q \in Runs : pc'[q] = "reviewing" => kind'[q] # "reviewer"
    BY <1>8 DEF LinkChild, Goto, TypeOK, TreeInv
  <2> HIDE DEF Linked
  <2> QED BY <2>2, <2>3, <2>4, <2>5, <2>6 DEF TreeInv
<1>9. ASSUME NEW r \in Runs, AnnounceChild(r) PROVE TreeInv'
  <2>1. parent[r] \in Runs
    BY <1>9 DEF AnnounceChild, TreeInv, Created
  <2> QED BY <1>9, <2>1, TransitionEffect, TreeMove DEF AnnounceChild
<1>10. ASSUME NEW r \in Runs, ReportChild(r) PROVE TreeInv'
  <2>1. parent[r] \in Runs
    BY <1>10 DEF ReportChild, TreeInv, Created
  <2> QED BY <1>10, <2>1, TransitionEffect, TreeMove DEF ReportChild
<1>11. ASSUME NEW r \in Runs, NEW o \in Outcomes \ {"pending"}, EndBody(r, o) PROVE TreeInv'
  BY <1>11, TreeMove DEF EndBody
<1>12. ASSUME NEW r \in Runs, Deliver(r) PROVE TreeInv'
  BY <1>12, TreeMove DEF Deliver
<1>13. ASSUME NEW r \in Runs, NEW h \in BOOLEAN, Publish(r, h) PROVE TreeInv'
  <2>1. \A q \in Runs : (life'[q] = "none") <=> (life[q] = "none")
    BY <1>13, TransitionEffect DEF Publish
  <2> QED BY <1>13, <2>1, TreeMove DEF Publish
<1>14. ASSUME NEW r \in Runs, FinishRead(r) PROVE TreeInv'
  BY <1>14, TreeMove DEF FinishRead
<1>15. ASSUME NEW r \in Runs, FinishSet(r) PROVE TreeInv'
  <2>1. kind[r] = "task" => r # Root
    BY DEF TreeInv
  <2> QED BY <1>15, <2>1, TreeMove DEF FinishSet
<1>16. ASSUME NEW r \in Runs, FinishTransition(r) PROVE TreeInv'
  <2>1. kind[r] = "task" => r # Root
    BY DEF TreeInv
  <2> QED BY <1>16, <2>1, TransitionEffect, TreeMove DEF FinishTransition
<1>17. ASSUME NEW k \in Cancellers, Cancel(k) PROVE TreeInv'
  <2>1. CASE CancelRequest(k)
    BY <2>1, RunTreeAssumption, TransitionEffect, TreeStay DEF CancelRequest
  <2>2. CASE ~CancelRequest(k)
    BY <1>17, <2>2, TreeStay
       DEF Cancel, CancelCheck, CancelToken, WalkExpand, WalkVisit, WalkEnd, runVars
  <2> QED BY <2>1, <2>2
<1>18. CASE UNCHANGED vars
  BY <1>18, TreeStay DEF vars, runVars
<1> QED
  BY <1>1, <1>2, <1>3, <1>4, <1>5, <1>6, <1>7, <1>8, <1>9, <1>10, <1>11, <1>12, <1>13, <1>14,
     <1>15, <1>16, <1>17, <1>18 DEF Next, Driver, Rest

-----------------------------------------------------------------------------
(* Answer and cancel *)

\* What a transition does to the states that seal the fate of a run.
LEMMA SealedStep ==
  ASSUME TypeOK, NEW r \in Runs, NEW event, NEW arg, event # "Queued", Transition(r, event, arg),
         NEW q \in Runs
  PROVE  /\ life[q] \in Over => life'[q] \in Over
         /\ life[q] \in TerminalStates => life'[q] = life[q]
         /\ life[q] = "Answering" =>
              life'[q] = "Answering" \/ (q = r /\ event = "Finished" /\ life'[q] = arg)
         /\ life'[q] = "Answering" => life[q] = "Answering" \/ (q = r /\ event = "AnswerStarted")
         /\ life'[q] = "CancelRequested" =>
              life[q] = "CancelRequested" \/ (q = r /\ event = "CancelRequested")
<1>1. CASE life'[q] = life[q]
  BY <1>1
<1>2. CASE life'[q] # life[q]
  <2>1. q = r /\ Accepts(event, arg, life[q], active[q])
        /\ life'[q] = StateAfter(event, arg, active[q])
    BY <1>2, TransitionEffect
  <2>2. life[q] \in Over \cup TerminalStates \cup {"Answering"} => event = "Finished"
    BY <2>1 DEF Accepts, Over, TerminalStates, WorkEvents, CancellableStates, LiveStates
  <2>3. event = "Finished" => /\ life'[q] = arg /\ arg \in TerminalStates
                              /\ life[q] = "CancelRequested" => arg = "Cancelled"
                              /\ life[q] \notin TerminalStates
    BY <2>1 DEF Accepts, StateAfter, OutcomesFrom, FinishableStates, LiveStates, TerminalStates,
       WorkEvents
  <2>4. event \notin {"AnswerStarted", "Finished"} => life'[q] # "Answering"
    BY <2>1 DEF StateAfter, StateAfterChild
  <2>5. event \notin {"CancelRequested", "Finished"} => life'[q] # "CancelRequested"
    BY <2>1 DEF StateAfter, StateAfterChild
  <2> QED BY <2>1, <2>2, <2>3, <2>4, <2>5 DEF Over, TerminalStates
<1> QED BY <1>1, <1>2

\* Neither answer nor cancel is committed by a step that moves one driver
\* that is not ending, with at most an event of work.
LEMMA CommitMove ==
  ASSUME TypeOK, CommitInv, NEW r \in Runs, NEW q \in Runs, NEW point, NEW event, NEW arg,
         event \notin {"Queued", "Finished", "AnswerStarted", "CancelRequested"},
         Transition(q, event, arg) \/ UNCHANGED life,
         Goto(r, point), point \notin {"publishing", "settling", "closing"},
         r # Root \/ (pc[r] \notin Ending /\ point \notin Ending),
         UNCHANGED <<reason, terminal, outcome, verdict, published, call>>
  PROVE  CommitInv'
<1>1. \A p \in Runs : /\ life[p] \in Over => life'[p] \in Over
                      /\ life[p] \in TerminalStates => life'[p] = life[p]
                      /\ life'[p] = "Answering" <=> life[p] = "Answering"
                      /\ life'[p] = "CancelRequested" => life[p] = "CancelRequested"
  <2>1. CASE UNCHANGED life
    BY <2>1
  <2>2. CASE Transition(q, event, arg)
    BY <2>2, SealedStep
  <2> QED BY <2>1, <2>2
<1>2. TokenInv'
  BY <1>1, RunTreeAssumption DEF CommitInv, TokenInv
<1>3. AnswerInv'
  <2>1. pc'[Root] \in Ending <=> pc[Root] \in Ending
    BY RunTreeAssumption DEF Goto, TypeOK
  <2>2. pc[Root] \in Ending => pc'[Root] = pc[Root]
    BY RunTreeAssumption DEF Goto, TypeOK
  <2>3. \A p \in Runs : pc'[p] \in {"publishing", "settling", "closing"} => pc[p] = pc'[p]
    BY DEF Goto, TypeOK
  <2> QED
    BY <1>1, <2>1, <2>2, <2>3, RunTreeAssumption DEF CommitInv, AnswerInv, TerminalStates
<1> QED BY <1>2, <1>3 DEF CommitInv

LEMMA CommitStep == TypeOK /\ TreeInv /\ CommitInv /\ WalkInv /\ [Next]_vars => CommitInv'
<1> SUFFICES ASSUME TypeOK, TreeInv, CommitInv, WalkInv, [Next]_vars PROVE CommitInv'
  OBVIOUS
<1> USE DEF Ending
<1>1. ASSUME NEW r \in Runs, NEW p \in BOOLEAN, Start(r, p) PROVE CommitInv'
  BY <1>1, CommitMove DEF Start, cancelVars
<1>2. ASSUME NEW r \in Runs, PlanDone(r) PROVE CommitInv'
  BY <1>2, CommitMove DEF PlanDone, cancelVars
<1>3. ASSUME NEW r \in Runs, BeginCall(r) \/ BeginReview(r) \/ CallReturned(r) PROVE CommitInv'
  BY <1>3, CommitMove DEF BeginCall, BeginReview, CallReturned, cancelVars
<1>4. ASSUME NEW r \in Runs, AskApproval(r) PROVE CommitInv'
  BY <1>4, CommitMove DEF AskApproval, cancelVars
<1>5. ASSUME NEW r \in Runs, ResolveApproval(r) PROVE CommitInv'
  BY <1>5, CommitMove DEF ResolveApproval, cancelVars
<1>6. ASSUME NEW r \in Runs, ApprovalCancelled(r) \/ ApprovalFailed(r) PROVE CommitInv'
  <2>1. r = Root => kind[r] # "reviewer"
    BY DEF TreeInv
  <2>2. TokenInv'
    BY <1>6 DEF ApprovalCancelled, ApprovalFailed, cancelVars, CommitInv, TokenInv, TypeOK
  <2>3. AnswerInv'
    BY <1>6, <2>1, RunTreeAssumption
       DEF ApprovalCancelled, ApprovalFailed, cancelVars, CommitInv, AnswerInv, Goto, TypeOK
  <2> QED BY <2>2, <2>3 DEF CommitInv
<1>7. ASSUME NEW r \in Runs, NEW c \in Runs, CreateChild(r, c) PROVE CommitInv'
  <2>1. c # Root
    BY <1>7 DEF CreateChild, TreeInv, Linked
  <2>2. TokenInv'
    BY <1>7, <2>1, RunTreeAssumption DEF CreateChild, cancelVars, CommitInv, TokenInv, TypeOK
  <2>3. AnswerInv'
    BY <1>7, <2>1, RunTreeAssumption
       DEF CreateChild, cancelVars, CommitInv, AnswerInv, Goto, TypeOK
  <2> QED BY <2>2, <2>3 DEF CommitInv
<1>8. ASSUME NEW r \in Runs, LinkChild(r) PROVE CommitInv'
  <2>1. r # Root /\ parent[r] \in Runs
    BY <1>8 DEF LinkChild, TreeInv, Linked, Created
  <2>2. \A q \in Runs : reason'[q] <=> reason[q] \/ (q = r /\ reason[parent[r]])
    BY <1>8 DEF LinkChild, InheritedReason, TypeOK
  <2>3. TokenInv'
    BY <1>8, <2>1, <2>2, RunTreeAssumption DEF LinkChild, cancelVars, CommitInv, TokenInv
  <2>4. AnswerInv'
    BY <1>8, <2>1, RunTreeAssumption
       DEF LinkChild, cancelVars, CommitInv, AnswerInv, Goto, TypeOK
  <2> QED BY <2>3, <2>4 DEF CommitInv
<1>9. ASSUME NEW r \in Runs, AnnounceChild(r) PROVE CommitInv'
  <2>1. parent[r] \in Runs /\ r # Root
    BY <1>9 DEF AnnounceChild, TreeInv, Created, Linked
  <2> QED BY <1>9, <2>1, CommitMove DEF AnnounceChild, cancelVars
<1>10. ASSUME NEW r \in Runs, ReportChild(r) PROVE CommitInv'
  <2>1. parent[r] \in Runs /\ r # Root
    BY <1>10 DEF ReportChild, TreeInv, Created, Linked
  <2> QED BY <1>10, <2>1, CommitMove DEF ReportChild, cancelVars
<1>11. ASSUME NEW r \in Runs, NEW o \in Outcomes \ {"pending"}, EndBody(r, o) PROVE CommitInv'
  <2>1. r = Root => kind[r] # "reviewer"
    BY DEF TreeInv
  <2>2. TokenInv'
    BY <1>11 DEF EndBody, cancelVars, CommitInv, TokenInv, TypeOK
  <2>3. AnswerInv'
    BY <1>11, <2>1, RunTreeAssumption
       DEF EndBody, cancelVars, CommitInv, AnswerInv, Goto, TypeOK
  <2> QED BY <2>2, <2>3 DEF CommitInv
<1>12. ASSUME NEW r \in Runs, Deliver(r) PROVE CommitInv'
  <2>1. kind[r] = "root" <=> r = Root
    BY <1>12 DEF Deliver, TreeInv, Created
  <2>2. TokenInv'
    BY <1>12 DEF Deliver, cancelVars, CommitInv, TokenInv, TypeOK
  <2>3. AnswerInv'
    BY <1>12, <2>1, RunTreeAssumption
       DEF Deliver, cancelVars, CommitInv, AnswerInv, Goto, TypeOK
  <2> QED BY <2>2, <2>3 DEF CommitInv
<1>13. ASSUME NEW r \in Runs, NEW h \in BOOLEAN, Publish(r, h) PROVE CommitInv'
  <2>1. UNCHANGED <<reason, terminal, verdict, call>> /\ pc[r] = "publishing"
        /\ pc' = [pc EXCEPT ![r] = "finishing"]
    BY <1>13 DEF Publish, cancelVars, Goto
  <2>2. CASE h /\ Accepts("AnswerStarted", NoRun, life[r], active[r])
    <3>1. PICK a : Transition(r, "AnswerStarted", a) /\ life' = [life EXCEPT ![r] = "Answering"]
      BY <1>13, <2>2 DEF Publish, Transition, StateAfter, WorkEvents
    <3>2. outcome' = outcome /\ published' = [published EXCEPT ![r] = TRUE]
      BY <1>13, <2>2 DEF Publish
    <3>3. life[r] \notin Over
      BY <2>2 DEF Accepts, Over, WorkEvents
    <3>4. r = Root
      BY <2>1 DEF CommitInv, AnswerInv
    <3>5. TokenInv'
      BY <2>1, <3>1, <3>2, <3>3, <3>4, RunTreeAssumption DEF CommitInv, TokenInv, TypeOK
    <3>6. AnswerInv'
      BY <2>1, <3>1, <3>2, <3>4, RunTreeAssumption DEF CommitInv, AnswerInv, TypeOK
    <3> QED BY <3>5, <3>6 DEF CommitInv
  <2>3. CASE ~(h /\ Accepts("AnswerStarted", NoRun, life[r], active[r]))
    <3>1. outcome' = [outcome EXCEPT ![r] = "incomplete"] /\ UNCHANGED <<life, published>>
      BY <1>13, <2>3 DEF Publish
    <3> QED BY <2>1, <3>1, RunTreeAssumption DEF CommitInv, TokenInv, AnswerInv, TypeOK
  <2> QED BY <2>2, <2>3
<1>14. ASSUME NEW r \in Runs, FinishRead(r) PROVE CommitInv'
  <2>1. /\ verdict' = [verdict EXCEPT ![r] =
                         IF life[r] = "CancelRequested" THEN "Cancelled" ELSE TerminalOf(outcome[r])]
        /\ pc[r] = "finishing" /\ pc' = [pc EXCEPT ![r] = "settling"]
        /\ UNCHANGED <<life, reason, terminal, outcome, published, call>>
    BY <1>14 DEF FinishRead, Goto, cancelVars
  <2>2. /\ TerminalOf(outcome[r]) = "Cancelled" => outcome[r] = "cancelled"
        /\ TerminalOf(outcome[r]) = "Succeeded" <=> outcome[r] = "ok"
        /\ TerminalOf(outcome[r]) # "none"
    BY DEF TerminalOf
  <2>3. TokenInv'
    BY <2>1, <2>2, RunTreeAssumption DEF CommitInv, TokenInv, AnswerInv, TypeOK, Over
  <2>4. AnswerInv'
    BY <2>1, <2>2, RunTreeAssumption DEF CommitInv, AnswerInv, TypeOK, Over
  <2> QED BY <2>3, <2>4 DEF CommitInv
<1>15. ASSUME NEW r \in Runs, FinishSet(r) PROVE CommitInv'
  <2>1. PICK point \in {"closing", "reporting", "done"} : pc' = [pc EXCEPT ![r] = point]
    BY <1>15 DEF FinishSet, Goto
  <2>2. /\ pc[r] = "settling"
        /\ terminal' = [terminal EXCEPT ![r] = verdict[r]] \/ UNCHANGED terminal
        /\ UNCHANGED <<kind, life, reason, outcome, verdict, published, call>>
    BY <1>15 DEF FinishSet, cancelVars
  <2>3. r = Root => point # "reporting"
    BY <1>15, <2>1 DEF FinishSet, Goto, TreeInv, TypeOK
  <2>4. TokenInv'
    BY <2>2 DEF CommitInv, TokenInv
  <2>5. AnswerInv'
    BY <2>1, <2>2, <2>3, RunTreeAssumption DEF CommitInv, AnswerInv, TypeOK
  <2> QED BY <2>4, <2>5 DEF CommitInv
<1>16. ASSUME NEW r \in Runs, FinishTransition(r) PROVE CommitInv'
  <2>1. PICK point \in {"reporting", "done"} : pc' = [pc EXCEPT ![r] = point]
    BY <1>16 DEF FinishTransition, Goto
  <2>2. /\ pc[r] = "closing" /\ Transition(r, "Finished", verdict[r])
        /\ UNCHANGED <<kind, reason, terminal, outcome, verdict, published, call>>
    BY <1>16 DEF FinishTransition, cancelVars
  <2>3. r = Root => point # "reporting"
    BY <1>16, <2>1 DEF FinishTransition, Goto, TreeInv, TypeOK
  <2>4. \A q \in Runs :
          /\ life[q] \in Over => life'[q] \in Over
          /\ life[q] \in TerminalStates => life'[q] = life[q]
          /\ life[q] = "Answering" => life'[q] = "Answering" \/ (q = r /\ life'[q] = verdict[r])
          /\ life'[q] = "Answering" => life[q] = "Answering"
          /\ life'[q] = "CancelRequested" => life[q] = "CancelRequested"
    BY <2>2, SealedStep
  <2>5. TokenInv'
    BY <2>2, <2>4, RunTreeAssumption DEF CommitInv, TokenInv
  <2>6. AnswerInv'
    BY <2>1, <2>2, <2>3, <2>4, RunTreeAssumption DEF CommitInv, AnswerInv, TypeOK, TerminalStates
  <2> QED BY <2>5, <2>6 DEF CommitInv
<1>17. ASSUME NEW k \in Cancellers,
              CancelCheck(k) \/ WalkEnd(k) \/ \E n \in Runs : WalkExpand(k, n)
       PROVE  CommitInv'
  <2>1. /\ UNCHANGED <<pc, life, reason, terminal, outcome, verdict, published>>
        /\ \A j \in Cancellers : call'[j] \in Held => call[j] \in Held
    BY <1>17 DEF CancelCheck, WalkEnd, WalkExpand, runVars, Held, TypeOK
  <2> QED BY <2>1 DEF CommitInv, TokenInv, AnswerInv
<1>18. ASSUME NEW k \in Cancellers, CancelRequest(k) PROVE CommitInv'
  <2>1. /\ UNCHANGED <<pc, reason, terminal, outcome, verdict, published>>
        /\ Transition(Root, "CancelRequested", NoRun)
    BY <1>18 DEF CancelRequest
  <2>2. CASE Accepts("CancelRequested", NoRun, life[Root], active[Root])
    <3>1. life' = [life EXCEPT ![Root] = "CancelRequested"] /\ life[Root] # "Answering"
          /\ life[Root] \notin TerminalStates
      BY <2>1, <2>2 DEF Transition, StateAfter, Accepts, CancellableStates, LiveStates,
         TerminalStates, WorkEvents
    <3>2. TokenInv'
      BY <2>1, <3>1, RunTreeAssumption DEF CommitInv, TokenInv, TypeOK, Over
    <3>3. AnswerInv'
      BY <2>1, <3>1, RunTreeAssumption DEF CommitInv, AnswerInv, TypeOK, TerminalStates
    <3> QED BY <3>2, <3>3 DEF CommitInv
  <2>3. CASE ~Accepts("CancelRequested", NoRun, life[Root], active[Root])
    <3>1. UNCHANGED life /\ \A j \in Cancellers : call'[j] \in Held => call[j] \in Held
      BY <1>18, <2>1, <2>3 DEF CancelRequest, Transition, TypeOK, Held
    <3> QED BY <2>1, <3>1 DEF CommitInv, TokenInv, AnswerInv
  <2> QED BY <2>2, <2>3
<1>19. ASSUME NEW k \in Cancellers, CancelToken(k) PROVE CommitInv'
  <2>1. /\ UNCHANGED <<pc, life, terminal, outcome, verdict, published>>
        /\ call[k] = "requested"
        /\ reason' = [reason EXCEPT ![Root] = TRUE] \/ UNCHANGED reason
        /\ \A j \in Cancellers : call'[j] \in Held => call[j] \in Held
    BY <1>19 DEF CancelToken, TypeOK, Held
  <2> QED BY <2>1, RunTreeAssumption DEF CommitInv, TokenInv, AnswerInv, TypeOK, Held
<1>20. ASSUME NEW k \in Cancellers, NEW n \in Runs, WalkVisit(k, n) PROVE CommitInv'
  <2>1. /\ UNCHANGED <<pc, life, terminal, outcome, verdict, published, call>>
        /\ reason' = [reason EXCEPT ![n] = TRUE] /\ n \in visit[k]
    BY <1>20 DEF WalkVisit
  <2>2. reason[Root]
    BY <1>20, <2>1 DEF WalkInv
  <2> QED BY <2>1, <2>2, RunTreeAssumption DEF CommitInv, TokenInv, AnswerInv, TypeOK
<1>21. CASE UNCHANGED vars
  BY <1>21 DEF vars, runVars, cancelVars, CommitInv, TokenInv, AnswerInv
<1> QED
  BY <1>1, <1>2, <1>3, <1>4, <1>5, <1>6, <1>7, <1>8, <1>9, <1>10, <1>11, <1>12, <1>13, <1>14,
     <1>15, <1>16, <1>17, <1>18, <1>19, <1>20, <1>21 DEF Next, Driver, Cancel, Rest

-----------------------------------------------------------------------------
(* The walk *)

\* A step of the driver of a linked run leaves every walk what it had to do.
LEMMA WalkStay ==
  ASSUME TypeOK, WalkInv, NEW r \in Linked, NEW point,
         point \notin {"absent", "pushed"}, Goto(r, point),
         UNCHANGED <<parent, reason, call, visit, expand>>
  PROVE  WalkInv'
<1>1. \A q \in Runs : (q \in Linked' <=> q \in Linked) /\ (q \in Created' <=> q \in Created)
  BY DEF TypeOK, Goto, Linked, Created
<1>2. Linked' = Linked /\ Created' = Created
  BY <1>1 DEF Linked, Created
<1> QED BY <1>2 DEF WalkInv

LEMMA WalkStep ==
  TypeOK /\ TreeInv /\ CommitInv /\ WalkInv /\ [Next]_vars => WalkInv'
<1> SUFFICES ASSUME TypeOK, TreeInv, CommitInv, WalkInv, [Next]_vars PROVE WalkInv'
  OBVIOUS
<1>1. ASSUME NEW r \in Runs, NEW p \in BOOLEAN, Start(r, p) PROVE WalkInv'
  BY <1>1, WalkStay DEF Start, cancelVars, Linked
<1>2. ASSUME NEW r \in Runs, PlanDone(r) \/ AskApproval(r) \/ ResolveApproval(r) PROVE WalkInv'
  BY <1>2, WalkStay DEF PlanDone, AskApproval, ResolveApproval, cancelVars, Linked
<1>3. ASSUME NEW r \in Runs, BeginCall(r) \/ BeginReview(r) \/ CallReturned(r) PROVE WalkInv'
  BY <1>3, WalkStay DEF BeginCall, BeginReview, CallReturned, cancelVars, Linked
<1>4. ASSUME NEW r \in Runs, ApprovalCancelled(r) \/ ApprovalFailed(r) PROVE WalkInv'
  BY <1>4, WalkStay DEF ApprovalCancelled, ApprovalFailed, cancelVars, Linked
<1>5. ASSUME NEW r \in Runs, NEW c \in Runs, CreateChild(r, c) PROVE WalkInv'
  <2>1. c \notin Created
    BY <1>5 DEF CreateChild, Created
  <2>2. Linked' = Linked /\ Created' = Created \cup {c}
    BY <1>5 DEF CreateChild, Goto, TypeOK, Linked, Created
  <2>3. \A d \in Linked \ {Root} : parent'[d] = parent[d]
    BY <1>5, <2>1 DEF CreateChild, TypeOK, Linked, Created
  <2>4. UNCHANGED <<reason, call, visit, expand>>
    BY <1>5 DEF CreateChild, cancelVars
  <2> QED BY <2>2, <2>3, <2>4 DEF WalkInv
<1>6. ASSUME NEW r \in Runs, LinkChild(r) PROVE WalkInv'
  <2>1. r # Root /\ parent[r] \in Linked
    BY <1>6 DEF LinkChild, TreeInv, Linked, Created
  <2>2. Linked' = Linked \cup {r} /\ Created' = Created /\ r \notin Linked
    BY <1>6 DEF LinkChild, Goto, TypeOK, Linked, Created
  <2>3. \A q \in Runs : reason'[q] <=> reason[q] \/ (q = r /\ reason[parent[r]])
    BY <1>6 DEF LinkChild, InheritedReason, TypeOK
  <2>4. UNCHANGED <<parent, call, visit, expand>>
    BY <1>6 DEF LinkChild, cancelVars
  <2>5. ASSUME NEW c \in Linked' \ {Root}, reason'[parent'[c]], ~reason'[c]
        PROVE  \E k \in Cancellers : parent'[c] \in expand'[k] \/ c \in visit'[k]
    <3>1. parent[c] \in Linked /\ c \in Runs
      BY <2>1, <2>2, <2>5 DEF TreeInv, Linked, Created
    <3>2. c # r /\ reason[parent[c]] /\ ~reason[c]
      BY <2>2, <2>3, <2>4, <2>5, <3>1 DEF Linked
    <3> QED BY <2>2, <2>4, <2>5, <3>2 DEF WalkInv
  <2>6. reason'[Root] <=> reason[Root]
    BY <2>1, <2>3, RunTreeAssumption
  <2> QED BY <2>2, <2>4, <2>5, <2>6 DEF WalkInv
<1>7. ASSUME NEW r \in Runs, AnnounceChild(r) \/ ReportChild(r) PROVE WalkInv'
  BY <1>7, WalkStay DEF AnnounceChild, ReportChild, cancelVars, Linked
<1>8. ASSUME NEW r \in Runs, NEW o \in Outcomes \ {"pending"}, EndBody(r, o) PROVE WalkInv'
  BY <1>8, WalkStay DEF EndBody, cancelVars, Linked
<1>9. ASSUME NEW r \in Runs, Deliver(r) PROVE WalkInv'
  BY <1>9, WalkStay DEF Deliver, cancelVars, Linked
<1>10. ASSUME NEW r \in Runs, NEW h \in BOOLEAN, Publish(r, h) PROVE WalkInv'
  BY <1>10, WalkStay DEF Publish, cancelVars, Linked
<1>11. ASSUME NEW r \in Runs, FinishRead(r) \/ FinishSet(r) \/ FinishTransition(r) PROVE WalkInv'
  BY <1>11, WalkStay DEF FinishRead, FinishSet, FinishTransition, cancelVars, Linked
<1>12. ASSUME NEW k \in Cancellers, CancelCheck(k) PROVE WalkInv'
  <2>1. UNCHANGED <<parent, reason, pc, visit, expand>>
    BY <1>12 DEF CancelCheck, runVars
  <2>2. call[k] = "idle" /\ call'[k] \notin Held
        /\ \A j \in Cancellers \ {k} : call'[j] = call[j]
    BY <1>12 DEF CancelCheck, TypeOK, Held
  <2>3. \A j \in Cancellers : (call'[j] \in Held => call'[j] = call[j])
                              /\ (call[j] = "walking" => call'[j] = "walking")
    BY <2>2
  <2> QED BY <2>1, <2>3 DEF WalkInv, Linked, Created, Held
<1>13. ASSUME NEW k \in Cancellers, CancelRequest(k) PROVE WalkInv'
  <2>1. UNCHANGED <<parent, reason, pc, visit, expand>>
    BY <1>13 DEF CancelRequest
  <2>2. call[k] = "checked" /\ call'[k] \in {"requested", "refused"}
        /\ \A j \in Cancellers \ {k} : call'[j] = call[j]
    BY <1>13 DEF CancelRequest, TypeOK
  <2>3. \A j \in Cancellers : (call'[j] \in {"walking", "accepted"} => call'[j] = call[j])
                              /\ (call[j] = "walking" => call'[j] = "walking")
    BY <2>2
  <2>4. call'[k] \in Held => \A j \in Cancellers : call[j] \notin Held
    BY <1>13, <2>2
       DEF CancelRequest, CommitInv, TokenInv, Accepts, CancellableStates, LiveStates, Over,
           WorkEvents, Held, TypeOK
  <2>5. \A i, j \in Cancellers : call'[i] \in Held /\ call'[j] \in Held => i = j
    BY <2>2, <2>4 DEF WalkInv
  <2> QED BY <2>1, <2>3, <2>5 DEF WalkInv, Linked, Created
<1>14. ASSUME NEW k \in Cancellers, CancelToken(k) PROVE WalkInv'
  <2>1. UNCHANGED <<parent, pc, visit>> /\ call[k] = "requested"
    BY <1>14 DEF CancelToken
  <2>2. CASE reason[Root]
    <3>1. call' = [call EXCEPT ![k] = "refused"] /\ UNCHANGED <<reason, expand>>
      BY <1>14, <2>2 DEF CancelToken
    <3> QED BY <2>1, <3>1 DEF WalkInv, Linked, Created, Held, TypeOK
  <2>3. CASE ~reason[Root]
    <3>1. /\ call' = [call EXCEPT ![k] = "walking"] /\ reason' = [reason EXCEPT ![Root] = TRUE]
          /\ expand' = [expand EXCEPT ![k] = {Root}]
      BY <1>14, <2>3 DEF CancelToken
    <3>2. \A r \in Runs : ~reason[r]
      BY <2>3 DEF CommitInv, TokenInv
    <3>3. Linked' = Linked /\ Created' = Created
      BY <2>1 DEF Linked, Created
    <3>4. \A i, j \in Cancellers : call'[i] \in Held /\ call'[j] \in Held => i = j
      BY <2>1, <3>1 DEF WalkInv, Held, TypeOK
    <3>5. ASSUME NEW j \in Cancellers
          PROVE  /\ visit'[j] \subseteq Created' /\ expand'[j] \subseteq Created'
                 /\ (visit'[j] # {} \/ expand'[j] # {}) => (reason'[Root] /\ call'[j] = "walking")
                 /\ call'[j] \in {"walking", "accepted"} => reason'[Root]
      BY <2>1, <2>3, <3>1, <3>3, RunTreeAssumption
         DEF WalkInv, TypeOK, TreeInv, Linked, Created
    <3>6. ASSUME NEW c \in Linked' \ {Root}, reason'[parent'[c]], ~reason'[c]
          PROVE  parent'[c] \in expand'[k]
      <4>1. parent[c] \in Runs
        BY <3>3, <3>6 DEF TreeInv, Linked, Created
      <4>2. parent[c] = Root
        BY <2>1, <3>1, <3>2, <3>6, <4>1 DEF TypeOK
      <4> QED BY <2>1, <3>1, <4>2 DEF TypeOK
    <3> QED BY <3>4, <3>5, <3>6 DEF WalkInv
  <2> QED BY <2>2, <2>3
<1>15. ASSUME NEW k \in Cancellers, NEW n \in Runs, WalkExpand(k, n) PROVE WalkInv'
  <2>1. /\ UNCHANGED <<parent, pc, reason, call, kids>> /\ n \in expand[k]
        /\ visit' = [visit EXCEPT ![k] = @ \cup kids[n]]
        /\ expand' = [expand EXCEPT ![k] = @ \ {n}]
    BY <1>15 DEF WalkExpand, runVars
  <2>2. Linked' = Linked /\ Created' = Created
    BY <2>1 DEF Linked, Created
  <2>3. ASSUME NEW j \in Cancellers
        PROVE  /\ visit'[j] \subseteq Created' /\ expand'[j] \subseteq Created'
               /\ (visit'[j] # {} \/ expand'[j] # {}) => (reason'[Root] /\ call'[j] = "walking")
    BY <2>1, <2>2 DEF WalkInv, TypeOK, TreeInv
  <2>4. ASSUME NEW c \in Linked' \ {Root}, reason'[parent'[c]], ~reason'[c]
        PROVE  \E j \in Cancellers : parent'[c] \in expand'[j] \/ c \in visit'[j]
    <3>1. PICK j \in Cancellers : parent[c] \in expand[j] \/ c \in visit[j]
      BY <2>1, <2>2, <2>4 DEF WalkInv
    <3>2. c \in kids[parent[c]]
      BY <2>2, <2>4 DEF TreeInv, Linked, Created
    <3>3. CASE parent[c] = n
      BY <2>1, <3>2, <3>3 DEF TypeOK
    <3>4. CASE parent[c] # n
      BY <2>1, <3>1, <3>4 DEF TypeOK
    <3> QED BY <3>3, <3>4
  <2> QED BY <2>1, <2>3, <2>4 DEF WalkInv
<1>16. ASSUME NEW k \in Cancellers, NEW n \in Runs, WalkVisit(k, n) PROVE WalkInv'
  <2>1. /\ UNCHANGED <<parent, pc, call>> /\ n \in visit[k] /\ expand[k] = {}
        /\ visit' = [visit EXCEPT ![k] = @ \ {n}]
        /\ expand' = [expand EXCEPT ![k] = IF reason[n] THEN @ ELSE {n}]
        /\ reason' = [reason EXCEPT ![n] = TRUE]
    BY <1>16 DEF WalkVisit
  <2>2. Linked' = Linked /\ Created' = Created
    BY <2>1 DEF Linked, Created
  <2>3. reason[Root] /\ reason'[Root] /\ call[k] = "walking" /\ n \in Created
    BY <2>1, RunTreeAssumption DEF WalkInv, TypeOK
  <2>4. ASSUME NEW j \in Cancellers
        PROVE  /\ visit'[j] \subseteq Created' /\ expand'[j] \subseteq Created'
               /\ (visit'[j] # {} \/ expand'[j] # {}) => (reason'[Root] /\ call'[j] = "walking")
    BY <2>1, <2>2, <2>3 DEF WalkInv, TypeOK
  <2>5. ASSUME NEW c \in Linked' \ {Root}, reason'[parent'[c]], ~reason'[c]
        PROVE  \E j \in Cancellers : parent'[c] \in expand'[j] \/ c \in visit'[j]
    <3>1. parent[c] \in Runs /\ c \in Runs
      BY <2>2, <2>5 DEF TreeInv, Linked, Created
    <3>2. c # n /\ ~reason[c]
      BY <2>1, <2>5, <3>1 DEF TypeOK
    <3>3. CASE reason[parent[c]]
      <4>1. PICK j \in Cancellers : parent[c] \in expand[j] \/ c \in visit[j]
        BY <2>2, <2>5, <3>2, <3>3 DEF WalkInv
      <4> QED BY <2>1, <3>2, <4>1 DEF TypeOK
    <3>4. CASE ~reason[parent[c]]
      <4>1. parent[c] = n
        BY <2>1, <2>5, <3>1, <3>4 DEF TypeOK
      <4> QED BY <2>1, <3>4, <4>1 DEF TypeOK
    <3> QED BY <3>3, <3>4
  <2> QED BY <2>1, <2>3, <2>4, <2>5 DEF WalkInv
<1>17. ASSUME NEW k \in Cancellers, WalkEnd(k) PROVE WalkInv'
  <2>1. /\ UNCHANGED <<parent, reason, pc, visit, expand>> /\ call[k] = "walking"
        /\ visit[k] = {} /\ expand[k] = {} /\ call' = [call EXCEPT ![k] = "accepted"]
    BY <1>17 DEF WalkEnd, runVars
  <2> QED BY <2>1 DEF WalkInv, Linked, Created, Held, TypeOK
<1>18. CASE UNCHANGED vars
  BY <1>18 DEF vars, runVars, cancelVars, WalkInv, Linked, Created
<1> QED
  BY <1>1, <1>2, <1>3, <1>4, <1>5, <1>6, <1>7, <1>8, <1>9, <1>10, <1>11, <1>12, <1>13, <1>14,
     <1>15, <1>16, <1>17, <1>18 DEF Next, Driver, Cancel, Rest

-----------------------------------------------------------------------------
(* The invariant and what follows from it *)

LEMMA InitInv == Init => IInv
<1> SUFFICES ASSUME Init PROVE IInv
  OBVIOUS
<1>1. TypeOK
  BY InitType
<1>2. TreeInv
  BY RunTreeAssumption DEF Init, TreeInv, Linked, Created
<1>3. CommitInv
  BY RunTreeAssumption DEF Init, CommitInv, TokenInv, AnswerInv, Held, Ending
<1>4. WalkInv
  BY DEF Init, WalkInv, Linked, Created, Held
<1> QED BY <1>1, <1>2, <1>3, <1>4 DEF IInv

\* The inductive invariant holds in every reachable state.
THEOREM InvCorrect == Spec => []IInv
<1>1. IInv /\ [Next]_vars => IInv'
  BY NextType, TreeStep, CommitStep, WalkStep DEF IInv
<1> QED BY InitInv, <1>1, PTL DEF Spec

\* Answer and cancel exclude each other, in the lifecycle, the token and the
\* terminal slot of the root (publish_verified_answer against cancel).
THEOREM CommitCorrect == Spec => []CommitExclusive
<1>1. IInv => CommitExclusive
  BY DEF IInv, CommitInv, TokenInv, AnswerInv, CommitExclusive, AnswerCommits, CancelCommits, Over
<1> QED BY InvCorrect, <1>1, PTL

\* A cancel that returned true reached every run that left RunContext::child,
\* for any number of runs and of callers.
THEOREM ReachCorrect == Spec => []CancelReachesAll
<1>1. IInv => CancelReachesAll
  <2> SUFFICES ASSUME IInv, NEW k \in Cancellers, call[k] = "accepted", NEW r \in Linked
               PROVE  reason[r]
    BY DEF CancelReachesAll, Linked
  <2>1. reason[Root] /\ \A j \in Cancellers : visit[j] = {} /\ expand[j] = {}
    BY DEF IInv, WalkInv, Held
  <2>2. \A c \in Linked \ {Root} : reason[parent[c]] => reason[c]
    BY <2>1 DEF IInv, WalkInv
  <2>3. \A c \in Linked \ {Root} :
          parent[c] \in Linked /\ (parent[c] = Root \/ parent[parent[c]] = Root)
    BY DEF IInv, TreeInv, Linked, Created
  <2> QED BY <2>1, <2>2, <2>3
<1> QED BY InvCorrect, <1>1, PTL

\* The terminal slot is written once, and a lifecycle that ended is never
\* left (RunControl::finish and the reducer).
THEOREM EndCorrect == Spec => EndIsFinal
<1>1. TypeOK /\ TreeInv /\ [Next]_vars =>
        [\A r \in Runs : /\ terminal[r] # "none" => terminal'[r] = terminal[r]
                         /\ life[r] \in TerminalStates => life'[r] = life[r]]_vars
  <2> SUFFICES ASSUME TypeOK, TreeInv, Next, NEW q \in Runs
               PROVE  /\ terminal[q] # "none" => terminal'[q] = terminal[q]
                      /\ life[q] \in TerminalStates => life'[q] = life[q]
    OBVIOUS
  <2>1. terminal[q] # "none" => terminal'[q] = terminal[q]
    <3>1. UNCHANGED terminal \/ \E r \in Runs : FinishSet(r)
      BY DEF Next, Driver, Cancel, Rest, vars, runVars, Start, PlanDone, BeginCall, AskApproval,
         ResolveApproval, ApprovalCancelled, ApprovalFailed, BeginReview, CreateChild, LinkChild, AnnounceChild,
         ReportChild, CallReturned, EndBody, Deliver, Publish, FinishRead, FinishTransition,
         CancelCheck, CancelRequest, CancelToken, WalkExpand, WalkVisit, WalkEnd
    <3> QED BY <3>1 DEF FinishSet, TypeOK
  <2>2. ASSUME life[q] \in TerminalStates PROVE life'[q] = life[q]
    <3>1. \/ UNCHANGED life
          \/ \E r, c \in Runs : CreateChild(r, c)
          \/ \E r \in Runs : \E event, arg : event # "Queued" /\ Transition(r, event, arg)
      <4>1. ASSUME NEW r \in Runs, AnnounceChild(r) \/ ReportChild(r) PROVE parent[r] \in Runs
        BY <4>1 DEF AnnounceChild, ReportChild, TreeInv, Created, Linked
      <4> QED
        BY <4>1, RunTreeAssumption
        DEF Next, Driver, Cancel, Rest, vars, runVars, Start, PlanDone, BeginCall, AskApproval,
         ResolveApproval, ApprovalCancelled, ApprovalFailed, BeginReview, LinkChild, AnnounceChild,
         ReportChild, CallReturned, EndBody, Deliver, Publish, FinishRead, FinishSet,
         FinishTransition, CancelCheck, CancelRequest, CancelToken, WalkExpand, WalkVisit, WalkEnd
    <3>2. ASSUME NEW r \in Runs, NEW c \in Runs, CreateChild(r, c) PROVE life'[q] = life[q]
      BY <2>2, <3>2 DEF CreateChild, TypeOK, TreeInv, TerminalStates
    <3> QED BY <2>2, <3>1, <3>2, SealedStep
  <2> QED BY <2>1, <2>2
<1>2. Spec => [](TypeOK /\ TreeInv)
  BY InvCorrect, PTL DEF IInv
<1> QED BY <1>1, <1>2, PTL DEF Spec, EndIsFinal

-----------------------------------------------------------------------------
(* The tree implements RunPromise *)

PhaseBar == [r \in Runs |-> PhaseOf(life[r])]

OpenStates == {"Queued", "Planning", "Running", "WaitingApproval", "Delegating"}

\* What PhaseOf tells apart.
LEMMA PhaseValues ==
  /\ PhaseOf("none") = "absent" /\ PhaseOf("Answering") = "answered"
  /\ PhaseOf("CancelRequested") = "cancelling"
  /\ \A s \in TerminalStates : PhaseOf(s) = s
  /\ \A s \in OpenStates : PhaseOf(s) = "open"
BY DEF PhaseOf, TerminalStates, OpenStates

\* An event of work leaves every phase as it was.
LEMMA WorkStutters ==
  ASSUME TypeOK, NEW r \in Runs, NEW event, NEW arg, Transition(r, event, arg),
         event \notin {"Queued", "Finished", "AnswerStarted", "CancelRequested"}
  PROVE  PhaseBar' = PhaseBar
<1>1. CASE Accepts(event, arg, life[r], active[r])
  <2>1. life' = [life EXCEPT ![r] = StateAfter(event, arg, active[r])]
    BY <1>1 DEF Transition
  <2>2. life[r] \in OpenStates /\ StateAfter(event, arg, active[r]) \in OpenStates
    BY <1>1 DEF Accepts, StateAfter, StateAfterChild, OpenStates, WorkEvents
  <2>3. ASSUME NEW q \in Runs PROVE PhaseOf(life'[q]) = PhaseOf(life[q])
    BY <2>1, <2>2, PhaseValues DEF TypeOK
  <2> QED BY <2>3 DEF PhaseBar
<1>2. CASE ~Accepts(event, arg, life[r], active[r])
  BY <1>2 DEF Transition, PhaseBar
<1> QED BY <1>1, <1>2

\* A step of one lifecycle is a step of one phase.
LEMMA PhaseStep ==
  ASSUME TypeOK, NEW r \in Runs, NEW state, life' = [life EXCEPT ![r] = state]
  PROVE  PhaseBar' = [PhaseBar EXCEPT ![r] = PhaseOf(state)]
<1>1. ASSUME NEW q \in Runs
      PROVE  PhaseOf(life'[q]) = IF q = r THEN PhaseOf(state) ELSE PhaseOf(life[q])
  <2>1. life'[q] = IF q = r THEN state ELSE life[q]
    BY DEF TypeOK
  <2> QED BY <2>1
<1> QED BY <1>1 DEF PhaseBar

\* A token is set for a run that exists, after the root's, whose cancel won.
LEMMA StopStep ==
  ASSUME IInv, NEW r \in Created, reason' = [reason EXCEPT ![r] = TRUE], UNCHANGED life,
         IF r = Root THEN life[Root] \in Over ELSE reason[Root]
  PROVE  Promise!Stop(r)
<1>1. r \in Runs /\ life[r] # "none" /\ life[r] \in LifecycleStates
  BY DEF IInv, TreeInv, Created, TypeOK
<1>2. PhaseOf(life[r]) # "absent"
  BY <1>1 DEF PhaseOf, LifecycleStates, LiveStates, TerminalStates
<1>3. r = Root => PhaseOf(life[Root]) \in {"cancelling", "Cancelled"}
  BY PhaseValues DEF Over, TerminalStates
<1> QED BY <1>1, <1>2, <1>3, RunTreeAssumption DEF Promise!Stop

\* Every step of the tree is a step of the promise, or stutters.
LEMMA PromiseStep == IInv /\ [Next]_vars => [Promise!Next]_(Promise!vars)
<1> SUFFICES ASSUME IInv, [Next]_vars PROVE Promise!Next \/ UNCHANGED <<PhaseBar, reason>>
  BY DEF Promise!vars, PhaseBar
<1> USE DEF IInv
<1>1. ASSUME UNCHANGED <<life, reason>> PROVE UNCHANGED <<PhaseBar, reason>>
  BY <1>1 DEF PhaseBar
<1>2. ASSUME NEW r \in Runs,
             \/ \E p \in BOOLEAN : Start(r, p)
             \/ PlanDone(r) \/ AskApproval(r) \/ ResolveApproval(r)
             \/ AnnounceChild(r) \/ ReportChild(r)
      PROVE  UNCHANGED <<PhaseBar, reason>>
  <2>1. AnnounceChild(r) \/ ReportChild(r) => parent[r] \in Runs
    BY DEF AnnounceChild, ReportChild, TreeInv, Linked, Created
  <2>2. reason' = reason /\ \E q \in Runs : \E event, arg :
          /\ event \notin {"Queued", "Finished", "AnswerStarted", "CancelRequested"}
          /\ Transition(q, event, arg)
    BY <1>2, <2>1 DEF Start, PlanDone, AskApproval, ResolveApproval, AnnounceChild, ReportChild
  <2> QED BY <2>2, WorkStutters
<1>3. ASSUME NEW r \in Runs, NEW c \in Runs, CreateChild(r, c) PROVE Promise!Next
  <2>1. life' = [life EXCEPT ![c] = "Queued"] /\ UNCHANGED reason /\ pc[c] = "absent"
    BY <1>3 DEF CreateChild
  <2>2. life[c] = "none" /\ c # Root
    BY <2>1 DEF TreeInv, Linked
  <2>3. PhaseBar' = [PhaseBar EXCEPT ![c] = "open"]
    <3>1. PhaseBar' = [PhaseBar EXCEPT ![c] = PhaseOf("Queued")]
      BY <2>1, PhaseStep
    <3> QED BY <3>1, PhaseValues DEF OpenStates
  <2>4. Promise!Begin(c)
    BY <2>1, <2>2, <2>3, PhaseValues DEF Promise!Begin, Promise!Move, PhaseBar
  <2> QED BY <2>4 DEF Promise!Next
<1>4. ASSUME NEW r \in Runs, LinkChild(r) PROVE Promise!Next \/ UNCHANGED <<PhaseBar, reason>>
  <2>1. /\ UNCHANGED life /\ r \in Created /\ r # Root /\ parent[r] \in Runs
        /\ reason' = [reason EXCEPT ![r] = @ \/ reason[parent[r]]]
    BY <1>4 DEF LinkChild, InheritedReason, TreeInv, Linked, Created
  <2>2. CASE reason[parent[r]] /\ ~reason[r]
    <3>1. reason' = [reason EXCEPT ![r] = TRUE] /\ reason[Root]
      BY <2>1, <2>2 DEF CommitInv, TokenInv
    <3> QED BY <2>1, <3>1, StopStep DEF Promise!Next, Created
  <2>3. CASE ~(reason[parent[r]] /\ ~reason[r])
    <3>1. \A q \in Runs : reason'[q] = reason[q]
      BY <2>1, <2>3 DEF TypeOK
    <3>2. reason' = reason
      BY <2>1, <3>1 DEF TypeOK
    <3> QED BY <1>1, <2>1, <3>2
  <2> QED BY <2>2, <2>3
<1>5. ASSUME NEW r \in Runs, NEW h \in BOOLEAN, Publish(r, h)
      PROVE  Promise!Next \/ UNCHANGED <<PhaseBar, reason>>
  <2>1. UNCHANGED reason /\ r = Root
    BY <1>5 DEF Publish, CommitInv, AnswerInv
  <2>2. CASE h /\ Accepts("AnswerStarted", NoRun, life[r], active[r])
    <3>1. life' = [life EXCEPT ![Root] = "Answering"] /\ life[Root] \in OpenStates
      BY <1>5, <2>1, <2>2 DEF Publish, Transition, StateAfter, Accepts, WorkEvents, OpenStates
    <3>2. PhaseBar' = [PhaseBar EXCEPT ![Root] = "answered"] /\ PhaseOf(life[Root]) = "open"
      <4>1. PhaseBar' = [PhaseBar EXCEPT ![Root] = PhaseOf("Answering")]
        BY <3>1, PhaseStep, RunTreeAssumption
      <4> QED BY <3>1, <4>1, PhaseValues
    <3>3. Promise!Answer
      BY <2>1, <3>2, RunTreeAssumption DEF Promise!Answer, Promise!Move, PhaseBar
    <3> QED BY <3>3 DEF Promise!Next
  <2>3. CASE ~(h /\ Accepts("AnswerStarted", NoRun, life[r], active[r]))
    BY <1>1, <1>5, <2>1, <2>3 DEF Publish
  <2> QED BY <2>2, <2>3
<1>6. ASSUME NEW r \in Runs, FinishTransition(r)
      PROVE  Promise!Next \/ UNCHANGED <<PhaseBar, reason>>
  <2> DEFINE e == verdict[r]
  <2>1. UNCHANGED reason /\ pc[r] = "closing" /\ Transition(r, "Finished", e)
    BY <1>6 DEF FinishTransition
  <2>2. CASE ~Accepts("Finished", e, life[r], active[r])
    BY <1>1, <2>1, <2>2 DEF Transition
  <2>3. CASE Accepts("Finished", e, life[r], active[r])
    <3>1. /\ life' = [life EXCEPT ![r] = e] /\ life[r] \in LiveStates /\ e \in TerminalStates
          /\ life[r] = "CancelRequested" => e = "Cancelled"
      <4>1. life' = [life EXCEPT ![r] = StateAfter("Finished", e, active[r])]
        BY <2>1, <2>3 DEF Transition
      <4>2. StateAfter("Finished", e, active[r]) = e
        BY DEF StateAfter
      <4>3. life[r] \in LiveStates /\ e \in OutcomesFrom(life[r])
        BY <2>3 DEF Accepts, WorkEvents, FinishableStates
      <4> QED BY <4>1, <4>2, <4>3 DEF OutcomesFrom, TerminalStates
    <3>2. PhaseBar' = [PhaseBar EXCEPT ![r] = e] /\ e \in Promise!Ends
      <4>1. PhaseBar' = [PhaseBar EXCEPT ![r] = PhaseOf(e)]
        BY <3>1, PhaseStep
      <4>2. PhaseOf(e) = e
        BY <3>1, PhaseValues
      <4> QED BY <3>1, <4>1, <4>2 DEF Promise!Ends, TerminalStates
    <3>3. life[r] \in OpenStates \cup {"CancelRequested", "Answering"}
      BY <3>1 DEF LiveStates, OpenStates
    <3>4. r # Root => life[r] \in OpenStates /\ (e = "Cancelled" => reason[r])
      BY <3>3 DEF CommitInv, TokenInv, AnswerInv
    <3>5. life[r] = "Answering" => e = "Succeeded"
      BY <2>1, <3>4 DEF CommitInv, AnswerInv, OpenStates
    <3>6. r = Root /\ life[r] \in OpenStates => e \in {"Limited", "Failed"}
      BY <3>1 DEF CommitInv, TokenInv, AnswerInv, OpenStates, Over, TerminalStates
    <3>7. PhaseBar[r] = PhaseOf(life[r])
      BY DEF PhaseBar
    <3>8. Promise!End(r, e)
      <4>1. CASE life[r] \in OpenStates
        BY <2>1, <3>2, <3>4, <3>6, <3>7, <4>1, PhaseValues
           DEF Promise!End, Promise!Move, PhaseBar
      <4>2. CASE life[r] = "CancelRequested"
        BY <2>1, <3>1, <3>2, <3>7, <4>2, PhaseValues DEF Promise!End, Promise!Move, PhaseBar
      <4>3. CASE life[r] = "Answering"
        BY <2>1, <3>2, <3>5, <3>7, <4>3, PhaseValues DEF Promise!End, Promise!Move, PhaseBar
      <4> QED BY <3>3, <4>1, <4>2, <4>3
    <3> QED BY <3>2, <3>8 DEF Promise!Next
  <2> QED BY <2>2, <2>3
<1>7. ASSUME NEW k \in Cancellers, CancelRequest(k)
      PROVE  Promise!Next \/ UNCHANGED <<PhaseBar, reason>>
  <2>1. UNCHANGED reason /\ Transition(Root, "CancelRequested", NoRun)
    BY <1>7 DEF CancelRequest
  <2>2. CASE ~Accepts("CancelRequested", NoRun, life[Root], active[Root])
    BY <1>1, <2>1, <2>2 DEF Transition
  <2>3. CASE Accepts("CancelRequested", NoRun, life[Root], active[Root])
    <3>1. life' = [life EXCEPT ![Root] = "CancelRequested"] /\ life[Root] \in OpenStates
      BY <2>1, <2>3 DEF Transition, StateAfter, Accepts, WorkEvents, CancellableStates,
         LiveStates, OpenStates
    <3>2. PhaseBar' = [PhaseBar EXCEPT ![Root] = "cancelling"] /\ PhaseOf(life[Root]) = "open"
      <4>1. PhaseBar' = [PhaseBar EXCEPT ![Root] = PhaseOf("CancelRequested")]
        BY <3>1, PhaseStep, RunTreeAssumption
      <4> QED BY <3>1, <4>1, PhaseValues
    <3>3. Promise!RequestCancel
      BY <2>1, <3>2, RunTreeAssumption DEF Promise!RequestCancel, Promise!Move, PhaseBar
    <3> QED BY <3>3 DEF Promise!Next
  <2> QED BY <2>2, <2>3
<1>8. ASSUME NEW k \in Cancellers, CancelToken(k)
      PROVE  Promise!Next \/ UNCHANGED <<PhaseBar, reason>>
  <2>1. CASE reason[Root]
    BY <1>1, <1>8, <2>1 DEF CancelToken
  <2>2. CASE ~reason[Root]
    <3>1. /\ UNCHANGED life /\ reason' = [reason EXCEPT ![Root] = TRUE]
          /\ life[Root] \in Over /\ Root \in Created
      BY <1>8, <2>2, RunTreeAssumption
         DEF CancelToken, CommitInv, TokenInv, Held, TreeInv, Linked, Created
    <3> QED BY <3>1, StopStep, RunTreeAssumption DEF Promise!Next
  <2> QED BY <2>1, <2>2
<1>9. ASSUME NEW k \in Cancellers, NEW n \in Runs, WalkVisit(k, n)
      PROVE  Promise!Next \/ UNCHANGED <<PhaseBar, reason>>
  <2>1. /\ UNCHANGED life /\ reason' = [reason EXCEPT ![n] = TRUE]
        /\ n \in Created /\ reason[Root] /\ life[Root] \in Over
    BY <1>9 DEF WalkVisit, WalkInv, CommitInv, TokenInv
  <2> QED BY <2>1, StopStep DEF Promise!Next
<1>10. ASSUME NEW r \in Runs,
              \/ BeginCall(r) \/ BeginReview(r) \/ CallReturned(r)
              \/ ApprovalCancelled(r) \/ ApprovalFailed(r)
              \/ \E o \in Outcomes \ {"pending"} : EndBody(r, o)
              \/ Deliver(r) \/ FinishRead(r) \/ FinishSet(r)
       PROVE  UNCHANGED <<PhaseBar, reason>>
  BY <1>1, <1>10
  DEF BeginCall, BeginReview, CallReturned, ApprovalCancelled, ApprovalFailed, EndBody, Deliver,
     FinishRead, FinishSet
<1>11. ASSUME NEW k \in Cancellers,
              CancelCheck(k) \/ WalkEnd(k) \/ \E n \in Runs : WalkExpand(k, n)
       PROVE  UNCHANGED <<PhaseBar, reason>>
  BY <1>1, <1>11 DEF CancelCheck, WalkEnd, WalkExpand, runVars
<1>12. CASE UNCHANGED vars
  BY <1>1, <1>12 DEF vars, runVars
<1> QED
  BY <1>2, <1>3, <1>4, <1>5, <1>6, <1>7, <1>8, <1>9, <1>10, <1>11, <1>12
     DEF Next, Driver, Cancel, Rest

\* The run tree implements RunPromise: a root is answered or cancelled,
\* whichever the lifecycle accepted first, and ends accordingly.
THEOREM PromiseCorrect == Spec => ImplementsPromise
<1>1. Init => Promise!Init
  BY RunTreeAssumption, PhaseValues DEF Init, Promise!Init, OpenStates
<1> QED BY InvCorrect, <1>1, PromiseStep, PTL DEF Spec, ImplementsPromise, Promise!Spec

-----------------------------------------------------------------------------
(* The end of a run *)

\* How far finish_with_error is: the slot is set before the lifecycle is
\* told, and whoever is past both has an ended lifecycle, but for a root
\* whose cancel came between the read and the telling.
EndInv ==
  \A r \in Runs :
    /\ terminal[r] # "none" => pc[r] \in {"closing", "reporting", "done"}
    /\ pc[r] = "closing" => terminal[r] = verdict[r]
    /\ pc[r] \in {"reporting", "done"} => \/ life[r] \in TerminalStates
                                          \/ r = Root /\ life[r] = "CancelRequested" /\ terminal[r] # "none"
    /\ life[r] \in TerminalStates => terminal[r] = life[r]

\* Only Finished ends a lifecycle, and only it leaves CancelRequested.
LEMMA LiveStep ==
  ASSUME TypeOK, NEW r \in Runs, NEW event, NEW arg, event \notin {"Queued", "Finished"},
         Transition(r, event, arg), NEW q \in Runs
  PROVE  /\ life'[q] \in TerminalStates <=> life[q] \in TerminalStates
         /\ life[q] \in TerminalStates => life'[q] = life[q]
         /\ life[q] = "CancelRequested" => life'[q] = "CancelRequested"
<1>1. CASE life'[q] = life[q]
  BY <1>1
<1>2. CASE life'[q] # life[q]
  <2>1. q = r /\ Accepts(event, arg, life[q], active[q])
        /\ life'[q] = StateAfter(event, arg, active[q])
    BY <1>2, TransitionEffect
  <2>2. life[q] \notin TerminalStates \cup {"CancelRequested"}
    BY <2>1 DEF Accepts, TerminalStates, WorkEvents, CancellableStates, LiveStates
  <2>3. life'[q] \notin TerminalStates
    BY <2>1 DEF StateAfter, StateAfterChild, TerminalStates
  <2> QED BY <2>2, <2>3
<1> QED BY <1>1, <1>2

\* A driver that is not past its terminal slot moves, with at most an event
\* that ends nothing.
LEMMA EndMove ==
  ASSUME TypeOK, EndInv, NEW r \in Runs, NEW q \in Runs, NEW point, NEW event, NEW arg,
         event \notin {"Queued", "Finished"}, Transition(q, event, arg) \/ UNCHANGED life,
         Goto(r, point), pc[r] \notin {"closing", "reporting", "done"},
         point \notin {"closing", "reporting", "done"},
         UNCHANGED terminal, \A p \in Runs \ {r} : verdict'[p] = verdict[p]
  PROVE  EndInv'
<1>1. \A p \in Runs : /\ life'[p] \in TerminalStates <=> life[p] \in TerminalStates
                      /\ life[p] \in TerminalStates => life'[p] = life[p]
                      /\ life[p] = "CancelRequested" => life'[p] = "CancelRequested"
  BY LiveStep
<1>2. \A p \in Runs \ {r} : pc'[p] = pc[p]
  BY DEF Goto, TypeOK
<1>3. pc'[r] = point
  BY DEF Goto, TypeOK
<1> QED BY <1>1, <1>2, <1>3 DEF EndInv

\* The end of each run is as EndInv says, whatever step is taken.
LEMMA EndStep == TypeOK /\ TreeInv /\ AnswerInv /\ EndInv /\ [Next]_vars => EndInv'
<1> SUFFICES ASSUME TypeOK, TreeInv, AnswerInv, EndInv, [Next]_vars PROVE EndInv'
  OBVIOUS
<1>1. ASSUME NEW r \in Runs, NEW p \in BOOLEAN, Start(r, p) PROVE EndInv'
  BY <1>1, EndMove DEF Start
<1>2. ASSUME NEW r \in Runs, PlanDone(r) PROVE EndInv'
  BY <1>2, EndMove DEF PlanDone
<1>3. ASSUME NEW r \in Runs, BeginCall(r) \/ BeginReview(r) \/ CallReturned(r) PROVE EndInv'
  BY <1>3, EndMove DEF BeginCall, BeginReview, CallReturned
<1>4. ASSUME NEW r \in Runs, AskApproval(r) PROVE EndInv'
  BY <1>4, EndMove DEF AskApproval
<1>5. ASSUME NEW r \in Runs, ResolveApproval(r) PROVE EndInv'
  BY <1>5, EndMove DEF ResolveApproval
<1>6. ASSUME NEW r \in Runs, ApprovalCancelled(r) \/ ApprovalFailed(r) PROVE EndInv'
  BY <1>6, EndMove DEF ApprovalCancelled, ApprovalFailed
<1>7. ASSUME NEW r \in Runs, NEW c \in Runs, CreateChild(r, c) PROVE EndInv'
  <2>1. /\ pc[c] = "absent" /\ pc' = [pc EXCEPT ![c] = "pushed"]
        /\ life' = [life EXCEPT ![c] = "Queued"] /\ UNCHANGED <<terminal, verdict>>
    BY <1>7 DEF CreateChild, Goto
  <2>2. terminal[c] = "none"
    BY <2>1 DEF EndInv
  <2> QED BY <2>1, <2>2 DEF EndInv, TypeOK, TerminalStates
<1>8. ASSUME NEW r \in Runs, LinkChild(r) PROVE EndInv'
  BY <1>8, EndMove DEF LinkChild
<1>9. ASSUME NEW r \in Runs, AnnounceChild(r) PROVE EndInv'
  <2>1. parent[r] \in Runs
    BY <1>9 DEF AnnounceChild, TreeInv, Created, Linked
  <2> QED BY <1>9, <2>1, EndMove DEF AnnounceChild
<1>10. ASSUME NEW r \in Runs, ReportChild(r) PROVE EndInv'
  <2>1. parent[r] \in Runs /\ pc[r] = "reporting" /\ pc' = [pc EXCEPT ![r] = "done"]
        /\ Transition(parent[r], "ChildFinished", r) /\ UNCHANGED <<terminal, verdict>>
    BY <1>10 DEF ReportChild, TreeInv, Created, Linked, Goto
  <2>2. \A p \in Runs : /\ life'[p] \in TerminalStates <=> life[p] \in TerminalStates
                        /\ life[p] \in TerminalStates => life'[p] = life[p]
                        /\ life[p] = "CancelRequested" => life'[p] = "CancelRequested"
    BY <2>1, LiveStep
  <2> QED BY <2>1, <2>2 DEF EndInv, TypeOK
<1>11. ASSUME NEW r \in Runs, NEW o \in Outcomes \ {"pending"}, EndBody(r, o) PROVE EndInv'
  BY <1>11, EndMove DEF EndBody
<1>12. ASSUME NEW r \in Runs, Deliver(r) PROVE EndInv'
  BY <1>12, EndMove DEF Deliver
<1>13. ASSUME NEW r \in Runs, NEW h \in BOOLEAN, Publish(r, h) PROVE EndInv'
  BY <1>13, EndMove DEF Publish
<1>14. ASSUME NEW r \in Runs, FinishRead(r) PROVE EndInv'
  <2>1. \A p \in Runs \ {r} : verdict'[p] = verdict[p]
    BY <1>14 DEF FinishRead, TypeOK
  <2> QED BY <1>14, <2>1, EndMove DEF FinishRead
<1>15. ASSUME NEW r \in Runs, FinishSet(r) PROVE EndInv'
  <2>1. terminal[r] = "none" /\ life[r] \notin TerminalStates
    BY <1>15 DEF FinishSet, EndInv, TerminalStates
  <2>2. /\ terminal' = [terminal EXCEPT ![r] = verdict[r]] /\ pc' = [pc EXCEPT ![r] = "closing"]
        /\ UNCHANGED <<life, verdict>>
    BY <1>15, <2>1 DEF FinishSet, Goto
  <2> QED BY <2>1, <2>2 DEF EndInv, TypeOK
<1>16. ASSUME NEW r \in Runs, FinishTransition(r) PROVE EndInv'
  <2>1. PICK point \in {"reporting", "done"} : pc' = [pc EXCEPT ![r] = point]
    BY <1>16 DEF FinishTransition, Goto
  <2>2. /\ pc[r] = "closing" /\ Transition(r, "Finished", verdict[r])
        /\ UNCHANGED <<terminal, verdict>> /\ terminal[r] = verdict[r]
        /\ verdict[r] \in TerminalStates
    BY <1>16 DEF FinishTransition, AnswerInv, TypeOK, EndInv
  <2>3. \A q \in Runs \ {r} : life'[q] = life[q]
    BY <2>2, TransitionEffect
  <2>4. \/ life'[r] = verdict[r]
        \/ r = Root /\ life'[r] = "CancelRequested"
    <3>1. CASE Accepts("Finished", verdict[r], life[r], active[r])
      BY <2>2, <3>1 DEF Transition, StateAfter, TypeOK
    <3>2. CASE ~Accepts("Finished", verdict[r], life[r], active[r])
      <4>1. life'[r] = life[r]
        BY <2>2, <3>2 DEF Transition
      <4>2. life[r] # "none"
        BY <2>2 DEF TreeInv
      <4>3. life[r] \in TerminalStates \cup {"CancelRequested"}
        BY <2>2, <3>2, <4>2 DEF Accepts, FinishableStates, OutcomesFrom, TypeOK, LifecycleStates
      <4>4. life[r] = "CancelRequested" => r = Root
        BY DEF AnswerInv
      <4>5. life[r] \in TerminalStates => life[r] = verdict[r]
        BY <2>2 DEF EndInv
      <4> QED BY <4>1, <4>3, <4>4, <4>5
    <3> QED BY <3>1, <3>2
  <2>5. "CancelRequested" \notin TerminalStates /\ "none" \notin TerminalStates
    BY DEF TerminalStates
  <2> QED BY <2>1, <2>2, <2>3, <2>4, <2>5 DEF EndInv, TypeOK
<1>17. ASSUME NEW k \in Cancellers, Cancel(k) PROVE EndInv'
  <2>1. CASE CancelRequest(k)
    <3>1. UNCHANGED <<pc, terminal, verdict>> /\ Transition(Root, "CancelRequested", NoRun)
      BY <2>1 DEF CancelRequest
    <3>2. \A p \in Runs : /\ life'[p] \in TerminalStates <=> life[p] \in TerminalStates
                          /\ life[p] \in TerminalStates => life'[p] = life[p]
                          /\ life[p] = "CancelRequested" => life'[p] = "CancelRequested"
      BY <3>1, LiveStep, RunTreeAssumption
    <3> QED BY <3>1, <3>2 DEF EndInv
  <2>2. CASE ~CancelRequest(k)
    BY <1>17, <2>2
       DEF Cancel, CancelCheck, CancelToken, WalkExpand, WalkVisit, WalkEnd, runVars, EndInv
  <2> QED BY <2>1, <2>2
<1>18. CASE UNCHANGED vars
  BY <1>18 DEF vars, runVars, EndInv
<1> QED
  BY <1>1, <1>2, <1>3, <1>4, <1>5, <1>6, <1>7, <1>8, <1>9, <1>10, <1>11, <1>12, <1>13, <1>14,
     <1>15, <1>16, <1>17, <1>18 DEF Next, Driver, Rest

\* A lifecycle that ended says what the terminal slot says, and every run
\* that is over has one, but for the root of a cancel that came between the
\* read and the transition of finish_with_error.
THEOREM TerminalCorrect == Spec => []TerminalAgrees
<1>1. Init => EndInv
  BY RunTreeAssumption DEF Init, EndInv, TerminalStates
<1>2. IInv /\ EndInv /\ [Next]_vars => EndInv'
  BY EndStep DEF IInv, CommitInv
<1>3. EndInv => TerminalAgrees
  BY DEF EndInv, TerminalAgrees
<1> QED BY InvCorrect, <1>1, <1>2, <1>3, PTL DEF Spec

-----------------------------------------------------------------------------
(* Delegations *)

\* The task children that were announced and not reported yet.
Announced == {c \in Runs : kind[c] = "task" /\ pc[c] \in AnnouncedPoints}

\* The state a lifecycle has at each point of its driver, unless a cancel was
\* requested.
Stage(point, state) ==
  /\ point \in {"pushed", "linked", "ready"} => state = "Queued"
  /\ point = "planning" => state = "Planning"
  /\ point \in {"working", "reviewing"} => state = "Running"
  /\ point = "calling" => state \in {"Running", "Delegating"}
  /\ point = "approving" => state = "WaitingApproval"

\* Only the root delegates, only while it calls tools, and its lifecycle
\* counts the children that are under way.
DelegInv ==
  /\ \A r \in Runs : life[r] # "CancelRequested" => Stage(pc[r], life[r])
  /\ \A c \in Runs : kind[c] = "task" /\ pc[c] # "done" => pc[Root] = "calling"
  /\ \A c \in Runs : pc[c] \in {"linked", "reporting"} => kind[c] = "task"
  /\ \A c \in Runs : kind[c] = "task" => c # Root /\ pc[c] # "absent" /\ parent[c] = Root
  /\ \A r \in Runs \ {Root} : active[r] = {} /\ life[r] # "Delegating"
  /\ life[Root] \in LiveStates \ {"CancelRequested"} =>
       active[Root] = Announced /\ (life[Root] = "Delegating" <=> active[Root] # {})

\* A run's own event moves its state alone, and Finished empties its set.
LEMMA OwnEvent ==
  ASSUME TypeOK, NEW r \in Runs, NEW event, NEW arg,
         event \notin {"Queued", "ChildStarted", "ChildFinished"}, Transition(r, event, arg)
  PROVE  \E s \in LifecycleStates :
           /\ life' = [life EXCEPT ![r] = s]
           /\ active' = active \/ active' = [active EXCEPT ![r] = {}]
           /\ s \in LiveStates => active' = active \/ event = "Finished"
           /\ \/ Accepts(event, arg, life[r], active[r]) /\ s = StateAfter(event, arg, active[r])
              \/ ~Accepts(event, arg, life[r], active[r]) /\ s = life[r] /\ active' = active
<1>1. CASE Accepts(event, arg, life[r], active[r])
  <2>1. StateAfter(event, arg, active[r]) \in LifecycleStates
    BY <1>1, StateAfterType DEF LifecycleStates
  <2>2. ActiveAfter(event, arg, active[r]) \in {active[r], {}}
        /\ (event # "Finished" => ActiveAfter(event, arg, active[r]) = active[r])
    BY DEF ActiveAfter
  <2> QED BY <1>1, <2>1, <2>2 DEF Transition, TypeOK
<1>2. CASE ~Accepts(event, arg, life[r], active[r])
  BY <1>2 DEF Transition, TypeOK
<1> QED BY <1>1, <1>2

\* The driver of a run that delegates nothing at the moment moves.
LEMMA DelegMove ==
  ASSUME TypeOK, TreeInv, DelegInv, NEW r \in Runs, NEW point, NEW s \in LifecycleStates,
         Goto(r, point), point \notin {"absent", "linked"}, pc[r] \in AnnouncedPoints,
         r = Root => \A c \in Runs : kind[c] = "task" => pc[c] = "done",
         kind[r] = "task" => point \in AnnouncedPoints,
         point = "reporting" => kind[r] = "task",
         UNCHANGED <<kind, parent>>, life' = [life EXCEPT ![r] = s],
         s \in LiveStates => active' = active,
         active' = active \/ active' = [active EXCEPT ![r] = {}],
         life[r] = "CancelRequested" => s \in Over, s \in {"CancelRequested", "Delegating"} => s = life[r],
         life[r] \in TerminalStates => s \in TerminalStates,
         s # "CancelRequested" => Stage(point, s), s # "none"
  PROVE  DelegInv'
<1>1. /\ \A q \in Runs \ {r} : pc'[q] = pc[q] /\ life'[q] = life[q] /\ active'[q] = active[q]
      /\ pc'[r] = point /\ life'[r] = s
  BY DEF Goto, TypeOK
<1>2. Announced' = Announced
  BY <1>1 DEF Announced
<1>3. \A q \in Runs : life'[q] # "CancelRequested" => Stage(pc'[q], life'[q])
  BY <1>1 DEF DelegInv
<1>4. \A c \in Runs : kind'[c] = "task" /\ pc'[c] # "done" => pc'[Root] = "calling"
  BY <1>1, RunTreeAssumption DEF DelegInv, AnnouncedPoints
<1>5. \A c \in Runs : pc'[c] \in {"linked", "reporting"} => kind'[c] = "task"
  BY <1>1 DEF DelegInv
<1>6. \A c \in Runs : kind'[c] = "task" => c # Root /\ pc'[c] # "absent" /\ parent'[c] = Root
  BY <1>1 DEF DelegInv
<1>7. \A q \in Runs \ {Root} : active'[q] = {} /\ life'[q] # "Delegating"
  BY <1>1 DEF DelegInv, TypeOK
<1>8. ASSUME life'[Root] \in LiveStates \ {"CancelRequested"}
      PROVE  active'[Root] = Announced' /\ (life'[Root] = "Delegating" <=> active'[Root] # {})
  <2>1. CASE r # Root
    BY <1>1, <1>2, <1>8, <2>1, RunTreeAssumption DEF DelegInv
  <2>2. CASE r = Root
    <3>1. Announced = {}
      BY <2>2 DEF Announced, AnnouncedPoints
    <3>2. life[Root] \in LiveStates \ {"CancelRequested"}
      <4>1. life[Root] # "none"
        BY RunTreeAssumption DEF TreeInv, Linked
      <4> QED BY <1>1, <1>8, <2>2, <4>1
           DEF TypeOK, LifecycleStates, Over, TerminalStates, LiveStates
    <3>3. active[Root] = {} /\ life[Root] # "Delegating"
      BY <3>1, <3>2 DEF DelegInv
    <3>4. active'[Root] = {} /\ life'[Root] # "Delegating"
      BY <1>1, <1>8, <2>2, <3>3
    <3> QED BY <1>2, <3>1, <3>4
  <2> QED BY <2>1, <2>2
<1> QED BY <1>3, <1>4, <1>5, <1>6, <1>7, <1>8 DEF DelegInv

\* The same with an event of the run's own.
LEMMA DelegEvent ==
  ASSUME TypeOK, TreeInv, DelegInv, NEW r \in Runs, NEW point, NEW event, NEW arg,
         event \in {"PlanningStarted", "RunStarted", "ApprovalRequested", "ApprovalResolved", "AnswerStarted"},
         Transition(r, event, arg), Goto(r, point), pc[r] \in AnnouncedPoints, point \in AnnouncedPoints,
         point \notin {"reporting"}, UNCHANGED <<kind, parent>>,
         r = Root => \A c \in Runs : kind[c] = "task" => pc[c] = "done",
         ~Accepts(event, arg, life[r], active[r]) /\ life[r] # "CancelRequested" => Stage(point, life[r]),
         Accepts(event, arg, life[r], active[r]) => Stage(point, StateAfter(event, arg, active[r]))
  PROVE  DelegInv'
<1>1. PICK s \in LifecycleStates :
           /\ life' = [life EXCEPT ![r] = s]
           /\ active' = active \/ active' = [active EXCEPT ![r] = {}]
           /\ s \in LiveStates => active' = active \/ event = "Finished"
           /\ \/ Accepts(event, arg, life[r], active[r]) /\ s = StateAfter(event, arg, active[r])
              \/ ~Accepts(event, arg, life[r], active[r]) /\ s = life[r] /\ active' = active
  BY OwnEvent
<1>2. Accepts(event, arg, life[r], active[r]) =>
        /\ s \in {"Planning", "Running", "WaitingApproval", "Answering"}
        /\ life[r] \notin TerminalStates \cup {"CancelRequested"}
  BY <1>1 DEF Accepts, StateAfter, TerminalStates, WorkEvents
<1>3. s # "none"
  BY <1>1, <1>2 DEF TreeInv, AnnouncedPoints
<1>4. point \notin {"absent", "linked"}
  BY DEF AnnouncedPoints
<1>5. /\ life[r] = "CancelRequested" => s \in Over
      /\ s \in {"CancelRequested", "Delegating"} => s = life[r]
      /\ life[r] \in TerminalStates => s \in TerminalStates
      /\ s # "CancelRequested" => Stage(point, s)
      /\ s \in LiveStates => active' = active
  BY <1>1, <1>2 DEF Over
<1> QED BY <1>1, <1>3, <1>4, <1>5, DelegMove

\* Unless plan depth is Off, each step of the tree keeps the count.
LEMMA DelegStep ==
  ~PlanOff /\ TypeOK /\ TreeInv /\ CommitInv /\ DelegInv /\ [Next]_vars => DelegInv'
<1> SUFFICES ASSUME ~PlanOff, TypeOK, TreeInv, CommitInv, DelegInv, [Next]_vars PROVE DelegInv'
  OBVIOUS
\* all but a root that calls tools has no delegation under way
<1>q. \A c \in Runs : kind[c] = "task" /\ pc[c] # "done" => pc[Root] = "calling" /\ c \in Children(Root)
  BY DEF DelegInv, Children
<1>1. ASSUME NEW r \in Runs, NEW p \in BOOLEAN, Start(r, p) PROVE DelegInv'
  <2>1. CASE p
    <3>1. /\ Transition(r, "PlanningStarted", NoRun) /\ Goto(r, "planning") /\ pc[r] = "ready"
          /\ UNCHANGED <<kind, parent>>
      BY <1>1, <2>1 DEF Start
    <3>2. life[r] # "CancelRequested" =>
            Accepts("PlanningStarted", NoRun, life[r], active[r])
      BY <3>1 DEF DelegInv, Stage, Accepts
    <3>3. StateAfter("PlanningStarted", NoRun, active[r]) = "Planning"
      BY DEF StateAfter
    <3> QED BY <1>q, <3>1, <3>2, <3>3, DelegEvent DEF Stage, AnnouncedPoints
  <2>2. CASE ~p
    <3>1. /\ Transition(r, "RunStarted", NoRun) /\ Goto(r, "working") /\ pc[r] = "ready"
          /\ UNCHANGED <<kind, parent>>
      BY <1>1, <2>2 DEF Start
    <3>2. life[r] # "CancelRequested" => Accepts("RunStarted", NoRun, life[r], active[r])
      BY <3>1 DEF DelegInv, Stage, Accepts
    <3>3. StateAfter("RunStarted", NoRun, active[r]) = "Running"
      BY DEF StateAfter
    <3> QED BY <1>q, <3>1, <3>2, <3>3, DelegEvent DEF Stage, AnnouncedPoints
  <2> QED BY <2>1, <2>2
<1>2. ASSUME NEW r \in Runs, PlanDone(r) PROVE DelegInv'
  <2>1. life[r] # "CancelRequested" => Accepts("RunStarted", NoRun, life[r], active[r])
    BY <1>2 DEF PlanDone, DelegInv, Stage, Accepts
  <2>2. StateAfter("RunStarted", NoRun, active[r]) = "Running"
    BY DEF StateAfter
  <2> QED BY <1>2, <1>q, <2>1, <2>2, DelegEvent DEF PlanDone, Stage, AnnouncedPoints
<1>3. ASSUME NEW r \in Runs, BeginCall(r) \/ BeginReview(r) \/ CallReturned(r) PROVE DelegInv'
  <2>1. PICK point \in {"calling", "reviewing", "working"} :
          /\ Goto(r, point) /\ UNCHANGED <<kind, parent, life, active>>
          /\ pc[r] \in {"working", "calling", "reviewing"}
          /\ pc[r] # "working" => point = "working" /\ \A c \in Children(r) : pc[c] = "done"
    BY <1>3 DEF BeginCall, BeginReview, CallReturned
  <2>2. r = Root => \A c \in Runs : kind[c] = "task" => pc[c] = "done"
    BY <1>q, <2>1
  <2>3. life[r] # "CancelRequested" => life[r] = "Running"
    <3>1. CASE r # Root
      BY <2>1, <3>1 DEF DelegInv, Stage
    <3>2. CASE r = Root
      <4>1. Announced = {}
        BY <2>2, <3>2 DEF Announced, AnnouncedPoints
      <4> QED BY <2>1, <3>2, <4>1 DEF DelegInv, Stage, LiveStates
    <3> QED BY <3>1, <3>2
  <2>4. life' = [life EXCEPT ![r] = life[r]] /\ life[r] # "none" /\ life[r] \in LifecycleStates
    BY <2>1 DEF TypeOK, TreeInv
  <2>5. Stage(point, "Running")
    BY <2>1 DEF Stage
  <2>6. point \in AnnouncedPoints /\ pc[r] \in AnnouncedPoints
    BY <2>1 DEF AnnouncedPoints
  <2>7. life[r] = "CancelRequested" \/ life[r] = "Running"
    BY <2>3
  <2> QED BY <2>1, <2>2, <2>4, <2>5, <2>6, <2>7, DelegMove DEF Over, TerminalStates
<1>4. ASSUME NEW r \in Runs, AskApproval(r) PROVE DelegInv'
  <2>1. r = Root => \A c \in Runs : kind[c] = "task" => pc[c] = "done"
    BY <1>4, <1>q DEF AskApproval
  <2>2. life[r] # "CancelRequested" => life[r] = "Running"
    <3>1. CASE r # Root
      BY <1>4, <3>1 DEF AskApproval, DelegInv, Stage
    <3>2. CASE r = Root
      <4>1. Announced = {}
        BY <2>1, <3>2 DEF Announced, AnnouncedPoints
      <4> QED BY <1>4, <3>2, <4>1 DEF AskApproval, DelegInv, Stage, LiveStates
    <3> QED BY <3>1, <3>2
  <2>3. life[r] # "CancelRequested" => Accepts("ApprovalRequested", NoRun, life[r], active[r])
    BY <2>2 DEF Accepts
  <2>4. StateAfter("ApprovalRequested", NoRun, active[r]) = "WaitingApproval"
    BY DEF StateAfter
  <2> QED BY <1>4, <2>1, <2>3, <2>4, DelegEvent DEF AskApproval, Stage, AnnouncedPoints
<1>5. ASSUME NEW r \in Runs, ResolveApproval(r) PROVE DelegInv'
  <2>1. life[r] # "CancelRequested" => Accepts("ApprovalResolved", NoRun, life[r], active[r])
    BY <1>5 DEF ResolveApproval, DelegInv, Stage, Accepts
  <2>2. StateAfter("ApprovalResolved", NoRun, active[r]) = "Running"
    BY DEF StateAfter
  <2> QED BY <1>5, <1>q, <2>1, <2>2, DelegEvent DEF ResolveApproval, Stage, AnnouncedPoints
<1>6. ASSUME NEW r \in Runs, NEW point \in {"delivering", "publishing", "finishing", "settling", "closing"},
             pc[r] \in AnnouncedPoints \ {"calling"}, Goto(r, point),
             UNCHANGED <<kind, parent, life, active>>
      PROVE  DelegInv'
  <2>1. r = Root => \A c \in Runs : kind[c] = "task" => pc[c] = "done"
    BY <1>6, <1>q
  <2>2. life' = [life EXCEPT ![r] = life[r]] /\ life[r] # "none" /\ life[r] \in LifecycleStates
    BY <1>6 DEF TypeOK, TreeInv, AnnouncedPoints
  <2>3. Stage(point, life[r]) /\ point \in AnnouncedPoints
    BY <1>6 DEF Stage, AnnouncedPoints
  <2> QED BY <1>6, <2>1, <2>2, <2>3, DelegMove DEF Over
<1>7. ASSUME NEW r \in Runs, NEW c \in Runs, CreateChild(r, c) PROVE DelegInv'
  <2>1. /\ kind' = [kind EXCEPT ![c] = IF pc[r] = "calling" THEN "task" ELSE "reviewer"]
        /\ parent' = [parent EXCEPT ![c] = r]
        /\ life' = [life EXCEPT ![c] = "Queued"] /\ active' = active
        /\ pc' = [pc EXCEPT ![c] = "pushed"] /\ pc[c] = "absent"
    BY <1>7 DEF CreateChild, Goto
  <2>2. c # Root /\ kind[c] # "task" /\ c # r
    BY <1>7, <2>1 DEF TreeInv, Linked, DelegInv, CreateChild
  <2>3. pc[r] = "calling" => r = Root
    BY <1>7, <2>1 DEF CreateChild, TreeInv, Created
  <2>4. Announced' = Announced
    BY <2>1, <2>2 DEF Announced, AnnouncedPoints, TypeOK
  <2>5. \A q \in Runs : life'[q] # "CancelRequested" => Stage(pc'[q], life'[q])
    BY <2>1 DEF DelegInv, TypeOK, Stage
  <2>6. \A d \in Runs : kind'[d] = "task" /\ pc'[d] # "done" => pc'[Root] = "calling"
    BY <2>1, <2>2, <2>3 DEF DelegInv, TypeOK
  <2>7. \A d \in Runs : pc'[d] \in {"linked", "reporting"} => kind'[d] = "task"
    BY <2>1 DEF DelegInv, TypeOK
  <2>8. \A d \in Runs : kind'[d] = "task" => d # Root /\ pc'[d] # "absent" /\ parent'[d] = Root
    BY <2>1, <2>2, <2>3 DEF DelegInv, TypeOK
  <2>9. \A q \in Runs \ {Root} : active'[q] = {} /\ life'[q] # "Delegating"
    BY <2>1 DEF DelegInv, TypeOK
  <2>10. life'[Root] = life[Root] /\ active'[Root] = active[Root]
    BY <2>1, <2>2, RunTreeAssumption DEF TypeOK
  <2> QED BY <2>4, <2>5, <2>6, <2>7, <2>8, <2>9, <2>10 DEF DelegInv
<1>8. ASSUME NEW r \in Runs, LinkChild(r) PROVE DelegInv'
  <2>1. PICK point \in {"linked", "ready"} :
          /\ pc' = [pc EXCEPT ![r] = point] /\ pc[r] = "pushed" /\ (point = "linked" <=> kind[r] = "task")
          /\ UNCHANGED <<kind, parent, life, active>>
    BY <1>8 DEF LinkChild, Goto
  <2>2. Announced' = Announced /\ r # Root
    BY <2>1 DEF Announced, AnnouncedPoints, TypeOK, TreeInv, Linked
  <2>3. \A q \in Runs : life'[q] # "CancelRequested" => Stage(pc'[q], life'[q])
    BY <2>1 DEF DelegInv, TypeOK, Stage
  <2>4. pc'[Root] = pc[Root]
    BY <2>1, <2>2, RunTreeAssumption DEF TypeOK
  <2> QED BY <2>1, <2>2, <2>3, <2>4 DEF DelegInv, TypeOK
<1>9. ASSUME NEW r \in Runs, AnnounceChild(r) PROVE DelegInv'
  <2>1. /\ pc[r] = "linked" /\ pc' = [pc EXCEPT ![r] = "ready"] /\ kind[r] = "task" /\ r # Root
        /\ parent[r] = Root /\ Transition(Root, "ChildStarted", r) /\ UNCHANGED <<kind, parent>>
        /\ pc[Root] = "calling"
    BY <1>9 DEF AnnounceChild, Goto, DelegInv
  <2>2. Announced' = Announced \cup {r} /\ r \notin Announced
    BY <2>1 DEF Announced, AnnouncedPoints, TypeOK
  <2>3. CASE Accepts("ChildStarted", r, life[Root], active[Root])
    <3>1. /\ life' = [life EXCEPT ![Root] = "Delegating"]
          /\ active' = [active EXCEPT ![Root] = @ \cup {r}]
      BY <2>1, <2>3 DEF Transition, StateAfter, ActiveAfter
    <3>2. life[Root] \in {"Running", "Delegating"}
      BY <2>3 DEF Accepts, WorkEvents
    <3>3. active'[Root] = Announced'
      BY <2>2, <3>1, <3>2, RunTreeAssumption DEF DelegInv, TypeOK, LiveStates
    <3>4. \A q \in Runs : life'[q] # "CancelRequested" => Stage(pc'[q], life'[q])
      BY <2>1, <3>1 DEF DelegInv, TypeOK, Stage
    <3> QED BY <2>1, <2>2, <3>1, <3>3, <3>4, RunTreeAssumption DEF DelegInv, TypeOK
  <2>4. CASE ~Accepts("ChildStarted", r, life[Root], active[Root])
    <3>1. life' = life /\ active' = active
      BY <2>1, <2>4 DEF Transition
    <3>2. life[Root] = "CancelRequested"
      <4>1. ASSUME life[Root] # "CancelRequested" PROVE FALSE
        <5>1. life[Root] \in {"Running", "Delegating"}
          BY <2>1, <4>1, RunTreeAssumption DEF DelegInv, Stage
        <5>2. r \notin active[Root]
          BY <2>2, <5>1 DEF DelegInv, LiveStates
        <5> QED BY <2>4, <5>1, <5>2 DEF Accepts
      <4> QED BY <4>1
    <3>3. \A q \in Runs : life'[q] # "CancelRequested" => Stage(pc'[q], life'[q])
      BY <2>1, <3>1 DEF DelegInv, TypeOK, Stage
    <3> QED BY <2>1, <3>1, <3>2, <3>3, RunTreeAssumption DEF DelegInv, TypeOK
  <2> QED BY <2>3, <2>4
<1>10. ASSUME NEW r \in Runs, ReportChild(r) PROVE DelegInv'
  <2>1. /\ pc[r] = "reporting" /\ pc' = [pc EXCEPT ![r] = "done"] /\ kind[r] = "task" /\ r # Root
        /\ parent[r] = Root /\ Transition(Root, "ChildFinished", r) /\ UNCHANGED <<kind, parent>>
        /\ pc[Root] = "calling"
    BY <1>10 DEF ReportChild, Goto, DelegInv
  <2>2. Announced' = Announced \ {r} /\ r \in Announced
    BY <2>1 DEF Announced, AnnouncedPoints, TypeOK
  <2>3. CASE Accepts("ChildFinished", r, life[Root], active[Root])
    <3>1. /\ life' = [life EXCEPT ![Root] = StateAfterChild(r, active[Root])]
          /\ active' = [active EXCEPT ![Root] = @ \ {r}]
      BY <2>1, <2>3 DEF Transition, StateAfter, ActiveAfter
    <3>2. life[Root] = "Delegating"
      BY <2>3 DEF Accepts, WorkEvents
    <3>3. active'[Root] = Announced'
      BY <2>2, <3>1, <3>2, RunTreeAssumption DEF DelegInv, TypeOK, LiveStates
    <3>4. /\ life'[Root] \in {"Running", "Delegating"}
          /\ life'[Root] = "Delegating" <=> active'[Root] # {}
      BY <3>1, RunTreeAssumption DEF StateAfterChild, TypeOK
    <3>5. \A q \in Runs : life'[q] # "CancelRequested" => Stage(pc'[q], life'[q])
      BY <2>1, <3>1, <3>4 DEF DelegInv, TypeOK, Stage
    <3> QED BY <2>1, <2>2, <3>1, <3>3, <3>4, <3>5, RunTreeAssumption DEF DelegInv, TypeOK
  <2>4. CASE ~Accepts("ChildFinished", r, life[Root], active[Root])
    <3>1. life' = life /\ active' = active
      BY <2>1, <2>4 DEF Transition
    <3>2. life[Root] = "CancelRequested"
      <4>1. ASSUME life[Root] # "CancelRequested" PROVE FALSE
        <5>1. life[Root] \in {"Running", "Delegating"}
          BY <2>1, <4>1, RunTreeAssumption DEF DelegInv, Stage
        <5>2. r \in active[Root] /\ life[Root] = "Delegating"
          BY <2>2, <5>1 DEF DelegInv, LiveStates
        <5> QED BY <2>4, <5>2 DEF Accepts
      <4> QED BY <4>1
    <3>3. \A q \in Runs : life'[q] # "CancelRequested" => Stage(pc'[q], life'[q])
      BY <2>1, <3>1 DEF DelegInv, TypeOK, Stage
    <3> QED BY <2>1, <3>1, <3>2, <3>3, RunTreeAssumption DEF DelegInv, TypeOK
  <2> QED BY <2>3, <2>4
<1>11. ASSUME NEW r \in Runs,
              \/ ApprovalCancelled(r) \/ ApprovalFailed(r)
              \/ \E o \in Outcomes \ {"pending"} : EndBody(r, o)
              \/ Deliver(r) \/ FinishRead(r)
       PROVE  DelegInv'
  <2>1. PICK point \in {"delivering", "publishing", "finishing", "settling"} : Goto(r, point)
    BY <1>11 DEF ApprovalCancelled, ApprovalFailed, EndBody, Deliver, FinishRead
  <2>2. pc[r] \in AnnouncedPoints \ {"calling"} /\ UNCHANGED <<kind, parent, life, active>>
    BY <1>11 DEF ApprovalCancelled, ApprovalFailed, EndBody, Deliver, FinishRead, AnnouncedPoints
  <2> QED BY <1>6, <2>1, <2>2
<1>12. ASSUME NEW r \in Runs, NEW h \in BOOLEAN, Publish(r, h) PROVE DelegInv'
  <2>1. /\ pc[r] = "publishing" /\ Goto(r, "finishing") /\ UNCHANGED <<kind, parent>>
        /\ \/ Transition(r, "AnswerStarted", NoRun) /\ Accepts("AnswerStarted", NoRun, life[r], active[r])
           \/ UNCHANGED <<life, active>>
    BY <1>12 DEF Publish
  <2>2. CASE UNCHANGED <<life, active>>
    BY <1>6, <2>1, <2>2 DEF AnnouncedPoints
  <2>3. CASE Transition(r, "AnswerStarted", NoRun)
    <3>1. pc[r] \in AnnouncedPoints /\ "finishing" \in AnnouncedPoints /\ pc[r] # "calling"
      BY <2>1 DEF AnnouncedPoints
    <3>2. \A s : Stage("finishing", s)
      BY DEF Stage
    <3> QED BY <1>q, <2>1, <2>3, <3>1, <3>2, DelegEvent
  <2> QED BY <2>1, <2>2, <2>3
<1>13. ASSUME NEW r \in Runs, FinishSet(r) PROVE DelegInv'
  <2>1. PICK point \in {"closing", "reporting", "done"} :
          /\ Goto(r, point) /\ pc[r] = "settling" /\ UNCHANGED <<kind, parent, life, active>>
          /\ point = "reporting" => kind[r] = "task"
          /\ point = "done" => kind[r] # "task"
    BY <1>13 DEF FinishSet
  <2>2. life' = [life EXCEPT ![r] = life[r]] /\ life[r] # "none" /\ life[r] \in LifecycleStates
    BY <2>1 DEF TypeOK, TreeInv
  <2>3. Stage(point, life[r]) /\ pc[r] \in AnnouncedPoints /\ (kind[r] = "task" => point \in AnnouncedPoints)
    BY <2>1 DEF Stage, AnnouncedPoints
  <2> QED BY <1>q, <2>1, <2>2, <2>3, DelegMove DEF Over
<1>14. ASSUME NEW r \in Runs, FinishTransition(r) PROVE DelegInv'
  <2>1. PICK point \in {"reporting", "done"} :
          /\ Goto(r, point) /\ pc[r] = "closing" /\ UNCHANGED <<kind, parent>>
          /\ point = "reporting" <=> kind[r] = "task"
    BY <1>14 DEF FinishTransition
  <2>2. Transition(r, "Finished", verdict[r]) /\ verdict[r] \in TerminalStates
    BY <1>14, <2>1 DEF FinishTransition, CommitInv, AnswerInv, TypeOK
  <2>3. PICK s \in LifecycleStates :
           /\ life' = [life EXCEPT ![r] = s]
           /\ active' = active \/ active' = [active EXCEPT ![r] = {}]
           /\ \/ Accepts("Finished", verdict[r], life[r], active[r])
                 /\ s = StateAfter("Finished", verdict[r], active[r])
              \/ s = life[r] /\ active' = active
    BY <2>2, OwnEvent
  <2>4. Accepts("Finished", verdict[r], life[r], active[r]) =>
          /\ StateAfter("Finished", verdict[r], active[r]) = verdict[r]
          /\ life[r] = "CancelRequested" => verdict[r] = "Cancelled"
    BY DEF StateAfter, Accepts, OutcomesFrom, WorkEvents
  <2>5. /\ life[r] = "CancelRequested" => s \in Over
        /\ s \in {"CancelRequested", "Delegating"} => s = life[r]
        /\ life[r] \in TerminalStates => s \in TerminalStates
        /\ s \in LiveStates => active' = active
        /\ s # "none"
    BY <2>1, <2>2, <2>3, <2>4 DEF Over, TerminalStates, LiveStates, TreeInv
  <2>6. Stage(point, s) /\ pc[r] \in AnnouncedPoints /\ (kind[r] = "task" => point \in AnnouncedPoints)
    BY <2>1 DEF Stage, AnnouncedPoints
  <2> QED BY <1>q, <2>1, <2>3, <2>5, <2>6, DelegMove
<1>15. ASSUME NEW k \in Cancellers, Cancel(k) PROVE DelegInv'
  <2>1. CASE CancelRequest(k)
    <3>1. UNCHANGED <<pc, kind, parent>> /\ Transition(Root, "CancelRequested", NoRun)
      BY <2>1 DEF CancelRequest
    <3>2. \/ UNCHANGED <<life, active>>
          \/ life' = [life EXCEPT ![Root] = "CancelRequested"] /\ active' = active
      <4>1. StateAfter("CancelRequested", NoRun, active[Root]) = "CancelRequested"
            /\ ActiveAfter("CancelRequested", NoRun, active[Root]) = active[Root]
        BY DEF StateAfter, ActiveAfter
      <4> QED BY <3>1, <4>1, RunTreeAssumption DEF Transition, TypeOK
    <3> QED BY <3>1, <3>2, RunTreeAssumption DEF DelegInv, TypeOK, Announced
  <2>2. CASE ~CancelRequest(k)
    <3>1. UNCHANGED <<pc, kind, parent, life, active>>
      BY <1>15, <2>2
       DEF Cancel, CancelCheck, CancelToken, WalkExpand, WalkVisit, WalkEnd, runVars
    <3> QED BY <3>1 DEF DelegInv, Announced
  <2> QED BY <2>1, <2>2
<1>16. CASE UNCHANGED vars
  BY <1>16 DEF vars, runVars, DelegInv, Announced
<1> QED
  BY <1>1, <1>2, <1>3, <1>4, <1>5, <1>7, <1>8, <1>9, <1>10, <1>11, <1>12, <1>13, <1>14, <1>15, <1>16
     DEF Next, Driver, Rest

\* With any plan depth but Off, a parent's lifecycle counts exactly the
\* children between ChildStarted and ChildFinished, for any number of them
\* and whatever cancel does (TaskTool::delegate, finish_parent).
THEOREM DelegationCorrect == ~PlanOff /\ Spec => []DelegationTracked
<1>1. Init => DelegInv
  BY RunTreeAssumption
  DEF Init, DelegInv, Stage, Announced, AnnouncedPoints
<1>2. ~PlanOff /\ IInv /\ DelegInv /\ [Next]_vars => DelegInv'
  BY DelegStep DEF IInv
<1>3. IInv /\ DelegInv => DelegationTracked
  <2> SUFFICES ASSUME IInv, DelegInv, NEW r \in Runs, life[r] \in LiveStates \ {"CancelRequested"}
               PROVE  /\ active[r] = {c \in Children(r) : kind[c] = "task" /\ pc[c] \in AnnouncedPoints}
                      /\ (life[r] = "Delegating") <=> (active[r] # {})
    BY DEF DelegationTracked
  <2>1. CASE r = Root
    BY <2>1 DEF DelegInv, Announced, Children
  <2>2. CASE r # Root
    BY <2>2 DEF DelegInv, Children
  <2> QED BY <2>1, <2>2
<1>4. Spec => []IInv
  BY InvCorrect
<1>5. SUFFICES ASSUME ~PlanOff PROVE Spec => []DelegationTracked
  OBVIOUS
<1> QED BY <1>1, <1>2, <1>3, <1>4, <1>5, PTL DEF Spec
=============================================================================
