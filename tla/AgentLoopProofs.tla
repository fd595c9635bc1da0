-------------------------- MODULE AgentLoopProofs --------------------------
(***************************************************************************)
(* Consent, previews, transcripts, the shared budget and repeated calls of *)
(* AgentLoop, for any number of loops, calls, files and turns.  Each       *)
(* theorem has an inductive invariant of its own over Shape, the part of   *)
(* the types that the others need.                                         *)
(***************************************************************************)
EXTENDS AgentLoop, FiniteSetTheorems, WellFoundedInduction, TLAPS

Shape ==
    /\ mode \in Modes
    /\ pc \in [Agents -> Points]
    /\ allowAll \in [Agents -> BOOLEAN] /\ approvalAll \in BOOLEAN
    /\ pending \in [Agents -> Seq(Calls)]
    /\ current \in [Agents -> Calls \cup {NoCall}]
    /\ preview \in [Agents -> States \cup {NoPreview}]
    /\ granted \in [Agents -> BOOLEAN]
    /\ world \in [Files -> States]

\* A turn's calls form a sequence of calls.
LEMMA ReplyType ==
  ASSUME NEW a \in Agents, NEW s \in Replies[a]
  PROVE  s \in Seq(Calls) /\ Len(s) \in Nat
<1>1. s \in Seq(Calls)
  BY LoopAssumption
<1> QED BY <1>1

LEMMA ShapeInit == Init => Shape
<1>1. SUFFICES ASSUME Init PROVE Shape
  OBVIOUS
<1>2. pc \in [Agents -> Points] /\ current \in [Agents -> Calls \cup {NoCall}]
  BY <1>1 DEF Init, Points
<1>3. allowAll \in [Agents -> BOOLEAN] /\ approvalAll \in BOOLEAN /\ granted \in [Agents -> BOOLEAN]
  BY <1>1 DEF Init
<1>4. pending \in [Agents -> Seq(Calls)]
  BY <1>1 DEF Init
<1>5. preview \in [Agents -> States \cup {NoPreview}] /\ world \in [Files -> States]
  BY <1>1 DEF Init, States
<1> QED BY <1>1, <1>2, <1>3, <1>4, <1>5 DEF Shape, Init

LEMMA ShapeStep == Shape /\ [Next]_vars => Shape'
<1> SUFFICES ASSUME Shape, [Next]_vars PROVE Shape'
  OBVIOUS
<1>0. UNCHANGED mode
  BY DEF Next, Step, Cancel, Rest, vars
<1> USE <1>0
<1> USE DEF Shape, callVars, turnVars, sharedVars, Goto, End, Set, Answer, Points
<1>1. ASSUME NEW a \in Agents, Turn(a) PROVE Shape'
  <2>1. CASE Start(a)
    <3>1. EffectiveYes \in BOOLEAN
      BY DEF EffectiveYes
    <3>2. pc' \in [Agents -> Points]
      BY <2>1 DEF Start
    <3>3. allowAll' \in [Agents -> BOOLEAN]
      BY <2>1, <3>1 DEF Start
    <3>4. approvalAll' \in BOOLEAN
      BY <2>1, <3>1 DEF Start
    <3> QED BY <2>1, <3>2, <3>3, <3>4 DEF Start
  <2>2. CASE \E calls \in Replies[a] : ToolReply(a, calls)
    BY <2>2, ReplyType DEF ToolReply
  <2>3. CASE TopCancelled(a) \/ TopLimit(a) \/ Claim(a) \/ ModelCancelled(a) \/ ModelFails(a)
             \/ LeakedReply(a) \/ TruncatedReply(a) \/ TurnDone(a)
             \/ \E deliverable \in BOOLEAN : FinalReply(a, deliverable)
    BY <2>3 DEF TopCancelled, TopLimit, Claim, ModelCancelled, ModelFails, LeakedReply,
                TruncatedReply, TurnDone, FinalReply
  <2> QED BY <1>1, <2>1, <2>2, <2>3 DEF Turn
<1>2. ASSUME NEW a \in Agents, Tool(a) PROVE Shape'
  <2>1. CASE StartBatch(a)
    <3>1. PICK n \in 2 .. Len(pending[a]) :
            pending' = Set(pending, a, SubSeq(pending[a], n + 1, Len(pending[a])))
      BY <2>1 DEF StartBatch
    <3>2. SubSeq(pending[a], n + 1, Len(pending[a])) \in Seq(Calls)
      OBVIOUS
    <3>3. pending' \in [Agents -> Seq(Calls)]
      BY <3>1, <3>2
    <3>4. pc' \in [Agents -> Points] /\ current' \in [Agents -> Calls \cup {NoCall}]
      BY <2>1 DEF StartBatch
    <3> QED BY <2>1, <3>3, <3>4 DEF StartBatch
  <2>2. CASE TakeCall(a)
    <3>1. Head(pending[a]) \in Calls /\ Tail(pending[a]) \in Seq(Calls)
      BY <2>2 DEF TakeCall
    <3>2. pending' \in [Agents -> Seq(Calls)] /\ current' \in [Agents -> Calls \cup {NoCall}]
      BY <2>2, <3>1 DEF TakeCall
    <3>3. Head(pending[a]) \in Risky => world[TargetOf[Head(pending[a])]] \in States
      BY LoopAssumption
    <3>4. preview' \in [Agents -> States \cup {NoPreview}]
      BY <2>2, <3>3 DEF TakeCall, NeedsApproval
    <3>5. pc' \in [Agents -> Points]
      BY <2>2 DEF TakeCall
    <3>6. granted' \in [Agents -> BOOLEAN]
      BY <2>2 DEF TakeCall
    <3> QED BY <2>2, <3>2, <3>4, <3>5, <3>6 DEF TakeCall
  <2>3. CASE ToolReturns(a)
    <3>1. world' \in [Files -> States]
      BY <2>3 DEF ToolReturns
    <3>2. pc' \in [Agents -> Points]
      BY <2>3 DEF ToolReturns
    <3> QED BY <2>3, <3>1, <3>2 DEF ToolReturns
  <2>4. CASE ToolCancelled(a) \/ BatchDone(a) \/ Launch(a)
    BY <2>4 DEF ToolCancelled, BatchDone, Launch
  <2> QED BY <1>2, <2>1, <2>2, <2>3, <2>4 DEF Tool
<1>3. ASSUME NEW a \in Agents, Approval(a) PROVE Shape'
  <2>1. CASE \E always \in BOOLEAN : Approve(a, always)
    <3>1. pc' \in [Agents -> Points]
      BY <2>1 DEF Approve
    <3>2. allowAll' \in [Agents -> BOOLEAN]
      BY <2>1 DEF Approve
    <3>3. granted' \in [Agents -> BOOLEAN]
      BY <2>1 DEF Approve
    <3>4. approvalAll' \in BOOLEAN
      BY <2>1 DEF Approve
    <3> QED BY <2>1, <3>1, <3>2, <3>3, <3>4 DEF Approve
  <2>2. CASE ApprovalCancelled(a) \/ ApprovalFails(a) \/ Deny(a)
    BY <2>2 DEF ApprovalCancelled, ApprovalFails, Deny
  <2> QED BY <1>3, <2>1, <2>2 DEF Approval
<1>4. CASE Cancel
  BY <1>4 DEF Cancel
<1>5. CASE UNCHANGED vars
  BY <1>5 DEF vars
<1> QED BY <1>1, <1>2, <1>3, <1>4, <1>5 DEF Next, Step, Rest

-----------------------------------------------------------------------------
(* Consent *)

\* A loop that asks no more was told so by the user, on this machine.
ConsentInv ==
    /\ approvalAll => ~mode.remote
    /\ \A a \in Agents : allowAll[a] => approvalAll
    /\ ConsentNeeded

LEMMA ConsentStep == Shape /\ ConsentInv /\ [Next]_vars => ConsentInv'
<1> SUFFICES ASSUME Shape, ConsentInv, [Next]_vars PROVE ConsentInv'
  OBVIOUS
<1>0. UNCHANGED mode
  BY DEF Next, Step, Cancel, Rest, vars
<1> USE <1>0
<1> USE DEF Shape, ConsentInv, ConsentNeeded, callVars, turnVars, sharedVars, Goto, End, Set,
            Answer, Points
<1>1. ASSUME NEW a \in Agents, Turn(a) PROVE ConsentInv'
  <2>1. CASE Start(a)
    BY <2>1 DEF Start, EffectiveYes
  <2>2. CASE TopCancelled(a) \/ TopLimit(a) \/ Claim(a) \/ ModelCancelled(a) \/ ModelFails(a)
             \/ LeakedReply(a) \/ TruncatedReply(a) \/ TurnDone(a)
             \/ (\E deliverable \in BOOLEAN : FinalReply(a, deliverable))
             \/ \E calls \in Replies[a] : ToolReply(a, calls)
    BY <2>2 DEF TopCancelled, TopLimit, Claim, ModelCancelled, ModelFails, LeakedReply,
                TruncatedReply, TurnDone, FinalReply, ToolReply
  <2> QED BY <1>1, <2>1, <2>2 DEF Turn
<1>2. ASSUME NEW a \in Agents, Tool(a) PROVE ConsentInv'
  <2>1. CASE StartBatch(a)
    BY <2>1 DEF StartBatch
  <2>2. CASE TakeCall(a)
    BY <2>2 DEF TakeCall, NeedsApproval
  <2>3. CASE ToolReturns(a)
    BY <2>3 DEF ToolReturns
  <2>4. CASE ToolCancelled(a) \/ BatchDone(a) \/ Launch(a)
    BY <2>4 DEF ToolCancelled, BatchDone, Launch
  <2> QED BY <1>2, <2>1, <2>2, <2>3, <2>4 DEF Tool
<1>3. ASSUME NEW a \in Agents, Approval(a) PROVE ConsentInv'
  <2>1. CASE \E always \in BOOLEAN : Approve(a, always)
    <3>1. PICK always \in BOOLEAN : Approve(a, always)
      BY <2>1
    <3>2. (approvalAll' => ~mode.remote) /\ (approvalAll => approvalAll')
      <4>1. always => ~mode.remote
        BY <3>1 DEF Approve
      <4>2. UNCHANGED approvalAll \/ approvalAll' = (approvalAll \/ always)
        BY <3>1 DEF Approve
      <4>3. CASE always
        BY <4>1, <4>2, <4>3
      <4>4. CASE ~always
        BY <4>2, <4>4
      <4> QED BY <4>3, <4>4
    <3>3. \A b \in Agents : allowAll'[b] => allowAll[b] \/ approvalAll'
      BY <3>1 DEF Approve
    <3>4. granted'[a] /\ UNCHANGED current
      BY <3>1 DEF Approve
    <3>5. \A b \in Agents \ {a} : pc'[b] = pc[b] /\ granted'[b] = granted[b]
      BY <3>1 DEF Approve
    <3> QED BY <3>2, <3>3, <3>4, <3>5
  <2>2. CASE ApprovalCancelled(a) \/ ApprovalFails(a) \/ Deny(a)
    BY <2>2 DEF ApprovalCancelled, ApprovalFails, Deny
  <2> QED BY <1>3, <2>1, <2>2 DEF Approval
<1>4. CASE Cancel
  BY <1>4 DEF Cancel
<1>5. CASE UNCHANGED vars
  BY <1>5 DEF vars
<1> QED BY <1>1, <1>2, <1>3, <1>4, <1>5 DEF Next, Step, Rest

\* A risky tool never runs without a yes for its call, --yes or an "always": agent.rs:907-979.
THEOREM ConsentCorrect == Spec => []ConsentNeeded
<1>1. Init => ConsentInv
  BY DEF Init, ConsentInv, ConsentNeeded
<1>2. Shape /\ ConsentInv /\ [Next]_vars => (Shape /\ ConsentInv)'
  BY ShapeStep, ConsentStep
<1>3. ConsentInv => ConsentNeeded
  BY DEF ConsentInv
<1> QED BY <1>1, <1>2, <1>3, ShapeInit, PTL DEF Spec

-----------------------------------------------------------------------------
(* Previews *)

\* At most one loop is between the checks of a call and its result.
PreviewInv ==
    /\ \A a, b \in Agents : pc[a] \in {"launch", "running"} /\ pc[b] \in {"launch", "running"} => a = b
    /\ PreviewFaithful

LEMMA PreviewStep == Shape /\ PreviewInv /\ [Next]_vars => PreviewInv'
<1> SUFFICES ASSUME Shape, PreviewInv, [Next]_vars PROVE PreviewInv'
  OBVIOUS
<1> USE DEF Shape, PreviewInv, PreviewFaithful, callVars, turnVars, sharedVars, Goto, End, Set,
            Answer, Points
<1>1. ASSUME NEW a \in Agents, Turn(a) PROVE PreviewInv'
  <2>1. UNCHANGED <<world, preview, current>>
    BY <1>1 DEF Turn, Start, TopCancelled, TopLimit, Claim, ModelCancelled, ModelFails,
                LeakedReply, TruncatedReply, TurnDone, FinalReply, ToolReply
  <2>2. \E p \in Points \ {"launch", "running"} : pc' = [pc EXCEPT ![a] = p]
    BY <1>1 DEF Turn, Start, TopCancelled, TopLimit, Claim, ModelCancelled, ModelFails,
                LeakedReply, TruncatedReply, TurnDone, FinalReply, ToolReply
  <2> QED BY <2>1, <2>2
<1>2. ASSUME NEW a \in Agents, Free(a), Tool(a) PROVE PreviewInv'
  <2>1. CASE StartBatch(a)
    <3>1. UNCHANGED <<world, preview>> /\ \A b \in Agents \ {a} : current'[b] = current[b]
      BY <2>1 DEF StartBatch
    <3>2. \E p \in {"ended", "delegating"} : pc' = [pc EXCEPT ![a] = p]
      BY <2>1 DEF StartBatch
    <3> QED BY <3>1, <3>2
  <2>2. CASE TakeCall(a)
    <3>1. UNCHANGED world
      BY <2>2 DEF TakeCall
    <3>2. \A b \in Agents \ {a} : /\ current'[b] = current[b] /\ preview'[b] = preview[b]
                                  /\ pc'[b] = pc[b]
      BY <2>2 DEF TakeCall
    <3>3. pc'[a] \notin {"launch", "running"} \/ (pc'[a] = "launch" /\ preview'[a] = NoPreview)
      BY <2>2 DEF TakeCall
    <3> QED BY <1>2, <3>1, <3>2, <3>3 DEF Free
  <2>3. CASE ToolReturns(a)
    BY <1>2, <2>3 DEF ToolReturns, Free
  <2>4. CASE ToolCancelled(a) \/ BatchDone(a) \/ Launch(a)
    BY <2>4 DEF ToolCancelled, BatchDone, Launch
  <2> QED BY <1>2, <2>1, <2>2, <2>3, <2>4 DEF Tool
<1>3. ASSUME NEW a \in Agents, Free(a), Approval(a) PROVE PreviewInv'
  <2>1. CASE \E always \in BOOLEAN : Approve(a, always)
    BY <1>3, <2>1 DEF Approve, Free
  <2>2. CASE ApprovalCancelled(a) \/ ApprovalFails(a) \/ Deny(a)
    BY <2>2 DEF ApprovalCancelled, ApprovalFails, Deny
  <2> QED BY <1>3, <2>1, <2>2 DEF Approval
<1>4. CASE Cancel
  BY <1>4 DEF Cancel
<1>5. CASE UNCHANGED vars
  BY <1>5 DEF vars
<1> QED BY <1>1, <1>2, <1>3, <1>4, <1>5 DEF Next, Step, Rest

\* An approved tool acts on the state its preview showed: agent.rs:957-974.
THEOREM PreviewCorrect == Spec => []PreviewFaithful
<1>1. Init => PreviewInv
  BY DEF Init, PreviewInv, PreviewFaithful
<1>2. Shape /\ PreviewInv /\ [Next]_vars => (Shape /\ PreviewInv)'
  BY ShapeStep, PreviewStep
<1>3. PreviewInv => PreviewFaithful
  BY DEF PreviewInv
<1> QED BY <1>1, <1>2, <1>3, ShapeInit, PTL DEF Spec

-----------------------------------------------------------------------------
(* Transcripts *)

\* The call that is being handled is the only one that is neither pending nor answered.
HandlesOne(a) ==
    \/ pc[a] \in {"approval", "launch", "running"}
    \/ pc[a] = "delegating" /\ current[a] # NoCall

CallInv ==
    /\ asked \in [Agents -> Nat] /\ answered \in [Agents -> Int]
    /\ \A a \in Agents : pc[a] = "idle" => answered[a] = asked[a]
    /\ \A a \in Agents : HandlesOne(a) => answered[a] + 1 + Len(pending[a]) = asked[a]
    /\ EveryCallAnswered

LEMMA CallInit == Init => CallInv
BY DEF Init, CallInv, HandlesOne, EveryCallAnswered

LEMMA CallStep == Shape /\ CallInv /\ [Next]_vars => CallInv'
<1> SUFFICES ASSUME Shape, CallInv, [Next]_vars PROVE CallInv'
  OBVIOUS
<1> USE DEF Shape, CallInv, HandlesOne, EveryCallAnswered, callVars, turnVars, sharedVars, Goto,
            End, Set, Answer, Points
<1>0. \A a \in Agents : Len(pending[a]) \in Nat
  OBVIOUS
<1>1. ASSUME NEW a \in Agents, Turn(a) PROVE CallInv'
  <2>1. CASE \E calls \in Replies[a] : ToolReply(a, calls)
    <3>1. PICK calls \in Replies[a] : ToolReply(a, calls)
      BY <2>1
    <3>2. calls \in Seq(Calls) /\ Len(calls) \in Nat
      BY ReplyType
    <3> QED BY <3>1, <3>2 DEF ToolReply
  <2>2. CASE TurnDone(a)
    <3>1. Len(pending[a]) = 0
      BY <2>2 DEF TurnDone
    <3> QED BY <2>2, <3>1 DEF TurnDone
  <2>3. CASE Start(a) \/ TopCancelled(a) \/ TopLimit(a) \/ Claim(a) \/ ModelCancelled(a)
             \/ ModelFails(a) \/ LeakedReply(a) \/ TruncatedReply(a)
             \/ \E deliverable \in BOOLEAN : FinalReply(a, deliverable)
    BY <2>3 DEF Start, TopCancelled, TopLimit, Claim, ModelCancelled, ModelFails, LeakedReply,
                TruncatedReply, FinalReply
  <2> QED BY <1>1, <2>1, <2>2, <2>3 DEF Turn
<1>2. ASSUME NEW a \in Agents, Tool(a) PROVE CallInv'
  <2>1. CASE StartBatch(a)
    BY <2>1 DEF StartBatch
  <2>2. CASE TakeCall(a)
    <3>1. pending[a] # <<>> /\ pending' = Set(pending, a, Tail(pending[a]))
      BY <2>2 DEF TakeCall
    <3>2. Len(pending'[a]) = Len(pending[a]) - 1
      BY <3>1
    <3>3. answered[a] + Len(pending[a]) = asked[a] /\ UNCHANGED asked
      BY <2>2 DEF TakeCall
    <3>4. answered' \in [Agents -> Int]
      BY <2>2 DEF TakeCall
    <3>5. \/ pc'[a] = "ended"
          \/ pc'[a] = "tools" /\ answered'[a] = answered[a] + 1
          \/ pc'[a] \in {"approval", "launch"} /\ answered'[a] = answered[a]
      BY <2>2 DEF TakeCall
    <3>6. \A b \in Agents \ {a} : /\ pc'[b] = pc[b] /\ answered'[b] = answered[b]
                                  /\ pending'[b] = pending[b] /\ current'[b] = current[b]
      BY <2>2 DEF TakeCall
    <3>7. asked[a] \in Nat /\ answered[a] \in Int
      OBVIOUS
    <3>8. CASE pc'[a] = "ended"
      BY <3>3, <3>4, <3>6, <3>8
    <3>9. CASE pc'[a] = "tools" /\ answered'[a] = answered[a] + 1
      <4>1. answered'[a] + Len(pending'[a]) = asked'[a]
        BY <1>0, <3>2, <3>3, <3>7, <3>9
      <4> QED BY <3>3, <3>4, <3>6, <3>9, <4>1
    <3>10. CASE pc'[a] \in {"approval", "launch"} /\ answered'[a] = answered[a]
      <4>1. answered'[a] + 1 + Len(pending'[a]) = asked'[a]
        BY <1>0, <3>2, <3>3, <3>7, <3>10
      <4> QED BY <3>3, <3>4, <3>6, <3>10, <4>1
    <3> QED BY <3>5, <3>8, <3>9, <3>10
  <2>3. CASE BatchDone(a)
    BY <1>0, <2>3 DEF BatchDone
  <2>4. CASE Launch(a)
    BY <1>0, <2>4 DEF Launch
  <2>5. CASE ToolReturns(a)
    <3>1. UNCHANGED <<pending, asked, current>>
      BY <2>5 DEF ToolReturns
    <3>2. CASE pc' = [pc EXCEPT ![a] = "ended"] /\ UNCHANGED answered
      BY <3>1, <3>2
    <3>3. CASE Answer(a)
      <4>1. answered[a] + 1 + Len(pending[a]) = asked[a]
        BY <2>5 DEF ToolReturns
      <4> QED BY <1>0, <3>1, <3>3, <4>1
    <3> QED BY <2>5, <3>2, <3>3 DEF ToolReturns
  <2>6. CASE ToolCancelled(a)
    BY <2>6 DEF ToolCancelled
  <2> QED BY <1>2, <2>1, <2>2, <2>3, <2>4, <2>5, <2>6 DEF Tool
<1>3. ASSUME NEW a \in Agents, Approval(a) PROVE CallInv'
  <2>1. UNCHANGED <<pending, asked, current>> /\ pc[a] = "approval"
    BY <1>3 DEF Approval, Approve, ApprovalCancelled, ApprovalFails, Deny
  <2>2. answered[a] + 1 + Len(pending[a]) = asked[a]
    BY <2>1
  <2>3. CASE Answer(a)
    BY <1>0, <2>1, <2>2, <2>3
  <2>4. CASE UNCHANGED answered /\ \E p \in {"ended", "launch"} : pc' = [pc EXCEPT ![a] = p]
    BY <2>1, <2>2, <2>4
  <2> QED BY <1>3, <2>3, <2>4 DEF Approval, Approve, ApprovalCancelled, ApprovalFails, Deny
<1>4. CASE Cancel
  BY <1>4 DEF Cancel
<1>5. CASE UNCHANGED vars
  BY <1>5 DEF vars
<1> QED BY <1>1, <1>2, <1>3, <1>4, <1>5 DEF Next, Step, Rest

\* No request goes to a model with a call that has no result or two: agent.rs:684-1115.
THEOREM AnsweredCorrect == Spec => []EveryCallAnswered
<1>1. Init => CallInv
  BY CallInit
<1>2. Shape /\ CallInv /\ [Next]_vars => (Shape /\ CallInv)'
  BY ShapeStep, CallStep
<1>3. CallInv => EveryCallAnswered
  BY DEF CallInv
<1> QED BY <1>1, <1>2, <1>3, ShapeInit, PTL DEF Spec

-----------------------------------------------------------------------------
(* The shared budget *)

\* The turns that were taken, each loop's counted from 1.
Turns == {t \in Agents \X (1 .. HardCap) : t[2] <= iterations[t[1]]}

BudgetInv ==
    /\ iterations \in [Agents -> Nat]
    /\ limit \in Nat /\ limit <= HardCap
    /\ IsFiniteSet(Turns) /\ used = Cardinality(Turns)
    /\ used <= limit

LEMMA BudgetInit == Init => BudgetInv
<1> SUFFICES ASSUME Init PROVE BudgetInv
  OBVIOUS
<1>1. iterations = [a \in Agents |-> 0] /\ limit = 0 /\ used = 0
  BY DEF Init
<1>2. Turns = {}
  BY <1>1, LoopAssumption DEF Turns
<1> QED BY <1>1, <1>2, FS_EmptySet, LoopAssumption DEF BudgetInv

LEMMA BudgetStep == Shape /\ BudgetInv /\ [Next]_vars => BudgetInv'
<1> SUFFICES ASSUME Shape, BudgetInv, [Next]_vars PROVE BudgetInv'
  OBVIOUS
<1>0. used \in Nat /\ HardCap \in Nat \ {0}
  BY FS_CardinalityType, LoopAssumption DEF BudgetInv
<1> USE DEF callVars, turnVars, sharedVars, Goto, End, Set
<1>1. ASSUME UNCHANGED <<iterations, limit, used>> PROVE BudgetInv'
  BY <1>1 DEF BudgetInv, Turns
<1>2. ASSUME NEW a \in Agents, Turn(a) PROVE BudgetInv'
  <2>1. CASE Start(a)
    <3>1. UNCHANGED <<iterations, used>>
      BY <2>1 DEF Start
    <3>2. limit' = IF limit = 0 THEN Max2(1, Min2(MaxIterations[a], HardCap)) ELSE limit
      BY <2>1 DEF Start
    <3>3. MaxIterations[a] \in Nat
      BY LoopAssumption
    <3>4. limit' \in Nat /\ limit' <= HardCap /\ limit <= limit'
      BY <1>0, <3>2, <3>3 DEF Max2, Min2, BudgetInv
    <3> QED BY <1>0, <3>1, <3>4 DEF BudgetInv, Turns
  <2>2. CASE Claim(a)
    <3>1. /\ iterations' = [iterations EXCEPT ![a] = @ + 1] /\ limit' = limit /\ used' = used + 1
          /\ used < limit /\ iterations[a] < Min2(MaxIterations[a], HardCap)
      BY <2>2 DEF Claim
    <3>2. iterations[a] \in Nat /\ MaxIterations[a] \in Nat /\ iterations[a] + 1 \in 1 .. HardCap
      <4>1. iterations[a] \in Nat /\ MaxIterations[a] \in Nat
        BY LoopAssumption DEF BudgetInv
      <4>2. iterations[a] < HardCap
        BY <1>0, <3>1, <4>1 DEF Min2
      <4> QED BY <1>0, <4>1, <4>2
    <3> DEFINE turn == <<a, iterations[a] + 1>>
    <3>3. turn \notin Turns
      BY <3>2 DEF Turns
    <3>4. Turns' = Turns \cup {turn}
      <4>1. \A b \in Agents : iterations'[b] = IF b = a THEN iterations[a] + 1 ELSE iterations[b]
        BY <3>1 DEF BudgetInv
      <4>2. turn \in Turns'
        BY <3>2, <4>1 DEF Turns
      <4>3. ASSUME NEW b \in Agents, NEW i \in 1 .. HardCap
            PROVE  <<b, i>> \in Turns' <=> <<b, i>> \in Turns \cup {turn}
        <5>1. CASE b = a
          BY <3>2, <4>1, <5>1 DEF Turns
        <5>2. CASE b # a
          BY <4>1, <5>2 DEF Turns
        <5> QED BY <5>1, <5>2
      <4>4. \A t \in Agents \X (1 .. HardCap) : t \in Turns' <=> t \in Turns \cup {turn}
        BY <4>3
      <4> QED BY <3>2, <4>2, <4>4 DEF Turns
    <3>5. IsFiniteSet(Turns') /\ Cardinality(Turns') = Cardinality(Turns) + 1
      BY <3>3, <3>4, FS_AddElement DEF BudgetInv
    <3>6. iterations' \in [Agents -> Nat]
      BY <3>1, <3>2 DEF BudgetInv
    <3> QED BY <1>0, <3>1, <3>5, <3>6 DEF BudgetInv
  <2>3. CASE TopCancelled(a) \/ TopLimit(a) \/ ModelCancelled(a) \/ ModelFails(a)
             \/ LeakedReply(a) \/ TruncatedReply(a) \/ TurnDone(a)
             \/ (\E deliverable \in BOOLEAN : FinalReply(a, deliverable))
             \/ \E calls \in Replies[a] : ToolReply(a, calls)
    BY <1>1, <2>3 DEF TopCancelled, TopLimit, ModelCancelled, ModelFails, LeakedReply,
                TruncatedReply, TurnDone, FinalReply, ToolReply
  <2> QED BY <1>2, <2>1, <2>2, <2>3 DEF Turn
<1>3. ASSUME NEW a \in Agents, Tool(a) \/ Approval(a) PROVE BudgetInv'
  BY <1>1, <1>3 DEF Tool, StartBatch, TakeCall, ToolReturns, ToolCancelled, BatchDone, Launch,
     Approval, Approve, ApprovalCancelled, ApprovalFails, Deny
<1>4. CASE Cancel
  BY <1>1, <1>4 DEF Cancel
<1>5. CASE UNCHANGED vars
  BY <1>1, <1>5 DEF vars
<1> QED BY <1>2, <1>3, <1>4, <1>5 DEF Next, Step, Rest

\* The tree's count is the number of turns its loops took, and stays below
\* the limit its first loop fixed: run/data.rs, ensure_model_iteration_limit
\* and claim_model_iteration.
THEOREM BudgetCorrect == Spec => []BudgetIsShared
<1>1. Init => BudgetInv
  BY BudgetInit
<1>2. Shape /\ BudgetInv /\ [Next]_vars => (Shape /\ BudgetInv)'
  BY ShapeStep, BudgetStep
<1>3. BudgetInv => BudgetIsShared
  BY DEF BudgetInv, BudgetIsShared, Turns
<1> QED BY <1>1, <1>2, <1>3, ShapeInit, PTL DEF Spec

-----------------------------------------------------------------------------
(* Repeated calls *)

\* The order of the naturals is well-founded.
LEMMA NatOrder ==
  \E R : IsWellFoundedOn(R, Nat) /\ \A m, n \in Nat : <<m, n>> \in R <=> m < n
<1>1. \A m, n \in Nat : <<m, n>> \in OpToRel(<, Nat) <=> m < n
  BY DEF OpToRel
<1> QED BY <1>1, NatLessThanWellFounded, Zenon

\* A set of naturals that is not empty has a least one.
LEMMA Least ==
  ASSUME NEW T, T \subseteq Nat, T # {}
  PROVE  \E n \in T : \A m \in T : n <= m
<1>1. PICK R : IsWellFoundedOn(R, Nat) /\ \A m, n \in Nat : <<m, n>> \in R <=> m < n
  BY NatOrder
<1>2. IsWellFoundedOn(R, Nat)
  BY <1>1
<1>3. PICK n \in T : \A m \in T : ~ (<<m, n>> \in R)
  BY <1>2, WFMin
<1>4. ASSUME NEW m \in T PROVE n <= m
  <2>1. m \in Nat /\ n \in Nat /\ ~ (<<m, n>> \in R)
    BY <1>3
  <2>2. ~(m < n)
    BY <1>1, <2>1
  <2> QED BY <2>1, <2>2
<1> QED BY <1>4

\* Induction: a set with 0 and each successor has every natural.
LEMMA Up ==
  ASSUME NEW T, 0 \in T, \A n \in Nat : n \in T => n + 1 \in T
  PROVE  Nat \subseteq T
<1>1. ASSUME Nat \ T # {} PROVE FALSE
  <2>1. PICK n \in Nat \ T : \A m \in Nat \ T : n <= m
    BY <1>1, Least
  <2>2. n # 0 /\ n - 1 \in Nat /\ ~(n <= n - 1)
    BY <2>1
  <2>3. n - 1 \in T /\ (n - 1) + 1 = n
    BY <2>1, <2>2
  <2> QED BY <2>1, <2>2, <2>3
<1> QED BY <1>1

\* What RunAt computes: the count so far, one more for each call that equals
\* the one before it, and a fresh count for any other.
LEMMA RunAtDef ==
  ASSUME NEW last, NEW count \in Nat, NEW series \in Seq(Calls)
  PROVE  /\ RunAt(last, count, series, 0) = count
         /\ series # <<>> =>
              RunAt(last, count, series, 1) = IF series[1] = last THEN count + 1 ELSE 1
         /\ \A i \in Nat : i + 2 <= Len(series) =>
              RunAt(last, count, series, i + 2) =
                IF series[i + 2] = series[i + 1] THEN RunAt(last, count, series, i + 1) + 1 ELSE 1
<1> DEFINE before(j) == IF j = 1 THEN last ELSE series[j - 1]
           Body(f, j) == IF j = 0 THEN count ELSE IF series[j] = before(j) THEN f[j - 1] + 1 ELSE 1
           Good(n, f) == f = [j \in 0 .. n |-> Body(f, j)]
           T == {n \in Nat : \E f : Good(n, f)}
           run == CHOOSE f : Good(Len(series), f)
<1>1. 0 \in T
  <2>1. Good(0, [j \in 0 .. 0 |-> count])
    OBVIOUS
  <2> QED BY <2>1
<1>2. ASSUME NEW n \in Nat, n \in T PROVE n + 1 \in T
  <2>1. PICK f : Good(n, f)
    BY <1>2
  <2> DEFINE g == [j \in 0 .. n + 1 |-> IF j = n + 1 THEN Body(f, j) ELSE f[j]]
  <2>2. Good(n + 1, g)
    <3> SUFFICES ASSUME NEW j \in 0 .. n + 1 PROVE g[j] = Body(g, j)
      OBVIOUS
    <3>1. CASE j = n + 1
      BY <3>1
    <3>2. CASE j \in 0 .. n
      BY <2>1, <3>2
    <3> QED BY <3>1, <3>2
  <2> HIDE DEF g, Good
  <2>3. \E h : Good(n + 1, h)
    BY <2>2
  <2> QED BY <2>3
<1>3. Len(series) \in Nat
  OBVIOUS
<1>4. \E f : Good(Len(series), f)
  <2> HIDE DEF Good
  <2> QED BY <1>1, <1>2, <1>3, Up
<1>5. Good(Len(series), run)
  <2> HIDE DEF Good
  <2> QED BY <1>4
<1>6. \A j \in 0 .. Len(series) : RunAt(last, count, series, j) = run[j]
  BY DEF RunAt
<1>7. \A j \in 0 .. Len(series) : run[j] = Body(run, j)
  <2> HIDE DEF run
  <2> QED BY <1>5
<1> HIDE DEF run
<1> HIDE DEF Good, T
<1>8. run[0] = count
  BY <1>3, <1>7
<1>9. ASSUME series # <<>>
      PROVE  run[1] = IF series[1] = last THEN count + 1 ELSE 1
  <2>1. 1 \in 0 .. Len(series) /\ 1 - 1 = 0
    BY <1>9
  <2> QED BY <1>7, <1>8, <2>1
<1>10. ASSUME NEW i \in Nat, i + 2 <= Len(series)
       PROVE  run[i + 2] = IF series[i + 2] = series[i + 1] THEN run[i + 1] + 1 ELSE 1
  <2>1. /\ i + 2 \in 0 .. Len(series) /\ i + 2 # 0 /\ i + 2 # 1
        /\ (i + 2) - 1 = i + 1
    BY <1>3, <1>10
  <2> QED BY <1>7, <2>1
<1>11. 0 \in 0 .. Len(series) /\ (series # <<>> => 1 \in 0 .. Len(series))
  BY <1>3
<1>12. ASSUME NEW i \in Nat, i + 2 <= Len(series)
       PROVE  i + 2 \in 0 .. Len(series) /\ i + 1 \in 0 .. Len(series)
  BY <1>3, <1>12
<1> HIDE DEF Body
<1> QED BY <1>6, <1>8, <1>9, <1>10, <1>11, <1>12

LEMMA RunAtNext ==
  ASSUME NEW last, NEW count \in Nat, NEW series \in Seq(Calls), NEW i \in Nat, i + 2 <= Len(series)
  PROVE  RunAt(last, count, series, i + 2) =
           IF series[i + 2] = series[i + 1] THEN RunAt(last, count, series, i + 1) + 1 ELSE 1
<1>1. \A k \in Nat : k + 2 <= Len(series) =>
        RunAt(last, count, series, k + 2) =
          IF series[k + 2] = series[k + 1] THEN RunAt(last, count, series, k + 1) + 1 ELSE 1
  BY RunAtDef
<1> QED BY <1>1

\* Both counts of a series: the one that decides and the history.
LEMMA RunAtBound ==
  ASSUME NEW last, NEW count \in Nat, NEW key, NEW most \in Nat,
         NEW series \in Seq(Calls), last \in Calls => last = key /\ count <= most
  PROVE  \A i \in 1 .. Len(series) :
           /\ RunAt(last, count, series, i) \in Nat /\ RunAt(key, most, series, i) \in Nat
           /\ 1 <= RunAt(last, count, series, i)
           /\ RunAt(last, count, series, i) <= RunAt(key, most, series, i)
<1> DEFINE low(i) == RunAt(last, count, series, i)
           high(i) == RunAt(key, most, series, i)
           Below(i) == low(i) \in Nat /\ high(i) \in Nat /\ 1 <= low(i) /\ low(i) <= high(i)
           T == {n \in Nat : n + 1 \in 1 .. Len(series) => Below(n + 1)}
<1>0. Len(series) \in Nat /\ \A i \in 1 .. Len(series) : series[i] \in Calls
  OBVIOUS
<1>1. ASSUME 1 \in 1 .. Len(series) PROVE Below(1)
  <2>1. series # <<>>
    BY <1>1
  <2>2. low(1) = IF series[1] = last THEN count + 1 ELSE 1
    BY <2>1, RunAtDef, Zenon
  <2>3. high(1) = IF series[1] = key THEN most + 1 ELSE 1
    BY <2>1, RunAtDef, Zenon
  <2> HIDE DEF low, high
  <2> QED BY <1>0, <1>1, <2>2, <2>3
<1>2. ASSUME NEW n \in Nat, n \in T, n + 2 \in 1 .. Len(series) PROVE Below(n + 2)
  <2>1. Below(n + 1)
    BY <1>0, <1>2
  <2>2. /\ low(n + 2) = IF series[n + 2] = series[n + 1] THEN low(n + 1) + 1 ELSE 1
        /\ high(n + 2) = IF series[n + 2] = series[n + 1] THEN high(n + 1) + 1 ELSE 1
    <3>1. n + 2 <= Len(series)
      BY <1>0, <1>2
    <3>2. low(n + 2) = IF series[n + 2] = series[n + 1] THEN low(n + 1) + 1 ELSE 1
      BY <3>1, RunAtNext
    <3>3. high(n + 2) = IF series[n + 2] = series[n + 1] THEN high(n + 1) + 1 ELSE 1
      BY <3>1, RunAtNext
    <3> QED BY <3>2, <3>3
  <2> HIDE DEF low, high
  <2> QED BY <2>1, <2>2
<1>3. 0 \in T
  BY <1>1
<1>4. ASSUME NEW n \in Nat, n \in T PROVE n + 1 \in T
  <2>1. (n + 1) + 1 = n + 2
    OBVIOUS
  <2> HIDE DEF Below
  <2> QED BY <1>2, <1>4, <2>1
<1>5. Nat \subseteq T
  <2> HIDE DEF T
  <2> QED BY <1>3, <1>4, Up
<1>6. ASSUME NEW i \in 1 .. Len(series) PROVE Below(i)
  <2>1. i - 1 \in Nat /\ (i - 1) + 1 = i
    BY <1>0
  <2>2. i - 1 \in T
    BY <1>5, <2>1
  <2> HIDE DEF Below
  <2> QED BY <2>1, <2>2
<1> QED BY <1>6

\* A series of one call.
LEMMA RunAtOne ==
  ASSUME NEW last, NEW count \in Nat, NEW c \in Calls
  PROVE  RunAt(last, count, <<c>>, 1) = IF c = last THEN count + 1 ELSE 1
<1>1. <<c>> \in Seq(Calls) /\ Len(<<c>>) = 1 /\ <<c>>[1] = c
  OBVIOUS
<1>2. <<c>> # <<>>
  OBVIOUS
<1>3. RunAt(last, count, <<c>>, 1) = IF <<c>>[1] = last THEN count + 1 ELSE 1
  BY <1>1, <1>2, RunAtDef, Zenon
<1> QED BY <1>1, <1>3

\* What the loop remembers of its last call bounds what was started: the
\* streak counts at least the runs, and one more while a call waits to start.
Third(a) ==
    /\ ~thirdRun[a]
    /\ pc[a] \in {"approval", "launch"} =>
         /\ current[a] \in Calls /\ current[a] = lastKey[a]
         /\ 1 <= streak[a] /\ streak[a] < RepeatCap
         /\ lastRun[a] \in Calls => lastRun[a] = current[a] /\ runs[a] + 1 <= streak[a]
    /\ pc[a] \notin {"approval", "launch", "ended"} =>
         (lastRun[a] \in Calls => lastRun[a] = lastKey[a] /\ runs[a] <= streak[a])

ThirdInv ==
    /\ lastKey \in [Agents -> Calls \cup {NoCall}] /\ streak \in [Agents -> Nat]
    /\ lastRun \in [Agents -> Calls \cup {NoCall}] /\ runs \in [Agents -> Nat]
    /\ thirdRun \in [Agents -> BOOLEAN]
    /\ \A a \in Agents : Third(a)

\* A move of a loop that keeps its counts, and starts or takes no call.
LEMMA ThirdKept ==
  ASSUME Shape, ThirdInv, NEW a \in Agents, NEW p \in Points, Goto(a, p),
         UNCHANGED <<repeatVars, runVars, current>>,
         \/ p = "ended"
         \/ p = pc[a]
         \/ p = "launch" /\ pc[a] = "approval"
         \/ p \notin {"approval", "launch"} /\ pc[a] # "ended"
  PROVE  ThirdInv'
<1>1. pc' = [pc EXCEPT ![a] = p] /\ pc \in [Agents -> Points]
  BY DEF Goto, Shape
<1>2. ASSUME NEW b \in Agents PROVE Third(b)'
  <2>1. Third(b)
    BY DEF ThirdInv
  <2>2. CASE b # a
    BY <1>1, <2>1, <2>2 DEF Third, repeatVars, runVars
  <2>3. CASE b = a
    <3>1. pc'[a] = p
      BY <1>1
    <3>2. runs[a] \in Nat /\ streak[a] \in Nat
      BY DEF ThirdInv
    <3> QED BY <2>1, <2>3, <3>1, <3>2 DEF Third, repeatVars, runVars
  <2> QED BY <2>2, <2>3
<1> QED BY <1>2 DEF ThirdInv, repeatVars, runVars

\* A call is taken off the turn.
LEMMA ThirdTake ==
  ASSUME Shape, ThirdInv, NEW a \in Agents, TakeCall(a)
  PROVE  ThirdInv'
<1> DEFINE c == Head(pending[a])
           s == StreakAt(a, <<c>>, 1)
<1>1. pc[a] = "tools" /\ pending[a] # <<>>
  BY DEF TakeCall
<1>2. c \in Calls
  <2>1. pending[a] \in Seq(Calls)
    BY DEF Shape
  <2> QED BY <1>1, <2>1
<1>3. /\ streak[a] \in Nat /\ runs[a] \in Nat
      /\ lastKey[a] \in Calls \cup {NoCall} /\ lastRun[a] \in Calls \cup {NoCall}
  BY DEF ThirdInv
<1>4. s = IF c = lastKey[a] THEN streak[a] + 1 ELSE 1
  BY <1>2, <1>3, RunAtOne DEF StreakAt
<1>5. s \in Nat /\ 1 <= s
  BY <1>3, <1>4
<1>6. Len(<<c>>) = 1 /\ <<c>>[1] = c
  OBVIOUS
<1>7. /\ streak' = [streak EXCEPT ![a] = s] /\ lastKey' = [lastKey EXCEPT ![a] = c]
  <2>1. Count(a, <<c>>)
    BY DEF TakeCall
  <2> QED BY <1>6, <2>1 DEF Count, Set
<1>8. /\ current' = [current EXCEPT ![a] = c]
      /\ lastRun' = [lastRun EXCEPT ![a] = IF c = lastRun[a] THEN c ELSE NoCall]
      /\ runs' = [runs EXCEPT ![a] = IF c = lastRun[a] THEN runs[a] ELSE 0]
      /\ UNCHANGED thirdRun
  BY DEF TakeCall, Set
<1>9. Repeated(a, <<c>>) <=> s >= RepeatCap
  <2>1. 1 .. Len(<<c>>) = {1}
    BY <1>6
  <2> QED BY <2>1 DEF Repeated
<1>10. PICK p \in {"ended", "tools", "approval", "launch"} :
         /\ pc' = [pc EXCEPT ![a] = p]
         /\ p \in {"approval", "launch"} => s < RepeatCap
  <2> HIDE DEF s
  <2>1. \/ Repeated(a, <<c>>) /\ pc' = [pc EXCEPT ![a] = "ended"]
        \/ pc' = [pc EXCEPT ![a] = "tools"]
        \/ ~Repeated(a, <<c>>) /\ pc' = [pc EXCEPT ![a] = "approval"]
        \/ ~Repeated(a, <<c>>) /\ pc' = [pc EXCEPT ![a] = "launch"]
    BY DEF TakeCall, Goto, End, Answer
  <2>2. Repeated(a, <<c>>) \/ s < RepeatCap
    BY <1>5, <1>9 DEF RepeatCap
  <2> QED BY <2>1, <2>2
<1> HIDE DEF s, c
<1>11. ASSUME NEW b \in Agents PROVE Third(b)'
  <2>1. Third(b) /\ Third(a) /\ pc \in [Agents -> Points] /\ current \in [Agents -> Calls \cup {NoCall}]
    BY DEF ThirdInv, Shape
  <2>2. CASE b # a
    BY <1>7, <1>8, <1>10, <2>1, <2>2 DEF Third, ThirdInv
  <2>3. CASE b = a
    <3>1. /\ streak'[a] = s /\ lastKey'[a] = c /\ current'[a] = c /\ pc'[a] = p
          /\ lastRun'[a] = IF c = lastRun[a] THEN c ELSE NoCall
          /\ runs'[a] = IF c = lastRun[a] THEN runs[a] ELSE 0
      BY <1>7, <1>8, <1>10, <2>1 DEF ThirdInv
    <3>2. c = lastRun[a] => lastRun[a] = lastKey[a] /\ runs[a] + 1 <= s
      BY <1>1, <1>2, <1>3, <1>4, <2>1 DEF Third
    <3>3. NoCall \notin Calls
      BY LoopAssumption
    <3>4. lastRun'[a] \in Calls => c = lastRun[a] /\ lastRun'[a] = c /\ runs'[a] + 1 <= s /\ runs'[a] <= s
      BY <1>3, <1>5, <3>1, <3>2, <3>3
    <3> QED BY <1>2, <1>5, <1>8, <1>10, <2>1, <2>3, <3>1, <3>4 DEF Third
  <2> QED BY <2>2, <2>3
<1> QED BY <1>2, <1>3, <1>5, <1>7, <1>8, <1>11 DEF ThirdInv

\* The call is started.
LEMMA ThirdLaunch ==
  ASSUME Shape, ThirdInv, NEW a \in Agents, Launch(a)
  PROVE  ThirdInv'
<1> DEFINE c == current[a]
           n == RunAt(lastRun[a], runs[a], <<c>>, 1)
<1>1. Third(a) /\ pc[a] = "launch" /\ pc \in [Agents -> Points] /\ UNCHANGED repeatVars /\ UNCHANGED current
  BY DEF Launch, ThirdInv, Shape, callVars
<1>2. /\ c \in Calls /\ c = lastKey[a] /\ 1 <= streak[a] /\ streak[a] < RepeatCap
      /\ lastRun[a] \in Calls => lastRun[a] = c /\ runs[a] + 1 <= streak[a]
  BY <1>1 DEF Third
<1>3. streak[a] \in Nat /\ runs[a] \in Nat
  BY DEF ThirdInv
<1>4. n = IF c = lastRun[a] THEN runs[a] + 1 ELSE 1
  BY <1>2, <1>3, RunAtOne
<1>5. n \in Nat /\ n <= streak[a] /\ n < 3
  BY <1>2, <1>3, <1>4 DEF RepeatCap
<1>6. Len(<<c>>) = 1 /\ <<c>>[1] = c /\ 1 .. Len(<<c>>) = {1}
  OBVIOUS
<1>7. /\ lastRun' = [lastRun EXCEPT ![a] = c] /\ runs' = [runs EXCEPT ![a] = n]
      /\ thirdRun' = [thirdRun EXCEPT ![a] = thirdRun[a] \/ n >= 3]
  <2>1. RecordRuns(a, <<c>>)
    BY DEF Launch
  <2> QED BY <1>6, <2>1 DEF RecordRuns, Set
<1>8. PICK p \in {"delegating", "running"} : pc' = [pc EXCEPT ![a] = p]
  BY DEF Launch, Goto
<1> HIDE DEF n, c
<1>9. ASSUME NEW b \in Agents PROVE Third(b)'
  <2>1. Third(b)
    BY DEF ThirdInv
  <2>2. CASE b # a
    BY <1>1, <1>7, <1>8, <2>1, <2>2 DEF Third, ThirdInv, repeatVars
  <2>3. CASE b = a
    <3>1. /\ ~thirdRun'[a] /\ lastRun'[a] = c /\ runs'[a] = n /\ pc'[a] = p
      BY <1>1, <1>5, <1>7, <1>8, <2>1, <2>3 DEF Third, ThirdInv
    <3> QED BY <1>1, <1>2, <1>5, <2>3, <3>1 DEF Third, repeatVars
  <2> QED BY <2>2, <2>3
<1>10. thirdRun'  \in [Agents -> BOOLEAN]
  BY <1>7 DEF ThirdInv
<1> QED BY <1>1, <1>2, <1>5, <1>7, <1>9, <1>10 DEF ThirdInv, repeatVars

\* The delegations at the head of the turn are started together, or end the loop.
LEMMA ThirdBatch ==
  ASSUME Shape, ThirdInv, NEW a \in Agents, StartBatch(a)
  PROVE  ThirdInv'
<1>1. PICK n \in 2 .. Len(pending[a]) :
        LET batch == SubSeq(pending[a], 1, n) IN
        /\ Count(a, batch)
        /\ IF Repeated(a, batch)
           THEN End(a, "limit") /\ UNCHANGED runVars
           ELSE Goto(a, "delegating") /\ RecordRuns(a, batch) /\ UNCHANGED status
  BY DEF StartBatch
<1> DEFINE batch == SubSeq(pending[a], 1, n)
           low(i) == RunAt(lastRun[a], runs[a], batch, i)
           high(i) == RunAt(lastKey[a], streak[a], batch, i)
<1>2. pc[a] = "tools" /\ pc \in [Agents -> Points] /\ Third(a) /\ current' = Set(current, a, NoCall)
  BY DEF StartBatch, Shape, ThirdInv
<1>3. batch \in Seq(Calls) /\ Len(batch) = n /\ n \in Nat /\ n >= 2
  <2>1. pending[a] \in Seq(Calls) /\ Len(pending[a]) \in Nat
    BY DEF Shape
  <2> QED BY <1>1, <2>1
<1>4. batch[n] \in Calls
  BY <1>3
<1>5. /\ streak[a] \in Nat /\ runs[a] \in Nat
      /\ lastRun[a] \in Calls => lastRun[a] = lastKey[a] /\ runs[a] <= streak[a]
  BY <1>2 DEF Third, ThirdInv
<1>6. \A i \in 1 .. n : low(i) \in Nat /\ high(i) \in Nat /\ 1 <= low(i) /\ low(i) <= high(i)
  BY <1>3, <1>5, RunAtBound
<1> HIDE DEF batch
<1>7. /\ streak' = [streak EXCEPT ![a] = high(n)] /\ lastKey' = [lastKey EXCEPT ![a] = batch[n]]
  BY <1>1, <1>3 DEF Count, Set, StreakAt, batch
<1>8. n \in 1 .. n
  BY <1>3
<1>9. CASE Repeated(a, batch)
  <2>1. UNCHANGED runVars /\ pc' = [pc EXCEPT ![a] = "ended"]
    BY <1>1, <1>9 DEF End, Goto, batch
  <2>2. ASSUME NEW b \in Agents PROVE Third(b)'
    <3>1. Third(b)
      BY DEF ThirdInv
    <3>2. CASE b # a
      BY <1>2, <1>7, <2>1, <3>1, <3>2 DEF Third, ThirdInv, runVars, Shape, Set
    <3>3. CASE b = a
      BY <1>2, <2>1, <3>1, <3>3 DEF Third, runVars
    <3> QED BY <3>2, <3>3
  <2> HIDE DEF low, high
  <2> QED BY <1>4, <1>6, <1>7, <1>8, <2>1, <2>2 DEF ThirdInv, runVars
<1>10. CASE ~Repeated(a, batch)
  <2>1. /\ pc' = [pc EXCEPT ![a] = "delegating"] /\ RecordRuns(a, batch)
    BY <1>1, <1>10 DEF Goto, batch
  <2>2. \A i \in 1 .. n : high(i) < 3
    <3>1. \A i \in 1 .. n : ~(high(i) >= 3)
      BY <1>3, <1>10 DEF Repeated, StreakAt, RepeatCap
    <3> HIDE DEF low, high
    <3> QED BY <1>6, <3>1
  <2>3. /\ lastRun' = [lastRun EXCEPT ![a] = batch[n]] /\ runs' = [runs EXCEPT ![a] = low(n)]
        /\ thirdRun' = [thirdRun EXCEPT ![a] = thirdRun[a] \/ \E i \in 1 .. n : low(i) >= 3]
    BY <1>3, <2>1 DEF RecordRuns, Set
  <2> HIDE DEF low, high
  <2>4. ~ \E i \in 1 .. n : low(i) >= 3
    BY <1>6, <2>2
  <2>5. ASSUME NEW b \in Agents PROVE Third(b)'
    <3>1. Third(b)
      BY DEF ThirdInv
    <3>2. CASE b # a
      BY <1>2, <1>7, <2>1, <2>3, <3>1, <3>2 DEF Third, ThirdInv, Shape, Set
    <3>3. CASE b = a
      <4>1. /\ ~thirdRun'[a] /\ lastRun'[a] = batch[n] /\ runs'[a] = low(n) /\ pc'[a] = "delegating"
            /\ lastKey'[a] = batch[n] /\ streak'[a] = high(n)
        BY <1>2, <1>7, <2>1, <2>3, <2>4 DEF Third, ThirdInv
      <4> QED BY <1>6, <1>8, <3>3, <4>1 DEF Third
    <3> QED BY <3>2, <3>3
  <2>6. thirdRun' \in [Agents -> BOOLEAN]
    BY <2>3, <2>4 DEF ThirdInv
  <2> QED BY <1>4, <1>6, <1>7, <1>8, <2>3, <2>5, <2>6 DEF ThirdInv
<1> QED BY <1>9, <1>10

LEMMA ThirdInit == Init => ThirdInv
<1>1. NoCall \notin Calls
  BY LoopAssumption
<1> QED BY <1>1 DEF Init, ThirdInv, Third

LEMMA ThirdStep == Shape /\ ThirdInv /\ [Next]_vars => ThirdInv'
<1> SUFFICES ASSUME Shape, ThirdInv, [Next]_vars PROVE ThirdInv'
  OBVIOUS
<1>1. ASSUME UNCHANGED <<pc, repeatVars, runVars, current>> PROVE ThirdInv'
  BY <1>1 DEF ThirdInv, Third, repeatVars, runVars
<1>2. ASSUME NEW a \in Agents, Step(a) PROVE ThirdInv'
  <2>1. CASE StartBatch(a) \/ TakeCall(a) \/ Launch(a)
    BY <2>1, ThirdBatch, ThirdTake, ThirdLaunch
  <2>2. CASE Turn(a)
    <3>1. UNCHANGED <<repeatVars, runVars, current>>
      BY <2>2 DEF Turn, Start, TopCancelled, TopLimit, Claim, ModelCancelled, ModelFails, LeakedReply,
                  TruncatedReply, FinalReply, ToolReply, TurnDone, callVars
    <3>2. PICK p \in {"top", "model", "tools", "ended"} : Goto(a, p) /\ pc[a] # "ended"
      BY <2>2 DEF Turn, Start, TopCancelled, TopLimit, Claim, ModelCancelled, ModelFails, LeakedReply,
                  TruncatedReply, FinalReply, ToolReply, TurnDone, End
    <3>3. p \in Points
      BY DEF Points
    <3> QED BY <3>1, <3>2, <3>3, ThirdKept
  <2>3. CASE ToolCancelled(a) \/ BatchDone(a) \/ ToolReturns(a) \/ Approval(a)
    <3>1. UNCHANGED <<repeatVars, runVars, current>>
      BY <2>3 DEF ToolCancelled, BatchDone, ToolReturns, Approval, ApprovalCancelled, ApprovalFails,
                  Deny, Approve, callVars
    <3>2. PICK p \in {"tools", "launch", "ended"} :
            Goto(a, p) /\ pc[a] # "ended" /\ (p = "launch" => pc[a] = "approval")
      BY <2>3 DEF ToolCancelled, BatchDone, ToolReturns, Approval, ApprovalCancelled, ApprovalFails,
                  Deny, Approve, End, Answer
    <3>3. p \in Points
      BY DEF Points
    <3> QED BY <3>1, <3>2, <3>3, ThirdKept
  <2> QED BY <1>2, <2>1, <2>2, <2>3 DEF Step, Tool
<1>3. CASE Cancel
  BY <1>1, <1>3 DEF Cancel, callVars
<1>4. CASE UNCHANGED vars
  BY <1>1, <1>4 DEF vars, callVars
<1> QED BY <1>2, <1>3, <1>4 DEF Next, Rest

\* No loop starts one call three times with no other call between, over any
\* number of turns, approvals and parallel batches: agent.rs, same_call_repeated.
THEOREM RepeatCorrect == Spec => []NoThirdRun
<1>1. Init => ThirdInv
  BY ThirdInit
<1>2. Shape /\ ThirdInv /\ [Next]_vars => (Shape /\ ThirdInv)'
  BY ShapeStep, ThirdStep
<1>3. ThirdInv => NoThirdRun
  BY DEF ThirdInv, Third, NoThirdRun
<1> QED BY <1>1, <1>2, <1>3, ShapeInit, PTL DEF Spec

-----------------------------------------------------------------------------
(* Types *)

\* What the other invariants do not type.  A batch leaves no more calls than the turn has.
RestInv ==
    /\ answered \in [Agents -> Nat]
    /\ truncated \in [Agents -> 0 .. RetryCap] /\ leaked \in [Agents -> 0 .. RetryCap]
    /\ denied \in [Agents -> BOOLEAN] /\ status \in [Agents -> Statuses] /\ cancelled \in BOOLEAN
    /\ \A a \in Agents : pc[a] = "delegating" => Len(pending[a]) <= asked[a]

LEMMA RestStep == Shape /\ CallInv /\ RestInv /\ [Next]_vars => RestInv'
<1> SUFFICES ASSUME Shape, CallInv, RestInv, [Next]_vars PROVE RestInv'
  OBVIOUS
<1> USE DEF RestInv, callVars, turnVars, retryVars, sharedVars, Goto, End, Set, Answer, Statuses, RetryCap
<1>0. /\ pc \in [Agents -> Points] /\ asked \in [Agents -> Nat]
      /\ \A a \in Agents : pending[a] \in Seq(Calls) /\ Len(pending[a]) \in Nat /\ answered[a] \in Nat /\ asked[a] \in Nat
  BY DEF Shape, CallInv
<1>m. ASSUME NEW a \in Agents, NEW p \in {"tools", "launch", "ended"}, pc' = [pc EXCEPT ![a] = p],
             answered' = answered \/ answered' = [answered EXCEPT ![a] = @ + 1], status' \in [Agents -> Statuses],
             denied' \in [Agents -> BOOLEAN], UNCHANGED <<pending, asked, truncated, leaked, cancelled>>
      PROVE  RestInv'
  <2>1. answered' \in [Agents -> Nat]
    BY <1>0, <1>m
  <2> QED BY <1>0, <1>m, <2>1
<1>1. ASSUME NEW a \in Agents, Turn(a) PROVE RestInv'
  <2>1. CASE LeakedReply(a) \/ TruncatedReply(a) \/ TurnDone(a)
    <3>1. truncated[a] \in 0 .. 2 /\ leaked[a] \in 0 .. 2
      OBVIOUS
    <3>2. UNCHANGED <<pending, asked, answered, denied, cancelled>>
      BY <2>1 DEF LeakedReply, TruncatedReply, TurnDone
    <3>3. PICK p \in {"top", "ended"} : pc' = [pc EXCEPT ![a] = p]
      BY <2>1 DEF LeakedReply, TruncatedReply, TurnDone
    <3>4. truncated' \in [Agents -> 0 .. 2] /\ leaked' \in [Agents -> 0 .. 2]
      <4>1. ASSUME NEW n \in 0 .. 2, n < 2 PROVE n + 1 \in 0 .. 2
        BY <4>1
      <4>2. CASE LeakedReply(a)
        <5>1. leaked' = leaked \/ (leaked[a] < 2 /\ leaked' = [leaked EXCEPT ![a] = leaked[a] + 1])
          BY <4>2 DEF LeakedReply
        <5> QED BY <3>1, <4>1, <4>2, <5>1 DEF LeakedReply
      <4>3. CASE TruncatedReply(a)
        <5>1. truncated' = truncated \/ (truncated[a] < 2 /\ truncated' = [truncated EXCEPT ![a] = truncated[a] + 1])
          BY <4>3 DEF TruncatedReply
        <5> QED BY <3>1, <4>1, <4>3, <5>1 DEF TruncatedReply
      <4>4. CASE TurnDone(a)
        <5>1. 0 \in 0 .. 2
          OBVIOUS
        <5> QED BY <4>4, <5>1 DEF TurnDone
      <4> QED BY <2>1, <4>2, <4>3, <4>4
    <3>5. status' \in [Agents -> Statuses]
      BY <2>1 DEF LeakedReply, TruncatedReply, TurnDone
    <3> QED BY <1>0, <3>2, <3>3, <3>4, <3>5
  <2>2. CASE \E calls \in Replies[a] : ToolReply(a, calls)
    BY <1>0, <2>2, ReplyType DEF ToolReply
  <2>3. CASE Start(a) \/ TopCancelled(a) \/ TopLimit(a) \/ Claim(a) \/ ModelCancelled(a) \/ ModelFails(a)
             \/ \E deliverable \in BOOLEAN : FinalReply(a, deliverable)
    BY <1>0, <2>3 DEF Start, TopCancelled, TopLimit, Claim, ModelCancelled, ModelFails, FinalReply
  <2> QED BY <1>1, <2>1, <2>2, <2>3 DEF Turn
<1>2. ASSUME NEW a \in Agents, Tool(a) PROVE RestInv'
  <2>1. CASE StartBatch(a)
    <3>1. PICK n \in 2 .. Len(pending[a]) :
            pending' = Set(pending, a, SubSeq(pending[a], n + 1, Len(pending[a])))
      BY <2>1 DEF StartBatch
    <3>2. Len(SubSeq(pending[a], n + 1, Len(pending[a]))) <= Len(pending[a])
      BY <1>0
    <3>3. Len(pending[a]) <= asked[a]
      BY <1>0, <2>1 DEF StartBatch, CallInv, EveryCallAnswered
    <3>4. /\ UNCHANGED <<asked, answered, truncated, leaked, denied, cancelled>>
          /\ status' \in [Agents -> Statuses] /\ \A b \in Agents \ {a} : pc'[b] = pc[b]
      BY <1>0, <2>1 DEF StartBatch
    <3>5. pending'[a] = SubSeq(pending[a], n + 1, Len(pending[a])) /\ \A b \in Agents \ {a} : pending'[b] = pending[b]
      BY <1>0, <3>1 DEF Shape
    <3>6. Len(pending'[a]) \in Nat /\ Len(pending'[a]) <= asked[a]
      BY <1>0, <3>2, <3>3, <3>5
    <3> QED BY <3>4, <3>5, <3>6
  <2>2. CASE TakeCall(a)
    <3>1. /\ UNCHANGED <<asked, truncated, leaked, denied, cancelled>> /\ status' \in [Agents -> Statuses]
          /\ pc'[a] # "delegating"
          /\ \A b \in Agents \ {a} : pc'[b] = pc[b] /\ pending'[b] = pending[b]
      BY <1>0, <2>2 DEF TakeCall, Shape
    <3>2. answered' \in [Agents -> Nat]
      BY <1>0, <2>2 DEF TakeCall
    <3> QED BY <3>1, <3>2
  <2>3. CASE BatchDone(a)
    <3>1. asked[a] - Len(pending[a]) \in Nat
      BY <1>0, <2>3 DEF BatchDone
    <3> QED BY <1>0, <2>3, <3>1 DEF BatchDone
  <2>4. CASE Launch(a)
    <3>1. answered[a] + 1 + Len(pending[a]) = asked[a]
      BY <2>4 DEF Launch, CallInv, HandlesOne
    <3>2. Len(pending[a]) <= asked[a]
      BY <1>0, <3>1
    <3> QED BY <1>0, <2>4, <3>2 DEF Launch
  <2>5. CASE ToolReturns(a)
    <3>1. \/ pc' = [pc EXCEPT ![a] = "ended"] /\ answered' = answered
          \/ pc' = [pc EXCEPT ![a] = "tools"] /\ answered' = [answered EXCEPT ![a] = @ + 1]
      BY <2>5 DEF ToolReturns
    <3>2. status' \in [Agents -> Statuses] /\ UNCHANGED <<pending, asked, truncated, leaked, denied, cancelled>>
      BY <2>5 DEF ToolReturns
    <3> QED BY <1>m, <3>1, <3>2
  <2>6. CASE ToolCancelled(a)
    BY <1>0, <2>6 DEF ToolCancelled
  <2> QED BY <1>2, <2>1, <2>2, <2>3, <2>4, <2>5, <2>6 DEF Tool
<1>3. ASSUME NEW a \in Agents, Approval(a) PROVE RestInv'
  <2>1. \/ (\E q \in {"ended", "launch"} : pc' = [pc EXCEPT ![a] = q]) /\ answered' = answered
        \/ pc' = [pc EXCEPT ![a] = "tools"] /\ answered' = [answered EXCEPT ![a] = @ + 1]
    BY <1>3 DEF Approval, Approve, ApprovalCancelled, ApprovalFails, Deny
  <2>2. status' \in [Agents -> Statuses] /\ denied' \in [Agents -> BOOLEAN]
    BY <1>3 DEF Approval, Approve, ApprovalCancelled, ApprovalFails, Deny
  <2>3. UNCHANGED <<pending, asked, truncated, leaked, cancelled>>
    BY <1>3 DEF Approval, Approve, ApprovalCancelled, ApprovalFails, Deny
  <2> QED BY <1>m, <2>1, <2>2, <2>3
<1>4. CASE Cancel
  BY <1>4 DEF Cancel
<1>5. CASE UNCHANGED vars
  BY <1>5 DEF vars
<1> QED BY <1>1, <1>2, <1>3, <1>4, <1>5 DEF Next, Step, Rest

\* Every variable of the loops keeps its type: the retries stay below their caps, and no batch
\* counts more results than it has calls (agent.rs: run_agent_with_delivery).
THEOREM TypeCorrect == Spec => []TypeOK
<1> DEFINE Inv == Shape /\ BudgetInv /\ CallInv /\ ThirdInv /\ RestInv
<1>1. Init => Inv
  <2>1. Init => RestInv
    <3>1. 0 \in Nat /\ 0 \in 0 .. RetryCap /\ "none" \in Statuses
      BY DEF RetryCap, Statuses
    <3> SUFFICES ASSUME Init PROVE RestInv
      OBVIOUS
    <3>2. answered \in [Agents -> Nat] /\ cancelled \in BOOLEAN
      BY <3>1 DEF Init
    <3>3. truncated \in [Agents -> 0 .. RetryCap] /\ leaked \in [Agents -> 0 .. RetryCap]
      BY <3>1 DEF Init
    <3>4. denied \in [Agents -> BOOLEAN] /\ status \in [Agents -> Statuses]
      BY <3>1 DEF Init
    <3>5. \A a \in Agents : pc[a] # "delegating"
      BY DEF Init
    <3> QED BY <3>2, <3>3, <3>4, <3>5 DEF RestInv
  <2> QED BY <2>1, ShapeInit, BudgetInit, CallInit, ThirdInit
<1>2. Inv /\ [Next]_vars => Inv'
  BY ShapeStep, BudgetStep, CallStep, ThirdStep, RestStep
<1>3. Inv => TypeOK
  <2>1. BudgetInv => used \in Nat
    BY FS_CardinalityType DEF BudgetInv
  <2> QED BY <2>1 DEF Shape, BudgetInv, CallInv, ThirdInv, RestInv, TypeOK
<1> QED BY <1>1, <1>2, <1>3, PTL DEF Spec

-----------------------------------------------------------------------------
(* A loop comes closer to its end                                          *)

Counted ==
    /\ iterations = [a \in Agents |-> iterations[a]]
    /\ \A a \in Agents : iterations[a] \in Nat /\ iterations[a] <= Min2(MaxIterations[a], HardCap)

\* What is used up counts, whatever comes back behind it.
LEMMA FewerAt ==
    ASSUME NEW x, NEW y,
           \/ x[1] < y[1]
           \/ x[1] = y[1] /\ x[2] < y[2]
           \/ x[1] = y[1] /\ x[2] = y[2] /\ x[3] < y[3]
           \/ x[1] = y[1] /\ x[2] = y[2] /\ x[3] = y[3] /\ x[4] < y[4]
           \/ x[1] = y[1] /\ x[2] = y[2] /\ x[3] = y[3] /\ x[4] = y[4] /\ x[5] < y[5]
    PROVE  Fewer(x, y)
<1>1. ASSUME NEW i \in 1 .. 5, x[i] < y[i],
             /\ i > 1 => x[1] = y[1]
             /\ i > 2 => x[2] = y[2]
             /\ i > 3 => x[3] = y[3]
             /\ i > 4 => x[4] = y[4]
      PROVE  Fewer(x, y)
  <2>1. ASSUME NEW j \in 1 .. 5, j < i PROVE x[j] = y[j]
    <3>1. j \in {1, 2, 3, 4}
      BY <2>1
    <3> QED BY <1>1, <2>1, <3>1
  <2> QED BY <1>1, <2>1 DEF Fewer
<1> QED BY <1>1

\* A step of a loop that ends it, or takes up something less of the same turn.
LEMMA SameTurn ==
    ASSUME NEW a \in Agents, pc[a] \in Points \ {"idle", "ended"}, iterations'[a] = iterations[a],
           \/ pc'[a] = "ended"
           \/ pc'[a] \notin {"idle", "ended"} /\ Phase(a)' < Phase(a)
           \/ /\ pc'[a] \notin {"idle", "ended"} /\ Phase(a)' = Phase(a)
              /\ Len(pending'[a]) < Len(pending[a]) \/ (pending'[a] = pending[a] /\ Point(a)' < Point(a))
    PROVE  Fewer(ToDo(a)', ToDo(a))
<1>1. /\ ToDo(a)[1] = Stage(a) /\ ToDo(a)[2] = Min2(MaxIterations[a], HardCap) - iterations[a]
      /\ ToDo(a)[3] = Phase(a) /\ ToDo(a)[4] = Len(pending[a]) /\ ToDo(a)[5] = Point(a)
  BY DEF ToDo
<1>2. /\ ToDo(a)'[1] = Stage(a)' /\ ToDo(a)'[2] = Min2(MaxIterations[a], HardCap) - iterations[a]
      /\ ToDo(a)'[3] = Phase(a)' /\ ToDo(a)'[4] = Len(pending'[a]) /\ ToDo(a)'[5] = Point(a)'
  BY DEF ToDo
<1>3. CASE pc'[a] = "ended"
  <2>1. Stage(a) = 1 /\ Stage(a)' = 0
    BY <1>3 DEF Stage
  <2>2. ToDo(a)'[1] < ToDo(a)[1]
    BY <1>1, <1>2, <2>1
  <2> QED BY <2>2, FewerAt
<1>4. CASE pc'[a] # "ended"
  <2>1. Stage(a) = 1 /\ Stage(a)' = 1
    BY <1>4 DEF Stage
  <2>2. ToDo(a)'[1] = ToDo(a)[1] /\ ToDo(a)'[2] = ToDo(a)[2]
    BY <1>1, <1>2, <2>1
  <2>3. \/ ToDo(a)'[3] < ToDo(a)[3]
        \/ ToDo(a)'[3] = ToDo(a)[3] /\ ToDo(a)'[4] < ToDo(a)[4]
        \/ ToDo(a)'[3] = ToDo(a)[3] /\ ToDo(a)'[4] = ToDo(a)[4] /\ ToDo(a)'[5] < ToDo(a)[5]
    BY <1>1, <1>2, <1>4
  <2> QED BY <2>2, <2>3, FewerAt
<1> QED BY <1>3, <1>4

LEMMA TurnAdvances ==
    ASSUME Shape, Counted, NEW a \in Agents, Turn(a)
    PROVE  Fewer(ToDo(a)', ToDo(a))
<1> USE DEF Goto, End, Set
<1>1. pc \in [Agents -> Points] /\ pc[a] \in Points
  BY DEF Shape
<1>2. CASE Start(a)
  <2>1. pc[a] = "idle" /\ pc'[a] = "top"
    BY <1>1, <1>2 DEF Start
  <2>2. ToDo(a)'[1] < ToDo(a)[1]
    BY <2>1 DEF ToDo, Stage
  <2> QED BY <2>2, FewerAt
<1>3. CASE Claim(a)
  <2>1. pc[a] = "top" /\ pc'[a] = "model" /\ iterations' = [iterations EXCEPT ![a] = iterations[a] + 1]
    BY <1>1, <1>3 DEF Claim
  <2>2. iterations'[a] = iterations[a] + 1 /\ iterations[a] \in Nat
    BY <2>1 DEF Counted
  <2>3. ToDo(a)'[1] = ToDo(a)[1]
    BY <2>1 DEF ToDo, Stage
  <2>4. ToDo(a)'[2] < ToDo(a)[2]
    <3>1. /\ ToDo(a)[2] = Min2(MaxIterations[a], HardCap) - iterations[a]
          /\ ToDo(a)'[2] = Min2(MaxIterations[a], HardCap) - iterations'[a]
      BY DEF ToDo
    <3>2. Min2(MaxIterations[a], HardCap) \in Nat
      BY LoopAssumption DEF Min2
    <3> QED BY <2>2, <3>1, <3>2
  <2> QED BY <2>3, <2>4, FewerAt
<1>4. CASE \/ TopCancelled(a) \/ TopLimit(a) \/ ModelCancelled(a) \/ ModelFails(a)
           \/ \E deliverable \in BOOLEAN : FinalReply(a, deliverable)
  <2>1. pc[a] \in {"top", "model"} /\ pc'[a] = "ended" /\ iterations' = iterations
    BY <1>1, <1>4 DEF TopCancelled, TopLimit, ModelCancelled, ModelFails, FinalReply
  <2> QED BY <1>1, <2>1, SameTurn
<1>5. CASE LeakedReply(a) \/ TruncatedReply(a) \/ TurnDone(a)
  <2>1. /\ pc[a] \in {"model", "tools"} /\ pc'[a] \in {"top", "ended"} /\ iterations' = iterations
    BY <1>1, <1>5 DEF LeakedReply, TruncatedReply, TurnDone
  <2>2. pc'[a] = "top" => Phase(a)' < Phase(a)
    BY <2>1 DEF Phase
  <2> QED BY <1>1, <2>1, <2>2, SameTurn
<1>6. CASE \E calls \in Replies[a] : ToolReply(a, calls)
  <2>1. pc[a] = "model" /\ pc'[a] = "tools" /\ iterations' = iterations
    BY <1>1, <1>6 DEF ToolReply
  <2>2. Phase(a)' < Phase(a)
    BY <2>1 DEF Phase
  <2> QED BY <1>1, <2>1, <2>2, SameTurn
<1> QED BY <1>2, <1>3, <1>4, <1>5, <1>6 DEF Turn

LEMMA ToolAdvances ==
    ASSUME Shape, NEW a \in Agents, Tool(a) \/ Approval(a)
    PROVE  Fewer(ToDo(a)', ToDo(a))
<1> USE DEF Goto, End, Set, Answer, turnVars
<1>1. pc \in [Agents -> Points] /\ pc[a] \in Points /\ pending \in [Agents -> Seq(Calls)] /\ pending[a] \in Seq(Calls)
  BY DEF Shape
<1>2. ASSUME NEW p, NEW q, pc[a] = p, pc'[a] = q, iterations' = iterations, pending' = pending,
             p \in {"tools", "approval", "launch", "running", "delegating"},
             q \in {"tools", "launch", "running", "delegating", "ended"},
             q # "ended" => (p = "approval" \/ (p = "launch" /\ q # "launch") \/ (p \notin {"tools", "approval"} /\ q = "tools"))
      PROVE  Fewer(ToDo(a)', ToDo(a))
  <2>1. CASE q = "ended"
    BY <1>1, <1>2, <2>1, SameTurn
  <2>2. CASE q # "ended"
    <3>1. Phase(a)' = Phase(a) /\ Point(a)' < Point(a)
      BY <1>2, <2>2 DEF Phase, Point
    <3> QED BY <1>1, <1>2, <2>2, <3>1, SameTurn
  <2> QED BY <2>1, <2>2
<1>3. CASE ToolCancelled(a)
  BY <1>1, <1>2, <1>3 DEF ToolCancelled
<1>4. CASE StartBatch(a)
  <2>1. /\ pc[a] = "tools" /\ pc'[a] \in {"delegating", "ended"} /\ iterations' = iterations
    BY <1>1, <1>4 DEF StartBatch
  <2>2. PICK n \in 2 .. Len(pending[a]) : pending' = [pending EXCEPT ![a] = SubSeq(pending[a], n + 1, Len(pending[a]))]
    BY <1>4 DEF StartBatch
  <2>3. Len(pending'[a]) < Len(pending[a])
    BY <1>1, <2>2
  <2>4. pc'[a] = "delegating" => Phase(a)' = Phase(a)
    BY <2>1 DEF Phase
  <2> QED BY <1>1, <2>1, <2>3, <2>4, SameTurn
<1>5. CASE TakeCall(a)
  <2>1. /\ pc[a] = "tools" /\ pc'[a] \in {"tools", "approval", "launch", "ended"} /\ iterations' = iterations
        /\ pending[a] # <<>> /\ pending' = [pending EXCEPT ![a] = Tail(pending[a])]
    BY <1>1, <1>5 DEF TakeCall
  <2>2. Len(pending'[a]) < Len(pending[a])
    BY <1>1, <2>1
  <2>3. pc'[a] # "ended" => Phase(a)' = Phase(a)
    BY <2>1 DEF Phase
  <2> QED BY <1>1, <2>1, <2>2, <2>3, SameTurn
<1>6. CASE BatchDone(a)
  BY <1>1, <1>2, <1>6 DEF BatchDone
<1>7. CASE Launch(a)
  BY <1>1, <1>2, <1>7 DEF Launch
<1>8. CASE ToolReturns(a)
  <2>1. /\ pc[a] \in {"running", "delegating"} /\ pc'[a] \in {"tools", "ended"}
        /\ iterations' = iterations /\ pending' = pending
    BY <1>1, <1>8 DEF ToolReturns
  <2> QED BY <1>2, <2>1
<1>9. CASE ApprovalCancelled(a) \/ ApprovalFails(a) \/ Deny(a) \/ \E always \in BOOLEAN : Approve(a, always)
  <2>1. /\ pc[a] = "approval" /\ pc'[a] \in {"tools", "launch", "ended"}
        /\ iterations' = iterations /\ pending' = pending
    BY <1>1, <1>9 DEF ApprovalCancelled, ApprovalFails, Deny, Approve
  <2> QED BY <1>2, <2>1
<1> QED BY <1>3, <1>4, <1>5, <1>6, <1>7, <1>8, <1>9 DEF Tool, Approval

\* A step of one loop leaves the others where they are, and none takes more turns than it has.
LEMMA StepOthers ==
    ASSUME Shape, Counted, NEW a \in Agents, Step(a)
    PROVE  /\ \A b \in Agents \ {a} : pc'[b] = pc[b] /\ iterations'[b] = iterations[b] /\ pending'[b] = pending[b]
           /\ Counted'
<1> USE DEF Goto, End, Set, Answer, turnVars
<1>1. pc = [b \in Agents |-> pc[b]] /\ pending = [b \in Agents |-> pending[b]]
  BY DEF Shape
<1>2. CASE Claim(a)
  <2>1. /\ iterations' = [iterations EXCEPT ![a] = iterations[a] + 1] /\ pending' = pending
        /\ iterations[a] < Min2(MaxIterations[a], HardCap) /\ pc' = [pc EXCEPT ![a] = "model"]
    BY <1>2 DEF Claim
  <2>2. Min2(MaxIterations[a], HardCap) \in Nat
    BY LoopAssumption DEF Min2
  <2>3. Counted'
    BY <2>1, <2>2 DEF Counted
  <2> QED BY <1>1, <2>1, <2>3 DEF Counted
<1>3. CASE ~Claim(a)
  <2>1. iterations' = iterations
    BY <1>3, Zenon DEF Step, Turn, Tool, Approval, Start, TopCancelled, TopLimit, ModelCancelled, ModelFails, LeakedReply,
       TruncatedReply, FinalReply, ToolReply, TurnDone, ToolCancelled, StartBatch, BatchDone, TakeCall, Launch,
       ToolReturns, ApprovalCancelled, ApprovalFails, Deny, Approve
  <2>2. \E p : pc' = [pc EXCEPT ![a] = p]
    <3>1. CASE Turn(a)
      BY <1>3, <3>1 DEF Turn, Start, TopCancelled, TopLimit, ModelCancelled, ModelFails, LeakedReply,
         TruncatedReply, FinalReply, ToolReply, TurnDone
    <3>2. CASE Tool(a)
      BY <3>2 DEF Tool, ToolCancelled, StartBatch, BatchDone, TakeCall, Launch, ToolReturns
    <3>3. CASE Approval(a)
      BY <3>3 DEF Approval, ApprovalCancelled, ApprovalFails, Deny, Approve
    <3> QED BY <3>1, <3>2, <3>3 DEF Step
  <2>3. pending' = pending \/ \E s : pending' = [pending EXCEPT ![a] = s]
    BY Zenon DEF Step, Turn, Tool, Approval, Start, TopCancelled, TopLimit, Claim, ModelCancelled, ModelFails, LeakedReply,
       TruncatedReply, FinalReply, ToolReply, TurnDone, ToolCancelled, StartBatch, BatchDone, TakeCall, Launch,
       ToolReturns, ApprovalCancelled, ApprovalFails, Deny, Approve
  <2> QED BY <1>1, <2>1, <2>2, <2>3 DEF Counted
<1> QED BY <1>2, <1>3

\* Each step but a cancel uses up something of one loop that neither this loop nor another one gives
\* back, and what is left is a tuple of natural numbers: no behaviour of the loops goes on for ever
\* (agent.rs: the retries, the repeated calls and the limits of run_agent_with_delivery).
THEOREM AdvanceCorrect == Spec => LoopsAdvance /\ [](\A a \in Agents : ToDo(a) \in [1 .. 5 -> Nat])
<1>1. Init => Shape /\ Counted
  <2>1. \A a \in Agents : Min2(MaxIterations[a], HardCap) \in Nat
    BY LoopAssumption DEF Min2
  <2> QED BY <2>1, ShapeInit DEF Init, Counted
<1>2. Shape /\ Counted /\ [Next]_vars => Shape' /\ Counted'
  <2> SUFFICES ASSUME Shape, Counted, [Next]_vars PROVE Counted'
    BY ShapeStep
  <2>1. CASE Cancel \/ Rest \/ UNCHANGED vars
    BY <2>1 DEF Cancel, Rest, vars, Counted
  <2> QED BY <2>1, StepOthers DEF Next
<1>3. Shape /\ Counted => \A a \in Agents : ToDo(a) \in [1 .. 5 -> Nat]
  <2> SUFFICES ASSUME Shape, Counted, NEW a \in Agents PROVE ToDo(a) \in [1 .. 5 -> Nat]
    OBVIOUS
  <2>1. ASSUME NEW p \in Nat, NEW q \in Nat, NEW r \in Nat, NEW s \in Nat, NEW t \in Nat
        PROVE  <<p, q, r, s, t>> \in [1 .. 5 -> Nat]
    OBVIOUS
  <2>2. Stage(a) \in Nat /\ Phase(a) \in Nat /\ Point(a) \in Nat
    BY DEF Stage, Phase, Point
  <2>3. Min2(MaxIterations[a], HardCap) - iterations[a] \in Nat
    <3>1. Min2(MaxIterations[a], HardCap) \in Nat
      BY LoopAssumption DEF Min2
    <3> QED BY <3>1 DEF Counted
  <2>4. Len(pending[a]) \in Nat
    BY DEF Shape
  <2> QED BY <2>1, <2>2, <2>3, <2>4 DEF ToDo
<1>4. Shape /\ Counted /\ [Next]_vars
      => [\/ cancelled' # cancelled /\ \A a \in Agents : ToDo(a)' = ToDo(a)
          \/ \E a \in Agents : /\ Fewer(ToDo(a)', ToDo(a))
                               /\ \A b \in Agents \ {a} : ToDo(b)' = ToDo(b)]_vars
  <2>1. ASSUME Cancel PROVE cancelled' # cancelled /\ \A a \in Agents : ToDo(a)' = ToDo(a)
    <3>1. cancelled' # cancelled
      BY <2>1, Zenon DEF Cancel
    <3>2. UNCHANGED <<pc, iterations, pending>>
      BY <2>1 DEF Cancel, turnVars
    <3> QED BY <3>1, <3>2 DEF ToDo, Stage, Phase, Point
  <2>2. ASSUME Shape, Counted, NEW a \in Agents, Step(a)
        PROVE  Fewer(ToDo(a)', ToDo(a)) /\ \A b \in Agents \ {a} : ToDo(b)' = ToDo(b)
    <3>1. Fewer(ToDo(a)', ToDo(a))
      BY <2>2, TurnAdvances, ToolAdvances DEF Step
    <3>2. ASSUME NEW b \in Agents \ {a} PROVE ToDo(b)' = ToDo(b)
      <4>1. pc'[b] = pc[b] /\ iterations'[b] = iterations[b] /\ pending'[b] = pending[b]
        BY <2>2, StepOthers
      <4> QED BY <4>1 DEF ToDo, Stage, Phase, Point
    <3> QED BY <3>1, <3>2
  <2> QED BY <2>1, <2>2 DEF Next, Rest
<1> QED BY <1>1, <1>2, <1>3, <1>4, PTL DEF Spec, LoopsAdvance

=============================================================================
