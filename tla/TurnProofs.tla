------------------------------ MODULE TurnProofs ------------------------------
(***************************************************************************)
(* The turn: the pipeline that does it and the terminal that shows it.     *)
(*                                                                         *)
(* Pipeline: for any bindings, number of reviewers, nodes and              *)
(* continuations, what is known of the files at each point (CheckInv),     *)
(* what the goal row says (GoalInv), and what every step uses up.          *)
(*                                                                         *)
(* Terminal: for any scripts of commands and any number of turns, what the *)
(* screen, the turn, its run and its followers know of each other          *)
(* (TermInv).  Each of the four properties of the terminal is read off one *)
(* part of it.                                                             *)
(***************************************************************************)
EXTENDS Pipeline, Terminal, SequenceTheorems, FiniteSetTheorems, TLAPS

(***************************************************************************)
(* Pipeline                                                                *)
(***************************************************************************)

\* What is left to try.
BoundInv ==
    /\ pc \in {"node", "boundary"} => node \in 1 .. Nodes
    /\ pc = "repair" => round < 2
    /\ pc = "mend" => qround < 2

\* The quality gate, the command and the last reviewer passed the present files.
Gated == Checked /\ changed => gated
Built == changed \/ cfg.given => built
Approved == Reviewed => Built /\ Reviewers \in approved

Backed == tracked /\ ~open /\ (cfg.dev => changed)

\* What is known of the files where the task may still succeed.
CheckInv ==
    /\ pc \in {"verified", "review", "next", "settle"} /\ status = "ok" => Gated
    /\ pc = "review" => status = "ok"
    /\ pc = "next" /\ status = "ok" => cancelled \/ reviewer \in approved
    /\ pc \in {"repair", "mend"} => back # "final"
    /\ pc \in {"command", "quality", "verified"} /\ back = "final" /\ status = "ok" =>
          cancelled \/ Reviewers \in approved
    /\ pc = "quality" \/ (pc = "verified" /\ status = "ok") => (back = "final" => Built)
    /\ pc = "settle" /\ status = "ok" /\ ~cancelled => Approved
    /\ pc = "deliver" /\ status = "ok" /\ cfg.tools => Gated /\ Backed /\ (cancelled \/ Approved)
    /\ delivered => pc = "ended" /\ (cfg.tools => Gated /\ Backed /\ Approved)

\* What the goal row says.
GoalInv ==
    /\ pc \in {"start", "plan", "answer"} => goal = "none"
    /\ pc = "answer" => ~cfg.tools
    /\ pc \in {"node", "boundary"} => cfg.graph
    /\ pc \in {"deliver", "ended"} /\ cfg.staged /\ ~stale => goal # "active"
    /\ goal = "complete" => /\ \/ pc = "deliver" /\ status = "ok"
                               \/ pc = "ended" /\ status \in {"ok", "incomplete", "cancelled"}
                            /\ todos # "open" /\ Gated

IInv == TypeOK /\ BoundInv /\ CheckInv /\ GoalInv

-----------------------------------------------------------------------------
(* Parts of steps *)

\* Success needs evidence.
LEMMA EvidenceHolds ==
    ASSUME NEW s
    PROVE  /\ Evidence(s) \in {"incomplete", s}
           /\ Evidence(s) = "ok" => s = "ok" /\ tracked' /\ ~open' /\ (cfg.dev => changed')
BY DEF Evidence

\* Files that are only read again keep what was established about them.
LEMMA RereadKeeps == Reread => (changed' => changed) /\ UNCHANGED <<built, gated, approved>>
BY DEF Reread

\* What the goal row may say.
LEMMA GoalSays ==
    ASSUME NEW s, NEW verified \in BOOLEAN
    PROVE  /\ GoalStatus(s, verified) \in {"active", "complete", "blocked", "failed"}
           /\ GoalStatus(s, verified) = "active" => ~verified
           /\ GoalStatus(s, verified) = "complete" => verified /\ s = "ok" /\ todos # "open"
BY DEF GoalStatus

\* A write of the row is lost and the row keeps what it said, or it is done.
LEMMA RowSays ==
    ASSUME NEW s, SaveGoal(s)
    PROVE  /\ stale' \in BOOLEAN
           /\ goal' \in {goal, s}
           /\ stale' \/ goal' = s
BY Zenon DEF SaveGoal

LEMMA WrittenSays ==
    ASSUME NEW s, NEW verified \in BOOLEAN, SaveGoal(GoalStatus(s, verified))
    PROVE  /\ stale' \in BOOLEAN
           /\ goal' \in {goal, "active", "complete", "blocked", "failed"}
           /\ verified => stale' \/ goal' # "active"
           /\ goal' = "complete" /\ goal # "complete" => verified /\ s = "ok" /\ todos # "open"
<1>1. /\ stale' \in BOOLEAN
      /\ goal' \in {goal, GoalStatus(s, verified)}
      /\ stale' \/ goal' = GoalStatus(s, verified)
  BY RowSays
<1> QED BY <1>1, GoalSays

\* How a binding may be.
LEMMA Bound ==
    ASSUME cfg \in Configs
    PROVE  /\ cfg \in ConfigType
           /\ cfg.graph => cfg.tools /\ ~cfg.staged
           /\ cfg.staged => cfg.tools
BY PipelineAssumption

-----------------------------------------------------------------------------
(* Types *)

Flags ==
    /\ cancelled \in BOOLEAN /\ changed \in BOOLEAN /\ tracked \in BOOLEAN /\ open \in BOOLEAN
    /\ built \in BOOLEAN /\ gated \in BOOLEAN /\ left \in BOOLEAN /\ own \in BOOLEAN
    /\ architect \in BOOLEAN /\ requeried \in BOOLEAN /\ delivered \in BOOLEAN

Typed ==
    /\ cfg \in Configs /\ pc \in Points /\ status \in Statuses
    /\ approved \subseteq 1 .. Reviewers
    /\ todos \in Todos /\ same \in 0 .. 3
    /\ continuations \in 0 .. MaxContinuations + 1
    /\ node \in 0 .. Nodes + 1 /\ attempt \in 0 .. 1
    /\ round \in 0 .. 2 /\ qround \in 0 .. 2 /\ back \in {"first", "resume", "final"}
    /\ reviewer \in 1 .. Reviewers
    /\ goal \in {"none", "active", "complete", "blocked", "failed"} /\ stale \in BOOLEAN

LEMMA TypeParts == TypeOK <=> Typed /\ Flags
BY DEF TypeOK, Typed, Flags

LEMMA InitFlags == Init => Flags
BY DEF Init, Flags

LEMMA AgentFlags == ASSUME NEW s, Flags, Agent(s)
                    PROVE  /\ changed' \in BOOLEAN /\ tracked' \in BOOLEAN /\ open' \in BOOLEAN
                           /\ built' \in BOOLEAN /\ gated' \in BOOLEAN /\ left' \in BOOLEAN /\ own' \in BOOLEAN
<1>1. CASE Draw /\ open' \in BOOLEAN /\ (Write \/ Reread)
  BY <1>1, Zenon DEF Flags, Draw, Write, Reread
<1>2. CASE Reread /\ UNCHANGED <<budgetVars, open>>
  BY <1>2, Zenon DEF Flags, Reread, budgetVars
<1> QED BY <1>1, <1>2 DEF Agent, budgetVars

LEMMA NextFlags == Flags /\ [Next]_vars => Flags'
<1> SUFFICES ASSUME Flags, [Next]_vars PROVE Flags'
  OBVIOUS
<1> USE DEF Flags, fileVars, budgetVars, loopVars, tryVars, checkVars, reviewVars
<1>1. CASE UNCHANGED vars \/ Ended
  <2>1. UNCHANGED <<cancelled, fileVars, budgetVars, architect, requeried, delivered>>
    BY <1>1 DEF vars, Ended
  <2> QED BY <2>1, Zenon
<1>2. CASE Cancel
  BY <1>2, Zenon DEF Cancel
<1>3. CASE Start
  BY <1>3, Zenon DEF Start
<1>4. CASE Plan
  BY <1>4, Zenon DEF Plan
<1>5. CASE Answer
  BY <1>5, Zenon DEF Answer
<1>6. CASE Cycle
  BY <1>6, AgentFlags, Zenon DEF Cycle
<1>7. CASE Continue \/ Conclude
  <2>1. UNCHANGED <<cancelled, fileVars, budgetVars, architect, requeried, delivered>>
    BY <1>7 DEF Continue, Conclude
  <2> QED BY <2>1, Zenon
<1>8. CASE Consult
  BY <1>8, Zenon DEF Consult
<1>9. CASE Node
  <2>1. CASE UNCHANGED <<fileVars, left>> /\ own' \in BOOLEAN
    BY <1>9, <2>1, Zenon DEF Node
  <2>2. ASSUME NEW s \in RunStatuses, Agent(s) PROVE Flags'
    BY <1>9, <2>2, AgentFlags, Zenon DEF Node
  <2> QED BY <1>9, <2>1, <2>2, Zenon DEF Node
<1>10. CASE Boundary
  BY <1>10, Zenon DEF Boundary
<1>11. CASE Finish
  BY <1>11, Zenon DEF Finish, Reread
<1>12. CASE Command
  BY <1>12, Zenon DEF Command
<1>13. CASE Quality
  BY <1>13, Zenon DEF Quality
<1>14. CASE Repair \/ QualityRepair
  BY <1>14, AgentFlags, Zenon DEF Repair, QualityRepair, Mend
<1>15. CASE Verified
  <2>1. /\ UNCHANGED <<cancelled, open, budgetVars, loopVars, delivered>>
        /\ Reread /\ requeried' \in {requeried, FALSE}
    BY <1>15, Zenon DEF Verified, Assign
  <2> QED BY <2>1, Zenon DEF Reread
<1>16. CASE ReviewFails
  BY <1>16, Zenon DEF ReviewFails
<1>17. CASE ReviewBreaks
  BY <1>17, Zenon DEF ReviewBreaks, Draw, Write, Reread
<1>18. CASE Review
  BY <1>18, Zenon DEF Review, Draw
<1>19. CASE Resume
  BY <1>19, AgentFlags, Zenon DEF Resume
<1>20. CASE NextReviewer
  <2>1. /\ UNCHANGED <<cancelled, fileVars, budgetVars, loopVars, delivered>>
        /\ requeried' \in {requeried, FALSE}
    BY <1>20, Zenon DEF NextReviewer, Assign
  <2> QED BY <2>1, Zenon
<1>21. CASE Settle
  BY <1>21, Zenon DEF Settle, Reread
<1>22. CASE Deliver
  BY <1>22, Zenon DEF Deliver
<1> QED BY <1>1, <1>2, <1>3, <1>4, <1>5, <1>6, <1>7, <1>8, <1>9, <1>10, <1>11, <1>12, <1>13, <1>14,
           <1>15, <1>16, <1>17, <1>18, <1>19, <1>20, <1>21, <1>22
        DEF Next, Step

LEMMA InitTyped == Init => Typed
<1> SUFFICES ASSUME Init PROVE Typed
  OBVIOUS
<1>1. stale \in BOOLEAN
  BY Zenon DEF Init
<1>2. QED
  BY <1>1, PipelineAssumption DEF Init, Typed, Points, Statuses, RunStatuses, Todos

LEMMA AgentTyped == ASSUME NEW s, Typed, Agent(s)
                    PROVE  /\ s \in RunStatuses /\ s \in Statuses /\ Evidence(s) \in Statuses
                           /\ todos' \in Todos /\ approved' \subseteq 1 .. Reviewers
<1>1. s \in RunStatuses /\ todos' \in Todos
  BY DEF Agent, Typed
<1>2. approved' \subseteq 1 .. Reviewers
  BY DEF Agent, Write, Reread, Typed
<1> QED BY <1>1, <1>2, EvidenceHolds DEF Statuses, RunStatuses

LEMMA NextTyped == Typed /\ BoundInv /\ [Next]_vars => Typed'
<1> SUFFICES ASSUME Typed, BoundInv, [Next]_vars PROVE Typed'
  OBVIOUS
<1>0. /\ Reviewers \in Nat \ {0} /\ Nodes \in Nat \ {0} /\ MaxContinuations \in Nat
      /\ cfg \in ConfigType /\ cfg.graph \in BOOLEAN
  BY PipelineAssumption, Bound DEF Typed, ConfigType
<1> USE <1>0 DEF Typed, Points, Statuses, RunStatuses, Todos, fileVars, budgetVars, loopVars, tryVars, checkVars, reviewVars,
                 goalVars
<1>1. CASE UNCHANGED vars \/ Ended
  <2>1. UNCHANGED <<cfg, pc, status, approved, todos, same, continuations, node, attempt, round, qround,
                    back, reviewer, goalVars>>
    BY <1>1, Zenon DEF vars, Ended
  <2> QED BY <2>1
<1>2. CASE Cancel
  BY <1>2 DEF Cancel
<1>begin. ASSUME NEW planned \in BOOLEAN, Begin(planned)
          PROVE  /\ node' \in 0 .. Nodes + 1 /\ pc' \in Points
                 /\ goal' \in {"none", "active", "complete", "blocked", "failed"} /\ stale' \in BOOLEAN
  BY <1>begin, RowSays DEF Begin, SaveStaged
<1>3. CASE Start
  BY <1>3, <1>begin DEF Start, Out
<1>4. CASE Plan
  BY <1>4, <1>begin DEF Plan, Out
<1>5. CASE Answer
  BY <1>5 DEF Answer, Out
<1>6. CASE Cycle
  BY <1>6, AgentTyped, RowSays DEF Cycle, Out, FailGoal, SaveStaged, Again
<1>7. CASE Continue
  BY <1>7, RowSays DEF Continue, ShouldContinue
<1>concluded. ASSUME Concluded
              PROVE  /\ status' \in Statuses /\ pc' \in Points
                     /\ goal' \in {"none", "active", "complete", "blocked", "failed"} /\ stale' \in BOOLEAN
  BY <1>concluded, WrittenSays DEF Concluded
<1>8. CASE Conclude
  BY <1>8, <1>concluded DEF Conclude
<1>9. CASE Consult
  BY <1>9, <1>concluded DEF Consult
<1>10. CASE Node
  <2>1. UNCHANGED <<cfg, same, continuations, node, checkVars, reviewVars, goalVars>>
    BY <1>10 DEF Node
  <2>2. CASE UNCHANGED <<fileVars, todos>> /\ EndGraph(status') /\ status' \in {"cancelled", "incomplete"}
                /\ UNCHANGED attempt
    BY <2>1, <2>2 DEF EndGraph
  <2>3. ASSUME NEW s \in RunStatuses, Agent(s), status' = s, pc' \in {"node", "boundary", "finish", "deliver"},
               attempt' \in {attempt, 1}
        PROVE  Typed'
    BY <2>1, <2>3, AgentTyped
  <2> QED BY <1>10, <2>2, <2>3 DEF Node, EndGraph, Out
<1>11. CASE Boundary
  BY <1>11 DEF Boundary, EndGraph, BoundInv
<1>12. CASE Finish
  BY <1>12, EvidenceHolds DEF Finish, Reread, RunVerify
<1>err. VerifyErr => /\ status' \in Statuses /\ pc' \in Points
                     /\ goal' \in {"none", "active", "complete", "blocked", "failed"} /\ stale' \in BOOLEAN
  BY RowSays DEF VerifyErr, FailGoal, SaveStaged, Out
<1>13. CASE Command
  BY <1>13, <1>err DEF Command, RepairAt, Return
<1>14. CASE Quality
  BY <1>14 DEF Quality, RepairAt, Return
<1>mend. ASSUME NEW point, NEW next \in Points, Mend(point, next)
         PROVE  /\ status' \in Statuses /\ pc' \in Points
                /\ goal' \in {"none", "active", "complete", "blocked", "failed"} /\ stale' \in BOOLEAN
                /\ todos' \in Todos /\ approved' \subseteq 1 .. Reviewers
                /\ UNCHANGED <<cfg, same, continuations, tryVars, back, reviewer>>
  BY <1>mend, <1>err, AgentTyped DEF Mend
<1>15. CASE Repair
  BY <1>15, <1>mend DEF Repair, BoundInv, Mend
<1>16. CASE QualityRepair
  BY <1>16, <1>mend DEF QualityRepair, BoundInv, Mend
<1>17. CASE Verified
  BY <1>17, EvidenceHolds DEF Verified, Assign, Reread
<1>18. CASE ReviewFails
  BY <1>18 DEF ReviewFails, Leave
<1>19. CASE ReviewBreaks
  BY <1>19 DEF ReviewBreaks, Leave, Write, Reread
<1>20. CASE Review
  <2>1. /\ UNCHANGED <<cfg, todos, same, continuations, node, attempt, round, qround, back, reviewer, goal, stale>>
        /\ pc' \in {"review", "resume", "next"} /\ status' \in {status, "fail"}
        /\ approved' \in {approved, approved \cup {reviewer}}
    BY <1>20 DEF Review, Leave
  <2> QED BY <2>1
<1>21. CASE Resume
  BY <1>21, AgentTyped DEF Resume, RunVerify, Leave
<1>22. CASE NextReviewer
  BY <1>22 DEF NextReviewer, Assign, RunVerify
<1>23. CASE Settle
  BY <1>23, EvidenceHolds, WrittenSays DEF Settle, SaveStaged, Out, Reread
<1>24. CASE Deliver
  BY <1>24 DEF Deliver
<1> QED BY <1>1, <1>2, <1>3, <1>4, <1>5, <1>6, <1>7, <1>8, <1>9, <1>10, <1>11, <1>12, <1>13, <1>14,
           <1>15, <1>16, <1>17, <1>18, <1>19, <1>20, <1>21, <1>22, <1>23, <1>24
        DEF Next, Step

\* What is left to try.
LEMMA BoundStep == Typed /\ BoundInv /\ [Next]_vars => BoundInv'
<1> SUFFICES ASSUME Typed, BoundInv, [Next]_vars PROVE BoundInv'
  OBVIOUS
<1>0. Nodes \in Nat \ {0} /\ cfg.graph \in BOOLEAN
  BY PipelineAssumption, Bound DEF Typed, ConfigType
<1> USE <1>0 DEF BoundInv, fileVars, budgetVars, loopVars, tryVars, checkVars, reviewVars
<1>1. CASE UNCHANGED vars \/ Ended \/ Cancel
  BY <1>1 DEF vars, Ended, Cancel
<1>2. ASSUME pc' \notin {"node", "boundary", "repair", "mend"} PROVE BoundInv'
  BY <1>2
<1>3. ASSUME NEW planned \in BOOLEAN, Begin(planned) PROVE BoundInv'
  BY <1>3 DEF Begin
<1>4. CASE Start \/ Plan
  BY <1>3, <1>4 DEF Start, Plan, Out
<1>5. CASE Answer \/ Cycle \/ Continue \/ Conclude \/ Consult
  BY <1>2, <1>5 DEF Answer, Out, Cycle, Continue, Conclude, Concluded, Consult
<1>6. CASE Node
  BY <1>6 DEF Node, EndGraph, Out, Typed
<1>7. CASE Boundary
  BY <1>7 DEF Boundary, EndGraph, Typed
<1>8. CASE Finish \/ Quality
  BY <1>8 DEF Finish, RunVerify, Quality, Return, RepairAt, MayRepair
<1>9. CASE Command
  BY <1>9 DEF Command, Return, VerifyErr, Out, RepairAt, MayRepair
<1>10. CASE Repair \/ QualityRepair
  BY <1>2, <1>10 DEF Repair, QualityRepair, Mend, VerifyErr, Out
<1>11. CASE Verified \/ ReviewFails \/ ReviewBreaks \/ Review \/ Resume \/ NextReviewer
  BY <1>2, <1>11 DEF Verified, Assign, ReviewFails, Leave, ReviewBreaks, Review, Resume, RunVerify,
                     NextReviewer
<1>12. CASE Settle \/ Deliver
  BY <1>2, <1>12 DEF Settle, Out, Deliver
<1> QED BY <1>1, <1>4, <1>5, <1>6, <1>7, <1>8, <1>9, <1>10, <1>11, <1>12 DEF Next, Step

-----------------------------------------------------------------------------
(* The files *)

LEMMA CheckStep == TypeOK /\ CheckInv /\ GoalInv /\ [Next]_vars => CheckInv'
<1> SUFFICES ASSUME TypeOK, CheckInv, GoalInv, [Next]_vars PROVE CheckInv'
  OBVIOUS
<1>0. /\ Reviewers \in Nat \ {0} /\ reviewer \in 1 .. Reviewers
      /\ back \in {"first", "resume", "final"} /\ approved \subseteq 1 .. Reviewers
  BY PipelineAssumption DEF TypeOK
<1> USE <1>0 DEF fileVars, budgetVars, loopVars, tryVars, checkVars, reviewVars
<1>1. CASE UNCHANGED vars \/ Ended
  <2>1. UNCHANGED <<cfg, pc, cancelled, status, fileVars, back, reviewer, delivered>>
    BY <1>1, Zenon DEF vars, Ended
  <2> QED BY <2>1 DEF CheckInv, Gated, Built, Approved, Backed, Checked, Reviewed
<1>2. CASE Cancel
  <2>1. /\ UNCHANGED <<cfg, pc, status, fileVars, back, reviewer, delivered>> /\ cancelled' /\ ~cancelled
        /\ pc # "ended"
    BY <1>2 DEF Cancel
  <2> QED BY <2>1 DEF CheckInv, Gated, Built, Approved, Backed, Checked, Reviewed
\* An agent run, or a step to it: nothing is claimed.
<1>3. ASSUME pc # "ended", UNCHANGED delivered,
             \/ pc' \in {"start", "plan", "answer", "loop", "judge", "node", "boundary", "finish", "resume"}
             \/ pc' \in {"next", "deliver", "settle"} /\ status' # "ok"
             \/ pc' = "settle" /\ ~Checked' /\ ~Reviewed'
             \/ pc' = "deliver" /\ ~cfg'.tools
      PROVE  CheckInv'
  BY <1>3 DEF CheckInv, Gated, Approved
<1>4. CASE Start \/ Plan
  <2>1. pc \in {"start", "plan"} /\ UNCHANGED delivered
    BY <1>4 DEF Start, Plan
  <2>2. \/ pc' \in {"plan", "answer", "node", "loop"}
        \/ pc' = "deliver" /\ status' # "ok"
    BY <1>4 DEF Start, Plan, Out, Begin
  <2> QED BY <1>3, <2>1, <2>2
<1>6. CASE Cycle \/ Continue
  BY <1>3, <1>6 DEF Cycle, Continue, Out
<1>7. CASE Conclude \/ Consult
  BY <1>3, <1>7 DEF Conclude, Consult, Concluded
<1>8. CASE Node \/ Boundary
  BY <1>3, <1>8 DEF Node, Boundary, EndGraph, Out
<1>9. CASE Finish
  <2>1. /\ pc = "finish" /\ UNCHANGED <<cfg, delivered>>
        /\ \/ pc' = "command" /\ back' = "first"
           \/ pc' = "settle" /\ (~Checked \/ status' = "incomplete")
    BY <1>9 DEF Finish, RunVerify
  <2>2. CASE pc' = "command" /\ back' = "first"
    BY <2>1, <2>2 DEF CheckInv
  <2>3. CASE pc' = "settle" /\ ~Checked
    <3>1. ~Checked' /\ ~Reviewed'
      BY <2>1, <2>3 DEF Checked, Reviewed
    <3> QED BY <1>3, <2>1, <2>3, <3>1
  <2>4. CASE pc' = "settle" /\ status' = "incomplete"
    BY <1>3, <2>1, <2>4
  <2> QED BY <2>1, <2>2, <2>3, <2>4
<1>err. ASSUME VerifyErr, pc # "ended", UNCHANGED delivered PROVE CheckInv'
  BY <1>3, <1>err DEF VerifyErr, Out
<1>10. CASE Command
  <2>1. /\ pc = "command" /\ UNCHANGED <<cfg, cancelled, changed, tracked, open, gated, approved, back, delivered>>
    BY <1>10 DEF Command
  <2>2. \/ VerifyErr
        \/ pc' = "verified" /\ status' # "ok"
        \/ pc' = "verified" /\ status' = status /\ ~changed /\ Built'
        \/ pc' = "quality" /\ status' = status /\ Built'
        \/ pc' = "repair" /\ back # "final"
    BY <1>10 DEF Command, Return, RepairAt, MayRepair, Built
  <2>3. CASE VerifyErr
    BY <1>err, <2>1, <2>3
  <2>4. CASE pc' = "verified" /\ status' # "ok"
    BY <2>1, <2>4 DEF CheckInv
  <2>5. CASE pc' = "verified" /\ status' = status /\ ~changed /\ Built'
    BY <2>1, <2>5 DEF CheckInv, Gated
  <2>6. CASE pc' = "quality" /\ status' = status /\ Built'
    BY <2>1, <2>6 DEF CheckInv
  <2>7. CASE pc' = "repair" /\ back # "final"
    BY <2>1, <2>7 DEF CheckInv
  <2> QED BY <2>2, <2>3, <2>4, <2>5, <2>6, <2>7
<1>11. CASE Quality
  <2>1. /\ pc = "quality" /\ UNCHANGED <<cfg, cancelled, changed, tracked, open, built, approved, back, delivered>>
        /\ \/ pc' = "verified" /\ (status' = "ok" => status = "ok" /\ gated')
           \/ pc' = "mend" /\ back # "final"
    BY <1>11 DEF Quality, Return, RepairAt, MayRepair
  <2> QED BY <2>1 DEF CheckInv, Gated, Built
<1>12. CASE Repair \/ QualityRepair
  <2>1. /\ pc \in {"repair", "mend"} /\ UNCHANGED <<back, delivered>>
        /\ VerifyErr \/ pc' \in {"command", "quality"}
    BY <1>12 DEF Repair, QualityRepair, Mend
  <2>2. CASE VerifyErr
    BY <1>err, <2>1, <2>2
  <2>3. CASE pc' \in {"command", "quality"}
    BY <2>1, <2>3 DEF CheckInv
  <2> QED BY <2>1, <2>2, <2>3
<1>13. CASE Verified
  <2>1. /\ pc = "verified" /\ UNCHANGED <<cfg, cancelled, open, delivered>>
        /\ (changed' => changed) /\ UNCHANGED <<built, gated, approved>>
        /\ (status' = "ok" => status = "ok")
    BY <1>13, RereadKeeps, EvidenceHolds DEF Verified
  <2>2. status' = "ok" => Gated'
    BY <2>1 DEF CheckInv, Gated, Checked
  <2>3. status' = "ok" /\ back = "final" => Built' /\ (cancelled \/ Reviewers \in approved)
    BY <2>1 DEF CheckInv, Built
  <2>4. \/ pc' = "review" /\ status' = "ok"
        \/ pc' = "next" /\ (status' # "ok" \/ cancelled)
        \/ pc' = "settle" /\ (back = "final" \/ status' # "ok" \/ cancelled \/ ~Reviewed)
    BY <1>13 DEF Verified, Assign
  <2> QED BY <2>1, <2>2, <2>3, <2>4 DEF CheckInv, Approved, Reviewed
<1>14. CASE ReviewFails \/ ReviewBreaks
  BY <1>3, <1>14 DEF ReviewFails, ReviewBreaks, Leave
<1>15. CASE Review
  <2>1. /\ pc = "review" /\ UNCHANGED <<cfg, cancelled, changed, tracked, open, built, gated, reviewer, delivered>>
        /\ \/ pc' = "next" /\ (status' = "ok" => reviewer \in approved')
           \/ UNCHANGED <<pc, status>>
           \/ pc' = "resume"
    BY <1>15 DEF Review, Leave
  <2> QED BY <2>1 DEF CheckInv, Gated, Checked
<1>16. CASE Resume
  <2>1. /\ pc = "resume" /\ UNCHANGED delivered
        /\ \/ pc' = "next" /\ status' # "ok"
           \/ pc' = "command" /\ back' = "resume"
    BY <1>16, EvidenceHolds DEF Resume, RunVerify, Leave, Agent
  <2> QED BY <1>3, <2>1 DEF CheckInv
<1>17. CASE NextReviewer
  BY <1>17 DEF NextReviewer, Assign, RunVerify, CheckInv, Gated, Checked
<1>18. CASE Settle
  <2>1. /\ pc = "settle" /\ pc' = "deliver" /\ UNCHANGED <<cfg, cancelled, open, delivered>>
        /\ (changed' => changed) /\ UNCHANGED <<built, gated, approved>>
        /\ (status' = "ok" => status = "ok" /\ Backed')
    BY <1>18, RereadKeeps, EvidenceHolds DEF Settle, Out, Backed
  <2> QED BY <2>1 DEF CheckInv, Gated, Approved, Built, Checked, Reviewed
<1>19. CASE Deliver
  <2>1. /\ pc = "deliver" /\ pc' = "ended" /\ UNCHANGED <<cfg, cancelled, fileVars>>
        /\ delivered' = delivered \/ (status = "ok" /\ ~cancelled)
    BY <1>19 DEF Deliver
  <2> QED BY <2>1 DEF CheckInv, Gated, Approved, Built, Backed, Checked, Reviewed
<1>5. CASE Answer
  <2>1. CASE pc' = "start"
    BY <1>3, <1>5, <2>1 DEF Answer
  <2>2. CASE pc' # "start"
    <3>1. /\ pc = "answer" /\ UNCHANGED <<cfg, delivered>> /\ pc' = "deliver" /\ ~cfg.tools
      BY <1>5, <2>2 DEF Answer, Out, GoalInv
    <3> QED BY <1>3, <3>1
  <2> QED BY <2>1, <2>2
<1> QED BY <1>1, <1>2, <1>4, <1>5, <1>6, <1>7, <1>8, <1>9, <1>10, <1>11, <1>12, <1>13, <1>14,
           <1>15, <1>16, <1>17, <1>18, <1>19
        DEF Next, Step

-----------------------------------------------------------------------------
(* The goal row *)

LEMMA GoalStep == TypeOK /\ CheckInv /\ GoalInv /\ [Next]_vars => GoalInv'
<1> SUFFICES ASSUME TypeOK, CheckInv, GoalInv, [Next]_vars PROVE GoalInv'
  OBVIOUS
<1>0. /\ cfg.graph \in BOOLEAN /\ (cfg.graph => ~cfg.staged) /\ (cfg.staged => cfg.tools)
  BY Bound DEF TypeOK, ConfigType
<1> USE <1>0 DEF fileVars, budgetVars, loopVars, tryVars, checkVars, reviewVars, goalVars
<1>1. CASE UNCHANGED vars \/ Ended
  <2>1. UNCHANGED <<cfg, pc, status, changed, gated, goalVars, todos>>
    BY <1>1, Zenon DEF vars, Ended
  <2> QED BY <2>1 DEF GoalInv, Gated, Checked
<1>2. CASE Cancel
  BY <1>2 DEF Cancel, GoalInv, Gated, Checked
\* A step before the end keeps the row, or writes another status than "complete".
<1>3. ASSUME pc \notin {"deliver", "ended"}, pc' \notin {"start", "plan", "answer", "node", "boundary", "deliver", "ended"},
             goal' = goal \/ goal' # "complete"
      PROVE  GoalInv'
  BY <1>3 DEF GoalInv
\* The task leaves with an error or without a row.
<1>4. ASSUME pc \notin {"deliver", "ended"}, pc' = "deliver", UNCHANGED cfg,
             goal' \in {goal, "failed"}, cfg.staged => stale' \/ goal' \in {"none", "failed"}
      PROVE  GoalInv'
  BY <1>4 DEF GoalInv
<1>begin. ASSUME NEW planned \in {FALSE, cfg.graph}, Begin(planned), UNCHANGED cfg, pc \in {"start", "plan"}
          PROVE  GoalInv'
  <2>1. goal = "none" /\ cfg' = cfg /\ pc' \in {"answer", "node", "loop"}
        /\ (pc' = "answer" => ~cfg.tools) /\ (pc' = "node" => cfg.graph)
        /\ IF cfg.staged THEN SaveGoal("active") ELSE goal' = goal
    BY <1>begin DEF Begin, SaveStaged, GoalInv
  <2>2. goal' \in {"none", "active"} /\ (~cfg.staged => goal' = "none")
    BY <2>1, RowSays
  <2> QED BY <2>1, <2>2 DEF GoalInv
<1>5. CASE Start
  <2>1. CASE Begin(FALSE)
    BY <1>5, <1>begin, <2>1 DEF Start
  <2>2. CASE ~Begin(FALSE)
    <3>1. pc = "start" /\ UNCHANGED <<cfg, goalVars>> /\ pc' \in {"plan", "deliver"} /\ goal = "none"
      BY <1>5, <2>2 DEF Start, Out, GoalInv
    <3> QED BY <3>1 DEF GoalInv
  <2> QED BY <2>1, <2>2
<1>6. CASE Plan
  <2>1. ASSUME NEW planned \in {FALSE, cfg.graph}, Begin(planned) PROVE GoalInv'
    BY <1>6, <1>begin, <2>1 DEF Plan
  <2>2. CASE UNCHANGED goalVars /\ pc' = "deliver"
    BY <1>4, <1>6, <2>2 DEF Plan, GoalInv
  <2> QED BY <1>6, <2>1, <2>2 DEF Plan, Out
<1>7. CASE Answer
  <2>1. pc = "answer" /\ goal = "none" /\ goal' = "none" /\ pc' \in {"deliver", "start"}
    BY <1>7 DEF Answer, Out, GoalInv
  <2> QED BY <2>1 DEF GoalInv
<1>8. CASE Cycle
  BY <1>3, <1>4, <1>8, RowSays DEF Cycle, Out, FailGoal, SaveStaged
<1>concluded. ASSUME Concluded, pc = "judge" PROVE GoalInv'
  BY <1>3, <1>concluded, WrittenSays DEF Concluded
<1>9. CASE Continue \/ Conclude \/ Consult
  <2>1. CASE Continue
    <3>1. pc = "judge" /\ pc' = "loop" /\ SaveGoal("active")
      BY <2>1 DEF Continue
    <3>2. goal' \in {goal, "active"}
      BY <3>1, RowSays
    <3> QED BY <1>3, <3>1, <3>2
  <2>2. CASE Conclude \/ Consult
    BY <1>3, <2>2, <1>concluded DEF Conclude, Consult
  <2> QED BY <1>9, <2>1, <2>2
<1>10. CASE Node \/ Boundary
  <2>1. /\ pc \in {"node", "boundary"} /\ UNCHANGED <<cfg, goalVars>> /\ cfg.graph /\ goal # "complete"
        /\ pc' \in {"node", "boundary", "finish", "deliver"}
    BY <1>10 DEF Node, Boundary, EndGraph, Out, GoalInv
  <2> QED BY <2>1 DEF GoalInv
<1>err. ASSUME VerifyErr, UNCHANGED cfg, pc \in {"command", "repair", "mend"} PROVE GoalInv'
  BY <1>err, <1>4, RowSays DEF VerifyErr, Out, FailGoal, SaveStaged, GoalInv
<1>11. CASE Finish \/ Quality
  BY <1>3, <1>11 DEF Finish, RunVerify, Quality, Return, RepairAt
<1>12. CASE Command
  BY <1>3, <1>12, <1>err DEF Command, Return, RepairAt
<1>13. CASE Repair \/ QualityRepair
  BY <1>3, <1>13, <1>err DEF Repair, QualityRepair, Mend
<1>14. CASE Verified \/ ReviewFails \/ ReviewBreaks \/ Review
  BY <1>3, <1>14 DEF Verified, Assign, ReviewFails, ReviewBreaks, Review, Leave
<1>15. CASE Resume \/ NextReviewer
  BY <1>3, <1>15 DEF Resume, RunVerify, Leave, NextReviewer, Assign
<1>16. CASE Settle
  <2>1. /\ pc = "settle" /\ pc' = "deliver" /\ UNCHANGED <<cfg, todos>> /\ goal # "complete"
        /\ (changed' => changed) /\ UNCHANGED gated
        /\ (status' = "ok" => status = "ok")
        /\ IF cfg.staged THEN SaveGoal(GoalStatus(status', TRUE)) ELSE UNCHANGED goalVars
    BY <1>16, RereadKeeps, EvidenceHolds DEF Settle, SaveStaged, Out, GoalInv
  <2>2. /\ cfg.staged => stale' \/ goal' # "active"
        /\ goal' = "complete" => status' = "ok" /\ todos # "open"
    BY <2>1, WrittenSays
  <2>3. status' = "ok" => Gated'
    BY <2>1 DEF CheckInv, Gated, Checked
  <2> QED BY <2>1, <2>2, <2>3 DEF GoalInv
<1>17. CASE Deliver
  <2>1. /\ pc = "deliver" /\ pc' = "ended" /\ UNCHANGED <<cfg, fileVars, todos, goalVars>>
        /\ status' = status \/ status' \in {"incomplete", "cancelled"}
    BY <1>17 DEF Deliver
  <2> QED BY <2>1 DEF GoalInv, Gated, Checked
<1> QED BY <1>1, <1>2, <1>5, <1>6, <1>7, <1>8, <1>9, <1>10, <1>11, <1>12, <1>13, <1>14,
           <1>15, <1>16, <1>17
        DEF Next, Step

-----------------------------------------------------------------------------
(* The invariant and what follows from it *)

LEMMA InitIInv == Init => IInv
<1> SUFFICES ASSUME Init PROVE IInv
  OBVIOUS
<1>1. TypeOK
  BY InitTyped, InitFlags, TypeParts
<1>2. BoundInv /\ CheckInv /\ GoalInv
  BY DEF Init, BoundInv, CheckInv, GoalInv
<1> QED BY <1>1, <1>2 DEF IInv

LEMMA StepIInv == IInv /\ [Next]_vars => IInv'
<1> SUFFICES ASSUME IInv, [Next]_vars PROVE IInv'
  OBVIOUS
<1>1. Typed /\ Flags
  BY TypeParts DEF IInv
<1>2. TypeOK'
  <2>1. Typed' /\ Flags'
    BY <1>1, NextTyped, NextFlags DEF IInv
  <2> QED BY <2>1 DEF TypeOK, Typed, Flags
<1>3. BoundInv' /\ CheckInv' /\ GoalInv'
  BY <1>1, BoundStep, CheckStep, GoalStep DEF IInv
<1> QED BY <1>2, <1>3 DEF IInv

\* At every point of a task, for any bindings and bounds: what is known of the files and what the goal
\* row says (run_pipeline_inner).
THEOREM PipelineCorrect == Spec => []IInv
<1> QED BY InitIInv, StepIInv, PTL DEF Spec

\* Every variable of a task keeps its type; rounds, attempts and nodes keep their bounds.
THEOREM TypeCorrect == Spec => []TypeOK
<1>1. IInv => TypeOK
  BY DEF IInv
<1> QED BY <1>1, PipelineCorrect, PTL

\* What is published was checked as it is and rests on evidence, however many reviewers, repairs,
\* resumed runs and continuations came before (finish_verification, finalize_pipeline_delivery).
THEOREM DeliveryCorrect == Spec => []DeliveredIsFounded
<1>1. IInv => DeliveredIsFounded
  BY DEF IInv, CheckInv, Gated, Built, Approved, Backed, DeliveredIsFounded, DeliveredWasChecked,
         EvidenceBacksSuccess
<1> QED BY <1>1, PipelineCorrect, PTL

\* A goal row is settled when its task ends, unless the last write of it was lost, and says "complete"
\* only of a task that was verified, whichever writes are lost (goal_persist_status,
\* persist_goal_state).
THEOREM GoalCorrect == Spec => []GoalSettled
<1>1. IInv => GoalSettled
  BY DEF IInv, GoalInv, Gated, GoalSettled
<1> QED BY <1>1, PipelineCorrect, PTL

-----------------------------------------------------------------------------
(* The end of a task comes closer.  One lemma shows that a step uses       *)
(* something up; it holds of each action for one of the eight parts.       *)

Restart == IF cfg.tools THEN 0 ELSE 1
Rounds == (2 - round) + (2 - qround)

\* The review hands a first attempt only to a resumed run.
FirstInv == pc = "resume" \/ (pc \in Verifying /\ back = "resume") => attempt = 0

Advances == cancelled' = cancelled /\ Below(Remaining', Remaining)

LEMMA RemainingParts ==
    /\ Remaining[1] = Restart /\ Remaining[2] = Stage /\ Remaining[3] = Turns
    /\ Remaining[4] = Reviewers - reviewer /\ Remaining[5] = 1 - attempt
    /\ Remaining[6] = Place /\ Remaining[7] = Rounds /\ Remaining[8] = Point
BY DEF Remaining, Restart, Rounds

\* What is used up counts, whatever comes back behind it.
LEMMA UsedUp ==
    ASSUME cancelled' = cancelled,
           \/ Restart' < Restart
           \/ UNCHANGED <<Restart>> /\ Stage' < Stage
           \/ UNCHANGED <<Restart, Stage>> /\ Turns' < Turns
           \/ UNCHANGED <<Restart, Stage, Turns>> /\ Reviewers - reviewer' < Reviewers - reviewer
           \/ UNCHANGED <<Restart, Stage, Turns, reviewer>> /\ 1 - attempt' < 1 - attempt
           \/ UNCHANGED <<Restart, Stage, Turns, reviewer, attempt>> /\ Place' < Place
           \/ UNCHANGED <<Restart, Stage, Turns, reviewer, attempt, Place>> /\ Rounds' < Rounds
           \/ UNCHANGED <<Restart, Stage, Turns, reviewer, attempt, Place, Rounds>> /\ Point' < Point
    PROVE  Advances
<1> DEFINE x == Remaining'
           y == Remaining
<1>1. /\ y[1] = Restart /\ y[2] = Stage /\ y[3] = Turns /\ y[4] = Reviewers - reviewer
      /\ y[5] = 1 - attempt /\ y[6] = Place /\ y[7] = Rounds /\ y[8] = Point
  BY RemainingParts
<1>2. /\ x[1] = Restart' /\ x[2] = Stage' /\ x[3] = Turns' /\ x[4] = Reviewers - reviewer'
      /\ x[5] = 1 - attempt' /\ x[6] = Place' /\ x[7] = Rounds' /\ x[8] = Point'
  BY DEF Remaining, Restart, Rounds
<1>3. \E i \in 1 .. 8 : x[i] < y[i] /\ \A j \in 1 .. 8 : j < i => x[j] = y[j]
  <2> HIDE DEF x, y
  <2>1. ASSUME NEW i \in 1 .. 8, x[i] < y[i],
               /\ i > 1 => x[1] = y[1]
               /\ i > 2 => x[2] = y[2]
               /\ i > 3 => x[3] = y[3]
               /\ i > 4 => x[4] = y[4]
               /\ i > 5 => x[5] = y[5]
               /\ i > 6 => x[6] = y[6]
               /\ i > 7 => x[7] = y[7]
        PROVE  \E k \in 1 .. 8 : x[k] < y[k] /\ \A j \in 1 .. 8 : j < k => x[j] = y[j]
    <3>1. \A j \in 1 .. 8 : j < i => x[j] = y[j]
      <4> TAKE j \in 1 .. 8
      <4>1. j \in {1, 2, 3, 4, 5, 6, 7, 8}
        OBVIOUS
      <4> QED BY <2>1, <4>1
    <3> QED BY <2>1, <3>1
  <2>2. \/ x[1] < y[1]
        \/ x[1] = y[1] /\ x[2] < y[2]
        \/ x[1] = y[1] /\ x[2] = y[2] /\ x[3] < y[3]
        \/ x[1] = y[1] /\ x[2] = y[2] /\ x[3] = y[3] /\ x[4] < y[4]
        \/ x[1] = y[1] /\ x[2] = y[2] /\ x[3] = y[3] /\ x[4] = y[4] /\ x[5] < y[5]
        \/ x[1] = y[1] /\ x[2] = y[2] /\ x[3] = y[3] /\ x[4] = y[4] /\ x[5] = y[5] /\ x[6] < y[6]
        \/ x[1] = y[1] /\ x[2] = y[2] /\ x[3] = y[3] /\ x[4] = y[4] /\ x[5] = y[5] /\ x[6] = y[6] /\ x[7] < y[7]
        \/ x[1] = y[1] /\ x[2] = y[2] /\ x[3] = y[3] /\ x[4] = y[4] /\ x[5] = y[5] /\ x[6] = y[6] /\ x[7] = y[7]
           /\ x[8] < y[8]
    BY <1>1, <1>2
  <2> QED BY <2>1, <2>2
<1> QED BY <1>3 DEF Advances, Below

\* A step to a later stage.
LEMMA StageFalls ==
    ASSUME cancelled' = cancelled, cfg' = cfg, Stage' < Stage
    PROVE  Advances
BY UsedUp DEF Restart

\* Where the points of a task are.
StageSays ==
    /\ pc = "start" => Stage = 9
    /\ pc = "plan" => Stage = 8
    /\ pc \in {"answer", "loop", "judge", "node", "boundary"} => Stage = 7
    /\ pc = "finish" => Stage = 6
    /\ pc \in Verifying /\ back = "first" => Stage = 5
    /\ pc \in {"review", "resume", "next"} => Stage = 4
    /\ pc \in Verifying /\ back = "resume" => Stage = 4
    /\ pc \in Verifying /\ back = "final" => Stage = 3
    /\ pc = "settle" => Stage = 2
    /\ pc = "deliver" => Stage = 1
    /\ pc = "ended" => Stage = 0

LEMMA StageAt == StageSays /\ StageSays'
<1>1. StageSays
  <2>1. pc = "start" => Stage = 9
    BY DEF Stage, Verifying
  <2>2. pc = "plan" => Stage = 8
    BY DEF Stage, Verifying
  <2>3. pc \in {"answer", "loop", "judge", "node", "boundary"} => Stage = 7
    BY DEF Stage, Verifying
  <2>4. pc = "finish" => Stage = 6
    BY DEF Stage, Verifying
  <2>5. pc \in Verifying /\ back = "first" => Stage = 5
    BY DEF Stage, Verifying
  <2>6. pc \in {"review", "resume", "next"} => Stage = 4
    BY DEF Stage, Verifying
  <2>7. pc \in Verifying /\ back = "resume" => Stage = 4
    BY DEF Stage, Verifying
  <2>8. pc \in Verifying /\ back = "final" => Stage = 3
    BY DEF Stage, Verifying
  <2>9. pc \in {"settle", "deliver", "ended"} => Stage = (IF pc = "settle" THEN 2 ELSE IF pc = "deliver" THEN 1 ELSE 0)
    BY DEF Stage, Verifying
  <2> QED BY <2>1, <2>2, <2>3, <2>4, <2>5, <2>6, <2>7, <2>8, <2>9 DEF StageSays
<1>2. QED BY <1>1, PTL

LEMMA StageTyped == TypeOK => Stage \in 0 .. 9
<1> SUFFICES ASSUME TypeOK PROVE Stage \in 0 .. 9
  OBVIOUS
<1>1. pc \in Points /\ back \in {"first", "resume", "final"}
  BY DEF TypeOK
<1> QED BY <1>1, StageAt DEF StageSays, Points, Verifying

\* What is counted is a natural number.
LEMMA RemainingTyped ==
    ASSUME IInv
    PROVE  /\ Turns \in Nat /\ Reviewers - reviewer \in Nat /\ 1 - attempt \in Nat
           /\ Place \in Nat /\ Rounds \in Nat /\ Point \in Nat /\ Stage \in Nat /\ Restart \in Nat
<1>1. TypeOK
  BY DEF IInv
<1>2. Turns \in Nat /\ Reviewers - reviewer \in Nat /\ 1 - attempt \in Nat /\ Rounds \in Nat
  BY <1>1, PipelineAssumption DEF TypeOK, Turns, Rounds
<1>3. Place \in Nat /\ Point \in Nat /\ Restart \in Nat
  BY <1>1 DEF TypeOK, Points, Place, Point, Restart, Verifying
<1> QED BY <1>1, <1>2, <1>3, StageTyped

\* Steps before the work begins.
LEMMA BeginAdvances ==
    ASSUME IInv, TypeOK', Start \/ Plan \/ Answer
    PROVE  Advances
<1>1. TypeOK /\ cancelled' = cancelled
  BY DEF IInv, Start, Plan, Answer
<1>2. ASSUME NEW p \in BOOLEAN, Begin(p) PROVE pc' \in {"answer", "node", "loop"}
  BY <1>2 DEF Begin
<1>3. CASE Start
  <2>1. pc = "start" /\ cfg' = cfg /\ pc' \in {"deliver", "plan", "answer", "node", "loop"}
    BY <1>2, <1>3 DEF Start, Out
  <2> QED BY <1>1, <2>1, StageAt, StageFalls DEF StageSays
<1>4. CASE Plan
  <2>1. cfg.graph \in BOOLEAN
    BY <1>1, PipelineAssumption DEF TypeOK, ConfigType
  <2>2. pc = "plan" /\ cfg' = cfg /\ pc' \in {"deliver", "answer", "node", "loop"}
    BY <1>2, <1>4, <2>1 DEF Plan, Out
  <2> QED BY <1>1, <2>2, StageAt, StageFalls DEF StageSays
<1>5. CASE Answer
  <2>1. pc = "answer" /\ ~cfg.tools
    BY <1>5 DEF Answer, IInv, GoalInv
  <2>2. CASE cfg' = cfg /\ pc' = "deliver"
    BY <1>1, <2>1, <2>2, StageAt, StageFalls DEF StageSays
  <2>3. CASE cfg'.tools
    BY <1>1, <2>1, <2>3, UsedUp DEF Restart
  <2> QED BY <1>5, <2>2, <2>3 DEF Answer, Out
<1> QED BY <1>3, <1>4, <1>5

\* Steps of the work.
LEMMA WorkAdvances ==
    ASSUME IInv, TypeOK', Cycle \/ Continue \/ Conclude \/ Consult \/ Node \/ Boundary
    PROVE  Advances
<1>1. TypeOK /\ UNCHANGED <<cancelled, cfg>> /\ pc \in {"loop", "judge", "node", "boundary"}
  BY DEF IInv, Cycle, Continue, Conclude, Consult, Node, Boundary
<1>2. CASE pc' \in {"finish", "deliver"}
  BY <1>1, <1>2, StageAt, StageFalls DEF StageSays
<1>3. CASE pc' \in {"loop", "judge", "node", "boundary"}
  <2>1. UNCHANGED <<Restart, Stage>>
    BY <1>1, <1>3, StageAt DEF Restart, StageSays
  <2>2. /\ continuations \in Nat /\ node \in Nat /\ attempt \in {0, 1} /\ architect \in BOOLEAN /\ MaxContinuations \in Nat
        /\ Nodes \in Nat /\ reviewer \in Nat /\ Reviewers \in Nat
    BY <1>1, PipelineAssumption DEF TypeOK
  <2>3. CASE Cycle
    <3>1. pc = "loop" /\ pc' = "judge" /\ UNCHANGED <<continuations, architect, node, attempt, reviewer, requeried>>
      BY <1>3, <2>3 DEF Cycle, Out, tryVars, reviewVars
    <3>2. UNCHANGED <<Restart, Stage, Turns, reviewer, attempt>> /\ Place' < Place
      BY <2>1, <3>1 DEF Turns, Place, Verifying
    <3> QED BY <1>1, <3>2, UsedUp
  <2>4. CASE Continue
    <3>1. continuations' = continuations + 1 /\ UNCHANGED <<architect, node>>
      BY <2>4 DEF Continue, tryVars
    <3>2. Turns' < Turns
      BY <2>2, <3>1 DEF Turns
    <3> QED BY <1>1, <2>1, <3>2, UsedUp
  <2>5. CASE Conclude
    BY <1>3, <2>5 DEF Conclude, Concluded
  <2>6. CASE Consult
    <3>1. architect /\ ~architect' /\ UNCHANGED <<continuations, node>>
      BY <1>3, <2>6 DEF Consult, Concluded, tryVars
    <3>2. Turns' < Turns
      BY <2>2, <3>1 DEF Turns
    <3> QED BY <1>1, <2>1, <3>2, UsedUp
  <2>7. CASE Node
    <3>1. /\ pc = "node" /\ UNCHANGED <<continuations, architect, node, reviewer>>
          /\ \/ pc' = "boundary" /\ attempt' = attempt
             \/ pc' = "node" /\ attempt = 0 /\ attempt' = 1
      BY <1>3, <2>7 DEF Node, EndGraph, Out, reviewVars
    <3>2. UNCHANGED <<Restart, Stage, Turns, reviewer>>
      BY <2>1, <3>1 DEF Turns
    <3>3. CASE attempt = 0 /\ attempt' = 1
      BY <1>1, <3>2, <3>3, UsedUp
    <3>4. CASE pc' = "boundary" /\ attempt' = attempt
      <4>1. Place' < Place
        BY <3>1, <3>4 DEF Place, Verifying
      <4> QED BY <1>1, <3>2, <3>4, <4>1, UsedUp
    <3> QED BY <3>1, <3>3, <3>4
  <2>8. CASE Boundary
    <3>1. /\ UNCHANGED <<continuations, architect, reviewer>>
          /\ node' = node + 1 \/ (node' = node /\ attempt = 0 /\ attempt' = 1)
      BY <1>3, <2>8 DEF Boundary, EndGraph, loopVars, reviewVars, tryVars
    <3>2. CASE node' = node + 1
      <4>1. Turns' < Turns
        BY <2>2, <3>1, <3>2 DEF Turns
      <4> QED BY <1>1, <2>1, <4>1, UsedUp
    <3>3. CASE node' = node /\ attempt = 0 /\ attempt' = 1
      <4>1. UNCHANGED <<Restart, Stage, Turns, reviewer>>
        BY <2>1, <3>1, <3>3 DEF Turns
      <4> QED BY <1>1, <3>3, <4>1, UsedUp
    <3> QED BY <3>1, <3>2, <3>3
  <2> QED BY <2>3, <2>4, <2>5, <2>6, <2>7, <2>8
<1> QED BY <1>1, <1>2, <1>3
        DEF Cycle, Continue, Conclude, Concluded, Consult, Node, Boundary, EndGraph, Out

\* Steps of a verification.
LEMMA CheckAdvances ==
    ASSUME IInv, TypeOK', Command \/ Quality \/ Repair \/ QualityRepair
    PROVE  Advances
<1>1. /\ TypeOK /\ UNCHANGED <<cancelled, cfg, back, continuations, architect, node, attempt, reviewer, requeried>>
      /\ pc \in Verifying
  BY DEF IInv, Command, Quality, Repair, QualityRepair, Mend, loopVars, tryVars, checkVars, reviewVars, Verifying
<1>2. UNCHANGED <<Restart, Turns>>
  BY <1>1 DEF Restart, Turns
<1>3. CASE pc' = "deliver"
  BY <1>1, <1>3, StageAt, StageFalls DEF TypeOK, StageSays
<1>4. CASE pc' = "next" /\ back = "resume"
  <2>1. Stage' = Stage
    BY <1>1, <1>4, StageAt DEF StageSays
  <2>2. Place' < Place
    BY <1>1, <1>4 DEF Place, Verifying
  <2> QED BY <1>1, <1>2, <2>1, <2>2, UsedUp
<1>5. CASE pc' \in Verifying
  <2>1. UNCHANGED <<Stage, Place>>
    BY <1>1, <1>5, StageAt DEF Place, TypeOK, Verifying, StageSays
  <2>2. \/ UNCHANGED <<round, qround>>
           /\ \/ pc = "command" /\ pc' \in {"quality", "repair", "verified"}
              \/ pc = "quality" /\ pc' \in {"mend", "verified"}
        \/ pc = "repair" /\ round' = round + 1 /\ qround' = qround
        \/ pc = "mend" /\ qround' = qround + 1 /\ round' = round
    BY <1>5 DEF Command, Quality, Repair, QualityRepair, Mend, Return, RepairAt, VerifyErr, Out, checkVars, Verifying
  <2>3. CASE UNCHANGED <<round, qround>> /\ (\/ pc = "command" /\ pc' \in {"quality", "repair", "verified"}
                                             \/ pc = "quality" /\ pc' \in {"mend", "verified"})
    <3>1. Rounds' = Rounds /\ Point' < Point
      BY <2>3 DEF Rounds, Point
    <3> QED BY <1>1, <1>2, <2>1, <3>1, UsedUp
  <2>4. CASE round' + qround' = round + qround + 1
    <3>1. round \in Nat /\ qround \in Nat /\ round' \in Nat /\ qround' \in Nat
      BY <1>1 DEF TypeOK
    <3>2. Rounds' < Rounds
      <4>1. \A a, b, c, d \in Nat : a + b = c + d + 1 => (2 - a) + (2 - b) < (2 - c) + (2 - d)
        OBVIOUS
      <4> QED BY <2>4, <3>1, <4>1 DEF Rounds
    <3> QED BY <1>1, <1>2, <2>1, <3>2, UsedUp
  <2>5. round \in Nat /\ qround \in Nat
    BY <1>1 DEF TypeOK
  <2> QED BY <2>2, <2>3, <2>4, <2>5
<1>6. pc' = "deliver" \/ (pc' = "next" /\ back = "resume") \/ pc' \in Verifying
  BY DEF Command, Quality, Repair, QualityRepair, Mend, Return, RepairAt, VerifyErr, Out, Verifying
<1> QED BY <1>3, <1>4, <1>5, <1>6

\* Steps of the reviews.
LEMMA ReviewAdvances ==
    ASSUME IInv, FirstInv, TypeOK', Verified \/ ReviewFails \/ ReviewBreaks \/ Review \/ Resume \/ NextReviewer
    PROVE  Advances
<1>1. TypeOK /\ UNCHANGED <<cancelled, cfg, continuations, architect, node>> /\ reviewer \in Nat /\ Reviewers \in Nat
  BY PipelineAssumption DEF IInv, TypeOK, Verified, ReviewFails, ReviewBreaks, Review, Resume, NextReviewer,
       loopVars, tryVars
<1>2. UNCHANGED <<Restart, Turns>>
  BY <1>1 DEF Restart, Turns
<1>3. CASE pc' = "settle"
  <2>1. pc \in {"verified", "next"}
    BY <1>3 DEF Verified, ReviewFails, ReviewBreaks, Review, Resume, NextReviewer, Leave, RunVerify, Assign
  <2> QED BY <1>1, <1>3, <2>1, StageAt, StageFalls DEF TypeOK, Verifying, StageSays
<1>4. CASE Verified /\ pc' # "settle"
  <2>1. /\ pc = "verified" /\ back' = back
        /\ \/ back = "first" /\ pc' = "review"
           \/ back = "resume" /\ attempt' = 1 /\ pc' = "review" /\ reviewer' = reviewer
           \/ back = "resume" /\ attempt' = attempt /\ pc' = "next" /\ reviewer' = reviewer
    BY <1>4 DEF Verified, Assign, reviewVars
  <2>2. CASE back = "first" /\ pc' = "review"
    BY <1>1, <2>1, <2>2, StageAt, StageFalls DEF Verifying, StageSays
  <2>3. CASE back = "resume" /\ reviewer' = reviewer /\ pc' \in {"review", "next"}
    <3>1. Stage' = Stage /\ attempt = 0
      BY <1>1, <2>1, <2>3, StageAt DEF FirstInv, Verifying, StageSays
    <3>2. CASE attempt' = 1
      BY <1>1, <1>2, <2>3, <3>1, <3>2, UsedUp
    <3>3. CASE attempt' = attempt /\ pc' = "next"
      <4>1. Place' < Place
        BY <2>1, <3>3 DEF Place, Verifying
      <4> QED BY <1>1, <1>2, <2>3, <3>1, <3>3, <4>1, UsedUp
    <3> QED BY <2>1, <2>3, <3>2, <3>3
  <2> QED BY <2>1, <2>2, <2>3
<1>5. CASE ReviewFails \/ ReviewBreaks \/ Review
  <2>1. /\ pc = "review" /\ UNCHANGED <<attempt, reviewer>>
        /\ \/ pc' = "next"
           \/ pc' = "review" /\ ~requeried /\ requeried'
           \/ pc' = "resume"
    BY <1>5 DEF ReviewFails, ReviewBreaks, Review, Leave, tryVars, reviewVars
  <2>2. Stage' = Stage
    BY <1>1, <2>1, StageAt DEF StageSays
  <2>3. Place' < Place
    BY <2>1 DEF Place, Verifying
  <2> QED BY <1>1, <1>2, <2>1, <2>2, <2>3, UsedUp
<1>6. CASE Resume
  <2>1. /\ pc = "resume" /\ UNCHANGED <<attempt, reviewer>>
        /\ pc' = "next" \/ (pc' = "command" /\ back' = "resume")
    BY <1>6 DEF Resume, Leave, RunVerify, tryVars, reviewVars
  <2>2. Stage' = Stage
    BY <1>1, <2>1, StageAt DEF Verifying, StageSays
  <2>3. Place' < Place
    BY <2>1 DEF Place, Verifying
  <2> QED BY <1>1, <1>2, <2>1, <2>2, <2>3, UsedUp
<1>7. CASE NextReviewer /\ pc' # "settle"
  <2>1. /\ pc = "next"
        /\ \/ pc' = "review" /\ reviewer' = reviewer + 1
           \/ pc' = "command" /\ back' = "final"
    BY <1>7 DEF NextReviewer, Assign, RunVerify
  <2>2. CASE pc' = "review" /\ reviewer' = reviewer + 1
    <3>1. Stage' = Stage
      BY <1>1, <2>1, <2>2, StageAt DEF StageSays
    <3> QED BY <1>1, <1>2, <2>2, <3>1, UsedUp
  <2>3. CASE pc' = "command" /\ back' = "final"
    BY <1>1, <2>1, <2>3, StageAt, StageFalls DEF Verifying, StageSays
  <2> QED BY <2>1, <2>2, <2>3
<1> QED BY <1>3, <1>4, <1>5, <1>6, <1>7

LEMMA EndAdvances ==
    ASSUME IInv, TypeOK', Finish \/ Settle \/ Deliver
    PROVE  Advances
<1>1. /\ TypeOK /\ UNCHANGED <<cancelled, cfg>>
      /\ \/ pc = "finish" /\ (pc' = "settle" \/ (pc' = "command" /\ back' = "first"))
         \/ pc = "settle" /\ pc' = "deliver"
         \/ pc = "deliver" /\ pc' = "ended"
  BY DEF IInv, Finish, RunVerify, Settle, Out, Deliver
<1> QED BY <1>1, StageAt, StageFalls DEF Verifying, StageSays

LEMMA FirstStep ==
    ASSUME FirstInv, [Next]_vars
    PROVE  FirstInv'
<1>1. CASE UNCHANGED <<pc, back, attempt>>
  BY <1>1 DEF FirstInv
<1>2. CASE pc' \notin {"resume"} \cup Verifying
  BY <1>2 DEF FirstInv
<1>3. CASE pc' \in {"resume"} \cup Verifying
  <2>1. CASE Finish \/ NextReviewer
    <3>1. pc' # "resume" /\ back' \in {"first", "final"}
      BY <1>3, <2>1 DEF Finish, NextReviewer, RunVerify, Assign, Verifying
    <3> QED BY <3>1 DEF FirstInv
  <2>2. CASE Command \/ Quality \/ Repair \/ QualityRepair
    <3>1. pc \in Verifying /\ pc' # "resume" /\ UNCHANGED <<back, attempt>>
      BY <2>2 DEF Command, Quality, Repair, QualityRepair, Mend, Return, RepairAt, VerifyErr, Out, checkVars, tryVars,
                  Verifying
    <3> QED BY <3>1 DEF FirstInv
  <2>3. CASE Review
    <3>1. attempt' = attempt /\ (pc' = "resume" => attempt = 0) /\ pc' \in {"review", "resume", "next"}
      BY <2>3 DEF Review, tryVars, Leave
    <3> QED BY <3>1 DEF FirstInv, Verifying
  <2>4. CASE Resume
    BY <2>4 DEF Resume, tryVars, FirstInv
  <2>5. Finish \/ NextReviewer \/ Command \/ Quality \/ Repair \/ QualityRepair \/ Review \/ Resume
        \/ UNCHANGED <<pc, back, attempt>>
    BY <1>3 DEF Next, Step, Start, Plan, Begin, Answer, Out, Cycle, Continue, Conclude, Concluded, Consult, Node,
       Boundary, EndGraph, Verified, Assign, ReviewFails, ReviewBreaks, Leave, Settle, Deliver, Cancel, Ended,
       Verifying, vars, checkVars, tryVars
  <2> QED BY <1>1, <2>1, <2>2, <2>3, <2>4, <2>5
<1> QED BY <1>2, <1>3

\* No task runs in circles, for any bindings, numbers of reviewers, nodes and continuations: each step
\* uses up something, a cancel nothing, and what is counted is never negative (runner.rs: the bounds
\* of cycles, nodes, repairs and reviews).
THEOREM AdvanceCorrect == Spec => TaskAdvances /\ [](Remaining \in [1 .. 8 -> Nat])
<1>1. Init => IInv /\ FirstInv
  BY InitIInv DEF Init, FirstInv, Verifying
<1>2. IInv /\ FirstInv /\ [Next]_vars => IInv' /\ FirstInv'
  BY StepIInv, FirstStep
<1>3. IInv => Remaining \in [1 .. 8 -> Nat]
  BY RemainingTyped DEF Remaining, Restart, Rounds
<1>4. IInv /\ FirstInv /\ [Next]_vars =>
          [\A now \in {Remaining}, later \in {Remaining'} :
              IF cancelled' = cancelled THEN Below(later, now) ELSE later = now]_vars
  <2> SUFFICES ASSUME IInv, FirstInv, Next, ~ UNCHANGED vars
               PROVE  IF cancelled' = cancelled THEN Below(Remaining', Remaining) ELSE Remaining' = Remaining
    OBVIOUS
  <2>1. TypeOK'
    BY StepIInv DEF IInv
  <2>2. CASE Step
    <3>1. Advances
      BY <2>1, <2>2, BeginAdvances, WorkAdvances, CheckAdvances, ReviewAdvances, EndAdvances DEF Step
    <3> QED BY <3>1 DEF Advances
  <2>3. CASE Cancel
    <3>1. cancelled' # cancelled
      BY <2>3 DEF Cancel, IInv, TypeOK
    <3>2. Remaining' = Remaining
      BY <2>3 DEF Cancel, loopVars, tryVars, checkVars, reviewVars, Remaining, Stage, Turns, Place, Point, Verifying
    <3> QED BY <3>1, <3>2
  <2> QED BY <2>2, <2>3 DEF Next, Ended
<1> QED BY <1>1, <1>2, <1>3, <1>4, PTL DEF Spec, TaskAdvances

(***************************************************************************)
(* Terminal                                                                *)
(***************************************************************************)
-----------------------------------------------------------------------------
(* The terminal: the inductive invariant *)

Uis == {"loop", "cancel", "finish", "clear", "closed"}
Kinds == {"turn", "compact", "ulw", "resume"}
TurnPlaces ==
    {"none", "spawn", "prepare", "install", "observe", "show", "working", "asking", "answered", "record", "judge", "sent"}
SessRecords == [id : Nat \cup {NoSession}, msgs : SUBSET Nat, dirty : BOOLEAN]
LoopRecords ==
    [status : {"none", "running", "done", "blocked"}, met : SUBSET Criteria, runs : Nat, nudges : Nat, finished : Nat,
     sig : Failures \cup {NoFailure}, streak : Nat]
RunRecords == [no : Nat, state : States, cancelled : BOOLEAN]
TurnRecords ==
    [no : Nat, kind : Kinds \cup {"none"}, at : TurnPlaces, sess : SessRecords, ok : BOOLEAN, loop : LoopRecords]
FollowerRecords == [turn : Nat, seen : Nat, events : Seq(States)]
ShownRecords == [turn : Nat, state : States]

Types ==
    /\ script \in ScriptType
    /\ ui \in Uis /\ busy \in BOOLEAN /\ quitAfter \in BOOLEAN /\ pressed \in BOOLEAN
    /\ cancelReq \in BOOLEAN /\ active \in BOOLEAN
    /\ queue \in Seq(Nat) /\ live \in Seq({"chunk", "answer"})
    /\ question \in {"none", "live", "dead"} /\ asked \in {"none", "live", "dead"}
    /\ sess \in SessRecords /\ turn \in TurnRecords /\ run \in RunRecords
    /\ shown \in ShownRecords /\ final \in ShownRecords \cup {Unknown}
    /\ epoch \in Nat /\ holder \in Nat /\ entered \in Nat
    /\ IsFiniteSet(Sessions) /\ Sessions \subseteq Nat
    /\ loopFile \in LoopRecords /\ founded \subseteq Criteria
    /\ lastCheck \in {"skipped", "ok"} \cup Failures

\* A turn is running, and its place says so.  A question that somebody waits for is that of the turn.
TurnInv ==
    /\ busy <=> turn.at # "none"
    /\ busy => turn.no > 0 /\ turn.kind # "none"
    /\ turn.kind \in script.kinds \cup {"none"}
    /\ queue # <<>> => "turn" \in script.kinds
    /\ ui = "finish" => ~busy
    /\ ~busy => live = <<>> /\ turn.sess = Empty
    /\ question = "live" \/ asked = "live" => turn.at = "asking"
    /\ ~(question = "live" /\ asked = "live")

\* What Esc has reached.
EscInv ==
    /\ cancelReq \/ run.cancelled \/ ui = "cancel" => pressed
    /\ ui = "cancel" => busy
    /\ pressed /\ busy => cancelReq
    /\ ~busy => ~active /\ ~cancelReq
    /\ pressed /\ busy /\ active /\ ui # "cancel" => run.cancelled

\* Where messages are.
Secured(s, k) == s.dirty \/ s.msgs \subseteq k
InStore(s, table) == s.dirty \/ s.id = NoSession \/ (s.id \in DOMAIN table /\ table[s.id] = s.msgs)

MessageInv ==
    /\ recorded \subseteq sess.msgs \cup turn.sess.msgs \cup kept \cup abandoned
    /\ Secured(sess, kept) /\ Secured(turn.sess, kept) /\ (\A i \in Sessions : rows[i] \subseteq kept)
    /\ IF busy THEN sess.msgs \subseteq turn.sess.msgs \cup kept /\ InStore(turn.sess, rows) ELSE InStore(sess, rows)
    /\ sess.msgs \cup turn.sess.msgs \cup kept \cup recorded \subseteq 1 .. turn.no

\* What an autonomous loop has achieved, and how many runs it had for it.
Founded(loop, f) == loop.met \subseteq f /\ (loop.status = "done" => f = Criteria)

UlwInv ==
    /\ Founded(loopFile, founded) /\ Founded(turn.loop, founded)
    /\ entered <= script.prompts
    /\ loopFile.runs <= 3 + entered
    /\ ~InLoop => turn.loop = NoLoop
    /\ InLoop /\ busy => entered > 0
    /\ turn.at = "judge" => InLoop
    /\ InLoop /\ turn.at \notin {"none", "spawn", "prepare", "sent"} => turn.loop.status = "running"
    /\ InLoop /\ turn.at = "spawn" => turn.loop = NoLoop
    /\ InLoop /\ turn.at = "prepare" => turn.loop = NoLoop \/ turn.loop.status = "running"
    /\ InLoop /\ turn.at \notin {"none", "sent"} =>
          turn.loop.runs <= 2 + entered /\ (turn.loop = NoLoop => loopFile.runs <= 2 + entered)

\* Which followers may still write to the display.
FollowerInv ==
    /\ DOMAIN followers \subseteq 1 .. run.no
    /\ \A r \in DOMAIN followers :
          followers[r] \in FollowerRecords /\ followers[r].seen <= epoch /\ followers[r].turn <= turn.no
    /\ turn.at = "observe" => run.no > 0 /\ run.no \notin DOMAIN followers
    /\ holder # 0 => holder \in DOMAIN followers /\ Events(holder) # <<>>
    /\ shown.turn <= turn.no /\ final.turn <= turn.no

DisplayInv ==
    /\ busy => \A r \in DOMAIN followers : followers[r].seen = epoch => followers[r].turn = turn.no
    /\ busy /\ ui # "clear" /\ holder # 0 => followers[holder].turn = turn.no
    /\ ~busy /\ final # Unknown => \A r \in DOMAIN followers : followers[r].seen < epoch
    /\ ~busy /\ final # Unknown /\ ui \notin {"finish", "clear"} => holder = 0
    /\ ~busy /\ ui = "clear" => final = NoState
    /\ ui = "finish" => (turn.ok <=> final # Unknown)
    /\ ~busy /\ ui = "loop" /\ final # Unknown => shown = final
    /\ busy /\ ui # "clear" => shown.turn \in {0, turn.no}

TermInv == Types /\ TurnInv /\ EscInv /\ MessageInv /\ UlwInv /\ FollowerInv /\ DisplayInv

-----------------------------------------------------------------------------
(* Parts of steps *)

\* What the sets of records hold to begin with.
LEMMA Starts ==
  /\ UlwStart \in LoopRecords /\ UlwStart.status = "running" /\ UlwStart.met = {} /\ UlwStart.runs = 0
  /\ NoLoop \in LoopRecords /\ NoLoop.status = "none" /\ NoLoop.met = {} /\ NoLoop.runs = 0
  /\ Empty \in SessRecords /\ Empty.msgs = {} /\ ~Empty.dirty /\ Empty.id = NoSession
  /\ NoState \in ShownRecords /\ NoState.turn = 0
<1>1. /\ UlwStart \in LoopRecords /\ UlwStart.status = "running" /\ UlwStart.met = {} /\ UlwStart.runs = 0
  BY DEF UlwStart, LoopRecords, NoFailure
<1>2. NoLoop \in LoopRecords /\ NoLoop.status = "none" /\ NoLoop.met = {} /\ NoLoop.runs = 0
  BY <1>1 DEF NoLoop, LoopRecords
<1>3. Empty \in SessRecords /\ Empty.msgs = {} /\ ~Empty.dirty /\ Empty.id = NoSession
  BY DEF Empty, SessRecords
<1>4. NoState \in ShownRecords /\ NoState.turn = 0
  BY DEF NoState, ShownRecords, States, EndStates
<1> QED BY <1>1, <1>2, <1>3, <1>4

\* The turn changes its place only.
Moves(a) ==
    /\ turn' \in TurnRecords /\ turn'.at = a /\ turn'.no = turn.no /\ turn'.kind = turn.kind /\ turn'.sess = turn.sess
    /\ turn'.ok = turn.ok /\ turn'.loop = turn.loop

\* Moving the turn on keeps its other fields.
LEMMA MoveFacts ==
  ASSUME Types, NEW a \in TurnPlaces, turn' = [turn EXCEPT !.at = a]
  PROVE  Moves(a)
<1>1. turn \in TurnRecords
  BY DEF Types
<1> QED BY <1>1 DEF TurnRecords, Moves

\* It ends with a session, a result and a loop.
LEMMA SendFacts ==
  ASSUME Types, NEW s \in SessRecords, NEW ok \in BOOLEAN, NEW loop \in LoopRecords, Send(s, ok, loop)
  PROVE  /\ turn' \in TurnRecords /\ turn'.at = "sent" /\ turn'.no = turn.no /\ turn'.kind = turn.kind
         /\ turn'.sess = s /\ turn'.ok = ok /\ turn'.loop = loop
<1>1. "sent" \in TurnPlaces /\ turn \in TurnRecords
  BY DEF Types, TurnPlaces
<1> QED BY <1>1 DEF TurnRecords, Send

\* A loop that is interrupted keeps what it has met and is not done by it.
LEMMA BlockedFacts ==
  ASSUME NEW loop \in LoopRecords
  PROVE  /\ Blocked(loop) \in LoopRecords /\ Blocked(loop).met = loop.met /\ Blocked(loop).runs = loop.runs
         /\ Blocked(loop).status # "done" \/ Blocked(loop).status = loop.status
         /\ loop = NoLoop => Blocked(loop) = NoLoop
<1>1. CASE loop = NoLoop BY <1>1 DEF Blocked
<1>2. CASE loop # NoLoop BY <1>2 DEF Blocked, LoopRecords
<1> QED BY <1>1, <1>2

\* A turn starts.
LEMMA StartFacts ==
  ASSUME Types, NEW kind \in Kinds, NEW s \in SessRecords, StartTurn(kind, s)
  PROVE  /\ turn' \in TurnRecords /\ turn'.at = "spawn" /\ turn'.no = turn.no + 1 /\ turn'.kind = kind
         /\ turn'.sess = s /\ turn'.ok /\ turn'.loop = NoLoop
         /\ run' \in RunRecords /\ run'.no = run.no /\ run'.state = "none" /\ ~run'.cancelled
<1>1. "spawn" \in TurnPlaces /\ turn.no + 1 \in Nat /\ NoLoop \in LoopRecords /\ run \in RunRecords
  BY Starts DEF Types, TurnPlaces, TurnRecords
<1>2. run' \in RunRecords /\ run'.no = run.no /\ run'.state = "none" /\ ~run'.cancelled
  BY <1>1 DEF StartTurn, RunRecords, States
<1> QED BY <1>1, <1>2 DEF StartTurn, TurnRecords

\* A row is written.
LEMMA RowFacts ==
  ASSUME Types, NEW s \in SessRecords, NEW msgs, PutRow(IdOf(s), msgs)
  PROVE  /\ IdOf(s) \in Nat /\ IsFiniteSet(Sessions)' /\ Sessions' = Sessions \cup {IdOf(s)} /\ Sessions' \subseteq Nat
         /\ rows'[IdOf(s)] = msgs /\ \A i \in Sessions : i # IdOf(s) => rows'[i] = rows[i]
<1>1. IdOf(s) \in Nat
  BY FS_CardinalityType DEF Types, IdOf, SessRecords
<1>2. Sessions' = Sessions \cup {IdOf(s)}
  BY DEF PutRow, Sessions
<1>3. IsFiniteSet(Sessions \cup {IdOf(s)})
  BY FS_AddElement DEF Types
<1>4. rows'[IdOf(s)] = msgs /\ \A i \in Sessions : i # IdOf(s) => rows'[i] = rows[i]
  BY DEF PutRow, Sessions
<1> QED BY <1>1, <1>2, <1>3, <1>4 DEF Types

\* What the store is after a step that wrote a session, or none.
StoreGrows(s, t) ==
    /\ t \in SessRecords
    /\ IsFiniteSet(Sessions)' /\ Sessions' \subseteq Nat
    /\ kept \subseteq kept' /\ kept' \subseteq kept \cup s.msgs
    /\ (\A i \in Sessions : rows[i] \subseteq kept) => (\A i \in Sessions' : rows'[i] \subseteq kept')
    /\ Secured(s, kept) => Secured(t, kept')
    /\ InStore(s, rows) => InStore(t, rows')

\* What is written when a session is saved, or the database was busy.
LEMMA SaveFacts ==
  ASSUME Types, NEW s \in SessRecords, NEW ok \in BOOLEAN, Save(s, ok)
  PROVE  StoreGrows(s, Saved(s, ok)) /\ Saved(s, ok).msgs = s.msgs
<1>1. CASE ok /\ s.dirty
  <2> DEFINE id == IdOf(s)
             t == [s EXCEPT !.id = id, !.dirty = FALSE]
  <2>1. /\ id \in Nat /\ IsFiniteSet(Sessions)' /\ Sessions' = Sessions \cup {id} /\ Sessions' \subseteq Nat
        /\ rows'[id] = s.msgs /\ (\A i \in Sessions : i # id => rows'[i] = rows[i]) /\ kept' = kept \cup s.msgs
    BY <1>1, RowFacts DEF Save
  <2>2. Saved(s, ok) = t
    BY <1>1 DEF Saved
  <2> HIDE DEF id
  <2>3. t \in SessRecords /\ t.id = id /\ t.msgs = s.msgs /\ ~t.dirty
    BY <2>1 DEF SessRecords
  <2> HIDE DEF t
  <2>4. InStore(t, rows') /\ Secured(t, kept')
    BY <2>1, <2>3 DEF InStore, Secured, Sessions
  <2> QED BY <2>1, <2>2, <2>3, <2>4 DEF StoreGrows
<1>2. CASE ~(ok /\ s.dirty)
  <2>1. Saved(s, ok) = s /\ UNCHANGED <<rows, kept>>
    BY <1>2 DEF Save, Saved
  <2>2. Sessions' = Sessions
    BY <2>1 DEF Sessions
  <2> QED BY <2>1, <2>2 DEF StoreGrows, Secured, InStore, Types
<1> QED BY <1>1, <1>2

\* A compaction writes the messages down before it replaces them.
LEMMA CompactFacts ==
  ASSUME Types, NEW s \in SessRecords, KeepCompacted(s)
  PROVE  StoreGrows(s, Compacted(s)) /\ Compacted(s).msgs = {} /\ s.msgs \subseteq kept' /\ InStore(Compacted(s), rows')
<1> DEFINE id == IdOf(s)
           t == [s EXCEPT !.id = id, !.msgs = {}, !.dirty = FALSE]
<1>1. /\ id \in Nat /\ IsFiniteSet(Sessions)' /\ Sessions' = Sessions \cup {id} /\ Sessions' \subseteq Nat
      /\ rows'[id] = {} /\ (\A i \in Sessions : i # id => rows'[i] = rows[i]) /\ kept' = kept \cup s.msgs
  BY RowFacts DEF KeepCompacted
<1>2. Compacted(s) = t
  BY DEF Compacted
<1> HIDE DEF id
<1>3. t \in SessRecords /\ t.id = id /\ t.msgs = {} /\ ~t.dirty
  BY <1>1 DEF SessRecords
<1> HIDE DEF t
<1>4. InStore(t, rows') /\ Secured(t, kept')
  BY <1>1, <1>3 DEF InStore, Secured, Sessions
<1> QED BY <1>1, <1>2, <1>3, <1>4 DEF StoreGrows

\* Nothing happens to the messages.
LEMMA MessagesStay ==
  ASSUME TermInv, UNCHANGED <<rows, kept, sess, recorded, abandoned, busy>>, turn'.sess = turn.sess, turn'.no = turn.no
  PROVE  MessageInv'
<1>1. Sessions' = Sessions
  BY DEF Sessions
<1> QED BY <1>1 DEF TermInv, MessageInv, Secured, InStore

\* A run publishes its state.
LEMMA PublishFacts ==
  ASSUME TermInv, NEW state \in States, Publish(state)
  PROVE  /\ run' \in RunRecords /\ run'.no = run.no /\ run'.state = state /\ run'.cancelled = run.cancelled
         /\ DOMAIN followers' = DOMAIN followers
         /\ \A r \in DOMAIN followers : /\ followers'[r] \in FollowerRecords /\ followers'[r].turn = followers[r].turn
                                        /\ followers'[r].seen = followers[r].seen
                                        /\ followers'[r].events # <<>> \/ followers[r].events = <<>>
<1>1. run' \in RunRecords /\ run'.no = run.no /\ run'.state = state /\ run'.cancelled = run.cancelled
  BY DEF Publish, TermInv, Types, RunRecords
<1>2. DOMAIN followers' = DOMAIN followers
  BY DEF Publish
<1>3. ASSUME NEW r \in DOMAIN followers
      PROVE  /\ followers'[r] \in FollowerRecords /\ followers'[r].turn = followers[r].turn
             /\ followers'[r].seen = followers[r].seen
             /\ followers'[r].events # <<>> \/ followers[r].events = <<>>
  <2>1. followers[r] \in FollowerRecords
    BY DEF TermInv, FollowerInv
  <2> DEFINE e == Append(followers[r].events, state)
  <2>2. e \in Seq(States) /\ e # <<>>
    BY <2>1 DEF FollowerRecords
  <2>3. CASE r = run.no
    <3>1. followers'[r] = [followers[r] EXCEPT !.events = e]
      BY <2>3 DEF Publish
    <3> HIDE DEF e
    <3>2. [followers[r] EXCEPT !.events = e] \in FollowerRecords
      BY <2>1, <2>2 DEF FollowerRecords
    <3>3. /\ [followers[r] EXCEPT !.events = e].turn = followers[r].turn
          /\ [followers[r] EXCEPT !.events = e].seen = followers[r].seen
          /\ [followers[r] EXCEPT !.events = e].events = e
      BY <2>1 DEF FollowerRecords
    <3> QED BY <2>2, <3>1, <3>2, <3>3
  <2>4. CASE r # run.no
    <3>1. followers'[r] = followers[r]
      BY <2>4 DEF Publish
    <3> QED BY <2>1, <3>1
  <2> QED BY <2>3, <2>4
<1> QED BY <1>1, <1>2, <1>3

\* A follower takes an event, the last one with it.
LEMMA TakenFacts ==
  ASSUME TermInv, NEW r \in DOMAIN followers, Events(r) # <<>>, followers' = Taken(r)
  PROVE  /\ DOMAIN followers' \subseteq DOMAIN followers
         /\ \A q \in DOMAIN followers' : /\ followers'[q] \in FollowerRecords /\ followers'[q].turn = followers[q].turn
                                         /\ followers'[q].seen = followers[q].seen
         /\ Head(Events(r)) \in States
<1>1. \A q \in DOMAIN followers : followers[q] \in FollowerRecords
  BY DEF TermInv, FollowerInv
<1>2. Events(r) \in Seq(States) /\ Head(Events(r)) \in States /\ Tail(Events(r)) \in Seq(States)
  BY <1>1 DEF FollowerRecords, Events
<1>3. CASE Head(Events(r)) \in EndStates
  BY <1>1, <1>2, <1>3 DEF Taken
<1>4. CASE Head(Events(r)) \notin EndStates
  <2>1. followers' = [followers EXCEPT ![r].events = Tail(followers[r].events)]
    BY <1>4 DEF Taken
  <2> DEFINE e == Tail(followers[r].events)
  <2>2. followers'[r] = [followers[r] EXCEPT !.events = e] /\ \A q \in DOMAIN followers \ {r} : followers'[q] = followers[q]
    BY <2>1
  <2>3. e \in Seq(States)
    BY <1>2 DEF Events
  <2> HIDE DEF e
  <2>4. followers'[r] \in FollowerRecords /\ followers'[r].turn = followers[r].turn /\ followers'[r].seen = followers[r].seen
    BY <1>1, <2>2, <2>3 DEF FollowerRecords
  <2>5. DOMAIN followers' = DOMAIN followers
    BY <2>1
  <2> QED BY <1>1, <1>2, <2>2, <2>4, <2>5
<1> QED BY <1>3, <1>4

\* A run of an autonomous loop is judged.
LEMMA RecordRunFacts ==
  ASSUME NEW u \in LoopRecords, NEW r \in Reports
  PROVE  LET v == RecordRun(u, r)
             gain == IF Failed(r) THEN {} ELSE IF r.all THEN Criteria ELSE r.matched
         IN /\ v \in LoopRecords /\ v.runs = u.runs + 1
            /\ v.met \in {u.met, u.met \cup gain} /\ gain \subseteq Criteria
            /\ v.status = "done" => v.met = Criteria \/ u.status = "done"
            /\ v.status = "running" => v.runs < 4
            /\ u.status = "running" => v.status \in {"running", "done", "blocked"}
<1> DEFINE n == u.runs + 1
           f == IF r.finished > u.finished THEN r.finished ELSE u.finished
           g == IF Failed(r) THEN r.verify ELSE u.sig
           k == Streak(u, r)
           gain == IF Failed(r) THEN {} ELSE IF r.all THEN Criteria ELSE r.matched
           m == MetAfter(u, r)
           d == NudgesAfter(u, r)
           v == [u EXCEPT !.runs = n, !.finished = f, !.sig = g, !.streak = k]
           w == [v EXCEPT !.met = m]
           x == [w EXCEPT !.nudges = d]
<1>1. /\ r.finished \in Nat /\ r.all \in BOOLEAN /\ r.matched \subseteq Criteria /\ r.verify \in {"skipped",
         "ok"} \cup Failures
  BY DEF Reports
<1>2. n \in Nat /\ f \in Nat /\ g \in Failures \cup {NoFailure} /\ k \in Nat /\ d \in Nat
  BY <1>1 DEF Failed, Streak, NudgesAfter, LoopRecords
<1>3. m \in {u.met, u.met \cup gain} /\ gain \subseteq Criteria /\ m \subseteq Criteria /\ (Failed(r) => m = u.met)
  BY <1>1 DEF MetAfter, LoopRecords
<1>4. RecordRun(u, r) = IF Failed(r) /\ v.streak >= 3 THEN [v EXCEPT !.status = "blocked"]
                        ELSE IF w.met = Criteria /\ ~Failed(r) THEN [w EXCEPT !.status = "done"]
                        ELSE IF OutOfRuns(x) THEN [x EXCEPT !.status = "blocked"]
                        ELSE x
  BY DEF RecordRun
<1> HIDE DEF n, f, g, k, m, d, gain
<1>5. /\ v \in LoopRecords /\ v.runs = n /\ v.met = u.met /\ v.status = u.status
      /\ w \in LoopRecords /\ w.runs = n /\ w.met = m /\ w.status = u.status
      /\ x \in LoopRecords /\ x.runs = n /\ x.met = m /\ x.status = u.status
  BY <1>2, <1>3 DEF LoopRecords
<1> HIDE DEF v, w, x
<1>6. ASSUME NEW z \in LoopRecords, NEW e \in {"done", "blocked"}
      PROVE  /\ [z EXCEPT !.status = e] \in LoopRecords /\ [z EXCEPT !.status = e].runs = z.runs
             /\ [z EXCEPT !.status = e].met = z.met /\ [z EXCEPT !.status = e].status = e
  BY DEF LoopRecords
<1>7. ~OutOfRuns(x) => n < 4
  BY <1>2, <1>5 DEF OutOfRuns, MaxLoopRuns, MaxNudges
<1>8. n = u.runs + 1
  BY DEF n
<1>9. gain = IF Failed(r) THEN {} ELSE IF r.all THEN Criteria ELSE r.matched
  BY DEF gain
<1> DEFINE y == RecordRun(u, r)
<1>10. /\ y \in LoopRecords /\ y.runs = u.runs + 1 /\ y.met \in {u.met, u.met \cup gain}
       /\ y.status = "done" => y.met = Criteria \/ u.status = "done"
       /\ y.status = "running" => y.runs < 4
       /\ u.status = "running" => y.status \in {"running", "done", "blocked"}
  <2>1. CASE Failed(r) /\ v.streak >= 3
    <3>1. y = [v EXCEPT !.status = "blocked"] BY <1>4, <2>1
    <3> HIDE DEF y
    <3> QED BY <1>5, <1>6, <1>8, <3>1
  <2>2. CASE ~(Failed(r) /\ v.streak >= 3) /\ w.met = Criteria /\ ~Failed(r)
    <3>1. y = [w EXCEPT !.status = "done"] BY <1>4, <2>2
    <3> HIDE DEF y
    <3> QED BY <1>3, <1>5, <1>6, <1>8, <2>2, <3>1
  <2>3. CASE ~(Failed(r) /\ v.streak >= 3) /\ ~(w.met = Criteria /\ ~Failed(r)) /\ OutOfRuns(x)
    <3>1. y = [x EXCEPT !.status = "blocked"] BY <1>4, <2>3
    <3> HIDE DEF y
    <3> QED BY <1>3, <1>5, <1>6, <1>8, <3>1
  <2>4. CASE ~(Failed(r) /\ v.streak >= 3) /\ ~(w.met = Criteria /\ ~Failed(r)) /\ ~OutOfRuns(x)
    <3>1. y = x BY <1>4, <2>4
    <3> HIDE DEF y
    <3> QED BY <1>3, <1>5, <1>7, <1>8, <2>4, <3>1
  <2> QED BY <2>1, <2>2, <2>3, <2>4
<1> QED BY <1>3, <1>9, <1>10

-----------------------------------------------------------------------------
(* What several steps do *)

\* A turn or a loop that fails ends with its session as it is.
LEMMA SendErrorFacts ==
  ASSUME TermInv, SendError, turn.at \notin {"none", "sent"}, UNCHANGED <<script, founded, entered, busy>>
  PROVE  /\ turn' \in TurnRecords /\ turn'.at = "sent" /\ turn'.no = turn.no /\ turn'.kind = turn.kind
         /\ turn'.sess = turn.sess /\ ~turn'.ok /\ loopFile' \in LoopRecords /\ UlwInv'
<1>1. turn \in TurnRecords /\ turn.sess \in SessRecords /\ turn.loop \in LoopRecords /\ loopFile \in LoopRecords
  BY DEF TermInv, Types, TurnRecords
<1> DEFINE l == Blocked(turn.loop)
<1>2. /\ l \in LoopRecords /\ l.met = turn.loop.met /\ l.runs = turn.loop.runs
      /\ l.status # "done" \/ l.status = turn.loop.status
      /\ turn.loop = NoLoop => l = NoLoop
  BY <1>1, BlockedFacts
<1>3. Send(turn.sess, FALSE, l) /\ loopFile' = IF InLoop THEN l ELSE loopFile
  BY DEF SendError
<1> HIDE DEF l
<1>4. /\ turn' \in TurnRecords /\ turn'.at = "sent" /\ turn'.no = turn.no /\ turn'.kind = turn.kind
      /\ turn'.sess = turn.sess /\ ~turn'.ok /\ turn'.loop = l
  BY <1>1, <1>2, <1>3, SendFacts DEF TermInv
<1>5. loopFile' \in LoopRecords /\ InLoop' = InLoop
  BY <1>1, <1>2, <1>3, <1>4 DEF InLoop
<1>6. Founded(l, founded') /\ Founded(loopFile', founded')
  BY <1>2, <1>3, <1>4, <1>5 DEF TermInv, UlwInv, Founded
<1>7. UlwInv'
  <2>1. entered \in Nat /\ turn.loop.runs \in Nat
    BY <1>1 DEF TermInv, Types, LoopRecords
  <2>2. Founded(turn'.loop, founded')
    BY <1>4, <1>6 DEF Founded
  <2> QED BY <1>2, <1>3, <1>4, <1>5, <1>6, <2>1, <2>2 DEF TermInv, UlwInv
<1> QED BY <1>4, <1>5, <1>7

\* The turn writes what it has of the conversation, and messages of its own.
LEMMA StoreFacts ==
  ASSUME TermInv, busy, NEW s \in SessRecords, StoreGrows(s, turn'.sess), Secured(s, kept), InStore(s, rows),
         turn.sess.msgs \subseteq s.msgs, s.msgs \subseteq turn.sess.msgs \cup {turn.no},
         s.msgs \subseteq turn'.sess.msgs \cup kept',
         turn'.sess.msgs \subseteq s.msgs, recorded' \subseteq recorded \cup s.msgs, turn'.no = turn.no,
         UNCHANGED <<sess, abandoned, busy>>
  PROVE  MessageInv'
<1>1. /\ kept \subseteq kept' /\ kept' \subseteq kept \cup s.msgs /\ Secured(turn'.sess, kept') /\ InStore(turn'.sess, rows')
      /\ \A i \in Sessions' : rows'[i] \subseteq kept'
  BY DEF StoreGrows, TermInv, MessageInv
<1>2. Secured(sess', kept')
  BY <1>1 DEF TermInv, MessageInv, Secured
<1>3. turn.no \in Nat /\ turn.no > 0
  BY DEF TermInv, Types, TurnRecords, TurnInv
<1>4. sess'.msgs \cup turn'.sess.msgs \cup kept' \cup recorded' \subseteq 1 .. turn'.no
  BY <1>1, <1>3 DEF TermInv, MessageInv
<1>5. recorded' \subseteq sess'.msgs \cup turn'.sess.msgs \cup kept' \cup abandoned'
  BY <1>1 DEF TermInv, MessageInv
<1>6. sess'.msgs \subseteq turn'.sess.msgs \cup kept'
  BY <1>1 DEF TermInv, MessageInv
<1> QED BY <1>1, <1>2, <1>4, <1>5, <1>6 DEF MessageInv

\* The program ends.
LEMMA CloseFacts ==
  ASSUME TermInv, ~busy, NEW ok \in BOOLEAN, Close(sess, ok), UNCHANGED <<turn, busy, recorded>>
  PROVE  sess' \in SessRecords /\ IsFiniteSet(Sessions)' /\ Sessions' \subseteq Nat /\ ui' = "closed" /\ MessageInv'
<1>1. sess \in SessRecords /\ Types
  BY DEF TermInv, Types
<1>2. StoreGrows(sess, sess') /\ sess'.msgs = sess.msgs /\ ui' = "closed"
  BY <1>1, SaveFacts DEF Close
<1>3. turn.sess = Empty /\ abandoned \subseteq abandoned'
  BY DEF TermInv, TurnInv, Close
<1>4. /\ kept \subseteq kept' /\ kept' \subseteq kept \cup sess.msgs /\ Secured(sess', kept') /\ InStore(sess', rows')
      /\ \A i \in Sessions' : rows'[i] \subseteq kept'
  BY <1>2 DEF StoreGrows, TermInv, MessageInv
<1>5. Secured(turn'.sess, kept')
  BY <1>4 DEF TermInv, MessageInv, Secured
<1>6. MessageInv'
  BY <1>2, <1>3, <1>4, <1>5 DEF TermInv, MessageInv
<1> QED BY <1>2, <1>6 DEF StoreGrows

-----------------------------------------------------------------------------
(* One lemma per step: it keeps every part of the invariant *)

USE DEF uiVars, sharedVars, turnVars, diskVars, histVars, loopHist

LEMMA ClearShownStep ==
  ASSUME TermInv, ClearShown
  PROVE  TermInv'
<1>1. Sessions' = Sessions
  BY DEF ClearShown, Sessions
<1>2. turn \in TurnRecords /\ turn.no \in Nat /\ run \in RunRecords /\ run.no \in Nat
  BY DEF TermInv, Types, TurnRecords, RunRecords
<1>3. Moves(IF turn.at = "spawn" THEN "prepare" ELSE turn.at)
  BY <1>2, MoveFacts DEF TermInv, ClearShown, TurnPlaces, TurnRecords
<1>4. NoState \in ShownRecords /\ NoState.turn = 0
  BY Starts
<1>5. Types'
  BY <1>1, <1>3, <1>4 DEF TermInv, ClearShown, Types, Moves, Uis
<1>6. TurnInv'
  BY DEF TermInv, ClearShown, TurnInv, Moves
<1>7. EscInv'
  BY DEF TermInv, ClearShown, EscInv, Moves
<1>8. MessageInv'
  BY MessagesStay DEF ClearShown
<1>9. UlwInv'
  BY DEF TermInv, ClearShown, UlwInv, Moves, InLoop
<1>10. FollowerInv'
  BY <1>1, <1>2, <1>3, <1>4 DEF TermInv, ClearShown, FollowerInv, Moves, Events
<1>11. DisplayInv'
  BY <1>3, <1>4 DEF TermInv, ClearShown, DisplayInv, Moves
<1> QED BY <1>5, <1>6, <1>7, <1>8, <1>9, <1>10, <1>11 DEF TermInv

LEMMA PressEscStep ==
  ASSUME TermInv, PressEsc
  PROVE  TermInv'
<1>1. Sessions' = Sessions
  BY DEF PressEsc, Sessions
<1>2. Types'
  BY <1>1 DEF TermInv, PressEsc, Types, Uis
<1>3. TurnInv'
  BY DEF TermInv, PressEsc, TurnInv
<1>4. EscInv'
  BY DEF TermInv, PressEsc, EscInv
<1>5. MessageInv'
  BY MessagesStay DEF PressEsc
<1>6. UlwInv'
  BY DEF TermInv, PressEsc, UlwInv, InLoop
<1>7. FollowerInv'
  BY DEF TermInv, PressEsc, FollowerInv, Events
<1>8. DisplayInv'
  BY DEF TermInv, PressEsc, DisplayInv, Listening
<1> QED BY <1>2, <1>3, <1>4, <1>5, <1>6, <1>7, <1>8 DEF TermInv

LEMMA CancelActiveStep ==
  ASSUME TermInv, CancelActive
  PROVE  TermInv'
<1>1. Sessions' = Sessions
  BY DEF CancelActive, Sessions
<1>2. turn \in TurnRecords /\ turn.no \in Nat /\ run \in RunRecords /\ run.no \in Nat
  BY DEF TermInv, Types, TurnRecords, RunRecords
<1>3. run' \in RunRecords /\ run'.no = run.no /\ run'.state = run.state /\ (run'.cancelled <=> run.cancelled \/ active)
  BY <1>2 DEF TermInv, CancelActive, RunRecords, Types
<1>4. Types'
  BY <1>1, <1>3 DEF TermInv, CancelActive, Types, Uis
<1>5. TurnInv'
  BY DEF TermInv, CancelActive, TurnInv
<1>6. EscInv'
  BY <1>3 DEF TermInv, CancelActive, EscInv
<1>7. MessageInv'
  BY MessagesStay DEF CancelActive
<1>8. UlwInv'
  BY DEF TermInv, CancelActive, UlwInv, InLoop
<1>9. FollowerInv'
  BY DEF TermInv, CancelActive, FollowerInv, Events
<1>10. DisplayInv'
  BY DEF TermInv, CancelActive, DisplayInv, EscInv
<1> QED BY <1>4, <1>5, <1>6, <1>7, <1>8, <1>9, <1>10 DEF TermInv

LEMMA ShowQuestionStep ==
  ASSUME TermInv, ShowQuestion
  PROVE  TermInv'
<1>1. Sessions' = Sessions
  BY DEF ShowQuestion, Sessions
<1>2. Types'
  BY <1>1 DEF TermInv, ShowQuestion, Types, Uis
<1>3. TurnInv'
  BY DEF TermInv, ShowQuestion, TurnInv
<1>4. EscInv'
  BY DEF TermInv, ShowQuestion, EscInv
<1>5. MessageInv'
  BY MessagesStay DEF ShowQuestion
<1>6. UlwInv'
  BY DEF TermInv, ShowQuestion, UlwInv, InLoop
<1>7. FollowerInv'
  BY DEF TermInv, ShowQuestion, FollowerInv, Events
<1>8. DisplayInv'
  BY DEF TermInv, ShowQuestion, DisplayInv
<1> QED BY <1>2, <1>3, <1>4, <1>5, <1>6, <1>7, <1>8 DEF TermInv

LEMMA AnswerQuestionStep ==
  ASSUME TermInv, AnswerQuestion
  PROVE  TermInv'
<1>1. Sessions' = Sessions
  BY DEF AnswerQuestion, Sessions
<1>2. IF question = "live" THEN Moves("working") ELSE turn' = turn
  BY MoveFacts DEF TermInv, AnswerQuestion, TurnPlaces
<1>3. Types'
  BY <1>1, <1>2 DEF TermInv, AnswerQuestion, Types, Moves, Uis
<1>4. TurnInv'
  BY DEF TermInv, AnswerQuestion, TurnInv, Moves
<1>5. EscInv'
  BY DEF TermInv, AnswerQuestion, EscInv, Moves
<1>6. MessageInv'
  BY MessagesStay DEF AnswerQuestion
<1>7. UlwInv'
  BY DEF TermInv, AnswerQuestion, Types, TurnInv, UlwInv, InLoop, Moves
<1>8. FollowerInv'
  BY DEF TermInv, AnswerQuestion, FollowerInv, Moves, Events
<1>9. DisplayInv'
  BY DEF TermInv, AnswerQuestion, DisplayInv, Moves
<1> QED BY <1>3, <1>4, <1>5, <1>6, <1>7, <1>8, <1>9 DEF TermInv

LEMMA QuitLaterStep ==
  ASSUME TermInv, QuitLater
  PROVE  TermInv'
<1>1. Sessions' = Sessions
  BY DEF QuitLater, Sessions
<1>2. Types'
  BY <1>1 DEF TermInv, QuitLater, Types, Uis
<1>3. TurnInv'
  BY DEF TermInv, QuitLater, TurnInv
<1>4. EscInv'
  BY DEF TermInv, QuitLater, EscInv
<1>5. MessageInv'
  BY MessagesStay DEF QuitLater
<1>6. UlwInv'
  BY DEF TermInv, QuitLater, UlwInv, InLoop
<1>7. FollowerInv'
  BY DEF TermInv, QuitLater, FollowerInv, Events
<1>8. DisplayInv'
  BY DEF TermInv, QuitLater, DisplayInv
<1> QED BY <1>2, <1>3, <1>4, <1>5, <1>6, <1>7, <1>8 DEF TermInv

LEMMA ApplyLiveStep ==
  ASSUME TermInv, ApplyLive
  PROVE  TermInv'
<1>1. Sessions' = Sessions
  BY DEF ApplyLive, Sessions
<1>2. turn \in TurnRecords /\ turn.no \in Nat /\ run \in RunRecords /\ run.no \in Nat
  BY DEF TermInv, Types, TurnRecords, RunRecords
<1>3. shown' \in ShownRecords /\ shown'.turn \in {shown.turn, turn.no} /\ live' \in Seq({"chunk", "answer"})
  BY <1>2 DEF TermInv, Types, ApplyLive, ShownRecords, RunRecords, States
<1>4. Types'
  BY <1>1, <1>3 DEF TermInv, ApplyLive, Types, Uis
<1>5. TurnInv'
  BY DEF TermInv, ApplyLive, TurnInv
<1>6. EscInv'
  BY DEF TermInv, ApplyLive, EscInv
<1>7. MessageInv'
  BY MessagesStay DEF ApplyLive
<1>8. UlwInv'
  BY DEF TermInv, ApplyLive, UlwInv, InLoop
<1>9. FollowerInv'
  BY <1>1, <1>2, <1>3 DEF TermInv, ApplyLive, Types, TurnInv, FollowerInv, Events, FollowerRecords
<1>10. DisplayInv'
  BY DEF TermInv, ApplyLive, Types, TurnInv, FollowerInv, DisplayInv
<1> QED BY <1>4, <1>5, <1>6, <1>7, <1>8, <1>9, <1>10 DEF TermInv

LEMMA FollowerLocksStep ==
  ASSUME TermInv, NEW r \in DOMAIN followers, FollowerLocks(r)
  PROVE  TermInv'
<1>1. Sessions' = Sessions
  BY DEF FollowerLocks, Sessions
<1>2. DOMAIN followers' \subseteq DOMAIN followers /\ \A q \in DOMAIN followers' : followers'[q] \in FollowerRecords
      /\ followers'[q].turn = followers[q].turn /\ followers'[q].seen = followers[q].seen
  BY TakenFacts DEF TermInv, FollowerInv, FollowerLocks
<1>3. Types'
  BY <1>1, <1>2 DEF TermInv, FollowerLocks, Types, FollowerInv, Uis
<1>4. TurnInv'
  BY DEF TermInv, FollowerLocks, TurnInv
<1>5. EscInv'
  BY DEF TermInv, FollowerLocks, EscInv
<1>6. MessageInv'
  BY MessagesStay DEF FollowerLocks
<1>7. UlwInv'
  BY DEF TermInv, FollowerLocks, UlwInv, InLoop
<1>8. FollowerInv'
  BY <1>2 DEF TermInv, FollowerLocks, FollowerInv, Current, Events
<1>9. DisplayInv'
  BY <1>2 DEF TermInv, FollowerLocks, Types, TurnInv, FollowerInv, DisplayInv, Current
<1> QED BY <1>3, <1>4, <1>5, <1>6, <1>7, <1>8, <1>9 DEF TermInv

LEMMA FollowerShowsStep ==
  ASSUME TermInv, NEW r \in DOMAIN followers, FollowerShows(r)
  PROVE  TermInv'
<1>1. Sessions' = Sessions
  BY DEF FollowerShows, Sessions
<1>2. turn \in TurnRecords /\ turn.no \in Nat /\ run \in RunRecords /\ run.no \in Nat
  BY DEF TermInv, Types, TurnRecords, RunRecords
<1>3. /\ DOMAIN followers' \subseteq DOMAIN followers
      /\ \A q \in DOMAIN followers' : followers'[q] \in FollowerRecords /\ followers'[q].turn = followers[q].turn
         /\ followers'[q].seen = followers[q].seen
      /\ Head(Events(r)) \in States /\ r # 0 /\ followers[r].turn \in Nat
  BY TakenFacts DEF TermInv, FollowerInv, FollowerShows, FollowerRecords
<1>4. shown' \in ShownRecords /\ shown'.turn = followers[r].turn
  BY <1>1, <1>2, <1>3 DEF ShownRecords, FollowerShows
<1>5. Types'
  BY <1>1, <1>3, <1>4 DEF TermInv, FollowerShows, Types, Uis
<1>6. TurnInv'
  BY DEF TermInv, FollowerShows, TurnInv
<1>7. EscInv'
  BY DEF TermInv, FollowerShows, EscInv
<1>8. MessageInv'
  BY MessagesStay DEF FollowerShows
<1>9. UlwInv'
  BY DEF TermInv, FollowerShows, UlwInv, InLoop
<1>10. FollowerInv'
  BY <1>3, <1>4 DEF TermInv, FollowerShows, FollowerInv, Events
<1>11. DisplayInv'
  BY <1>3, <1>4 DEF TermInv, FollowerShows, DisplayInv
<1> QED BY <1>5, <1>6, <1>7, <1>8, <1>9, <1>10, <1>11 DEF TermInv

LEMMA StartLoopStep ==
  ASSUME TermInv, StartLoop
  PROVE  TermInv'
<1>1. Sessions' = Sessions
  BY DEF StartLoop, Sessions
<1>2. turn \in TurnRecords /\ turn.no \in Nat /\ run \in RunRecords /\ run.no \in Nat
  BY DEF TermInv, Types, TurnRecords, RunRecords
<1>3. turn' \in TurnRecords /\ turn'.loop = UlwStart /\ turn'.at = turn.at /\ turn'.sess = turn.sess
      /\ turn'.kind = turn.kind /\ turn'.no = turn.no /\ turn'.ok = turn.ok
  BY <1>2, Starts DEF StartLoop, TurnRecords
<1>4. UlwStart \in LoopRecords /\ UlwStart.status = "running" /\ UlwStart.met = {} /\ UlwStart.runs = 0
  BY Starts
<1>5. Types'
  BY <1>1, <1>3, <1>4 DEF TermInv, StartLoop, Types, Uis
<1>6. TurnInv'
  BY DEF TermInv, StartLoop, TurnInv
<1>7. EscInv'
  BY DEF TermInv, StartLoop, EscInv
<1>8. MessageInv'
  BY MessagesStay DEF StartLoop
<1>9. UlwInv'
  BY <1>3, <1>4 DEF TermInv, StartLoop, Types, TurnInv, UlwInv, InLoop, Founded
<1>10. FollowerInv'
  BY DEF TermInv, StartLoop, FollowerInv, Events
<1>11. DisplayInv'
  BY DEF TermInv, StartLoop, DisplayInv
<1> QED BY <1>5, <1>6, <1>7, <1>8, <1>9, <1>10, <1>11 DEF TermInv

LEMMA InstallStep ==
  ASSUME TermInv, Install
  PROVE  TermInv'
<1>1. Sessions' = Sessions
  BY DEF Install, Sessions
<1>2. turn \in TurnRecords /\ turn.no \in Nat /\ run \in RunRecords /\ run.no \in Nat
  BY DEF TermInv, Types, TurnRecords, RunRecords
<1>3. Moves("observe")
  BY MoveFacts DEF TermInv, Install, TurnPlaces
<1>4. run' \in RunRecords /\ run'.no = run.no + 1 /\ run'.cancelled = cancelReq
  BY <1>2 DEF TermInv, Install, InstallsCancelled, RunRecords, Types, States
<1>5. Types'
  BY <1>1, <1>3, <1>4 DEF TermInv, Install, Types, Moves, Uis
<1>6. TurnInv'
  BY DEF TermInv, Install, TurnInv, Moves
<1>7. EscInv'
  BY <1>3, <1>4 DEF TermInv, Install, Types, TurnInv, EscInv, Moves
<1>8. MessageInv'
  BY MessagesStay DEF Install
<1>9. UlwInv'
  BY DEF TermInv, Install, UlwInv, Moves, InLoop
<1>10. FollowerInv'
  BY <1>1, <1>2, <1>3, <1>4 DEF TermInv, Install, FollowerInv, Moves, Events
<1>11. DisplayInv'
  BY DEF TermInv, Install, DisplayInv, Moves
<1> QED BY <1>5, <1>6, <1>7, <1>8, <1>9, <1>10, <1>11 DEF TermInv

LEMMA ObserveStep ==
  ASSUME TermInv, Observe
  PROVE  TermInv'
<1>1. Sessions' = Sessions
  BY DEF Observe, Sessions
<1>2. turn \in TurnRecords /\ turn.no \in Nat /\ run \in RunRecords /\ run.no \in Nat
  BY DEF TermInv, Types, TurnRecords, RunRecords
<1>3. Moves("show")
  BY MoveFacts DEF TermInv, Observe, TurnPlaces
<1>4. /\ DOMAIN followers' = DOMAIN followers \cup {run.no} /\ run.no \notin DOMAIN followers
      /\ followers'[run.no] = [turn |-> turn.no, seen |-> epoch + 1, events |-> <<>>]
      /\ \A q \in DOMAIN followers : followers'[q] = followers[q]
  BY DEF TermInv, Observe, FollowerInv
<1>5. run.no > 0 /\ followers'[run.no] \in FollowerRecords
  BY <1>1, <1>2, <1>3, <1>4 DEF TermInv, Types, FollowerInv, FollowerRecords, Observe
<1>6. Types'
  BY <1>1, <1>3, <1>4, <1>5 DEF TermInv, Observe, Types, Moves, Uis
<1>7. TurnInv'
  BY DEF TermInv, Observe, TurnInv, Moves
<1>8. EscInv'
  BY DEF TermInv, Observe, EscInv, Moves
<1>9. MessageInv'
  BY MessagesStay DEF Observe
<1>10. UlwInv'
  BY DEF TermInv, Observe, UlwInv, Moves, InLoop
<1>11. FollowerInv'
  BY <1>1, <1>2, <1>3, <1>4, <1>5 DEF TermInv, Observe, Types, TurnInv, FollowerInv, Events, Moves, FollowerRecords
<1>12. DisplayInv'
  BY DEF TermInv, Observe, Types, TurnInv, FollowerInv, DisplayInv, Moves
<1> QED BY <1>6, <1>7, <1>8, <1>9, <1>10, <1>11, <1>12 DEF TermInv

LEMMA ShowStep ==
  ASSUME TermInv, Show
  PROVE  TermInv'
<1>1. Sessions' = Sessions
  BY DEF Show, Sessions
<1>2. turn \in TurnRecords /\ turn.no \in Nat /\ run \in RunRecords /\ run.no \in Nat
  BY DEF TermInv, Types, TurnRecords, RunRecords
<1>3. Moves("working")
  BY MoveFacts DEF TermInv, Show, TurnPlaces
<1>4. shown' \in ShownRecords /\ shown'.turn \in {shown.turn, turn.no}
  BY <1>2 DEF TermInv, Types, Show, ShownRecords, RunRecords
<1>5. Types'
  BY <1>1, <1>3, <1>4 DEF TermInv, Show, Types, Moves, Uis
<1>6. TurnInv'
  BY DEF TermInv, Show, TurnInv, Moves
<1>7. EscInv'
  BY DEF TermInv, Show, EscInv, Moves
<1>8. MessageInv'
  BY MessagesStay DEF Show
<1>9. UlwInv'
  BY DEF TermInv, Show, UlwInv, Moves, InLoop
<1>10. FollowerInv'
  BY <1>1, <1>2, <1>3, <1>4 DEF TermInv, Show, FollowerInv, Moves, Events
<1>11. DisplayInv'
  BY DEF TermInv, Show, Types, TurnInv, FollowerInv, DisplayInv, Moves
<1> QED BY <1>5, <1>6, <1>7, <1>8, <1>9, <1>10, <1>11 DEF TermInv

LEMMA BeginRunStep ==
  ASSUME TermInv, BeginRun
  PROVE  TermInv'
<1>1. Sessions' = Sessions
  BY DEF BeginRun, Sessions
<1>2. /\ run' \in RunRecords /\ run'.no = run.no /\ run'.cancelled = run.cancelled
      /\ DOMAIN followers' = DOMAIN followers
      /\ \A r \in DOMAIN followers : /\ followers'[r] \in FollowerRecords /\ followers'[r].turn = followers[r].turn
                                     /\ followers'[r].seen = followers[r].seen
                                     /\ followers'[r].events # <<>> \/ followers[r].events = <<>>
  BY PublishFacts DEF BeginRun, States
<1>3. Types'
  BY <1>1, <1>2 DEF TermInv, BeginRun, Types, Uis
<1>4. TurnInv'
  BY DEF TermInv, BeginRun, TurnInv
<1>5. EscInv'
  BY <1>2 DEF TermInv, BeginRun, EscInv
<1>6. MessageInv'
  BY MessagesStay DEF BeginRun
<1>7. UlwInv'
  BY DEF TermInv, BeginRun, UlwInv, InLoop
<1>8. FollowerInv'
  BY <1>2 DEF TermInv, BeginRun, FollowerInv, Events
<1>9. DisplayInv'
  BY <1>2 DEF TermInv, BeginRun, Types, TurnInv, FollowerInv, DisplayInv
<1> QED BY <1>3, <1>4, <1>5, <1>6, <1>7, <1>8, <1>9 DEF TermInv

LEMMA EmitStep ==
  ASSUME TermInv, NEW event \in script.events, Emit(event)
  PROVE  TermInv'
<1>1. Sessions' = Sessions
  BY DEF Emit, Sessions
<1>2. turn' = turn \/ Moves("answered")
  BY MoveFacts DEF TermInv, Emit, TurnPlaces
<1>3. event \in {"chunk", "answer"} /\ live' \in Seq({"chunk", "answer"})
  BY DEF TermInv, Types, Emit, ScriptType
<1>4. Types'
  BY <1>1, <1>2, <1>3 DEF TermInv, Emit, Types, Moves, Uis
<1>5. TurnInv'
  BY DEF TermInv, Emit, TurnInv, Moves
<1>6. EscInv'
  BY DEF TermInv, Emit, EscInv, Moves
<1>7. MessageInv'
  BY MessagesStay DEF Emit
<1>8. UlwInv'
  BY DEF TermInv, Emit, UlwInv, Moves, InLoop
<1>9. FollowerInv'
  BY DEF TermInv, Emit, FollowerInv, Moves, Events
<1>10. DisplayInv'
  BY DEF TermInv, Emit, DisplayInv, Moves
<1> QED BY <1>4, <1>5, <1>6, <1>7, <1>8, <1>9, <1>10 DEF TermInv

LEMMA AskStep ==
  ASSUME TermInv, Ask
  PROVE  TermInv'
<1>1. Sessions' = Sessions
  BY DEF Ask, Sessions
<1>2. Moves("asking")
  BY MoveFacts DEF TermInv, Ask, TurnPlaces
<1>3. Types'
  BY <1>1, <1>2 DEF TermInv, Ask, Types, Moves, Uis
<1>4. TurnInv'
  BY DEF TermInv, Ask, TurnInv, Moves
<1>5. EscInv'
  BY DEF TermInv, Ask, EscInv, Moves
<1>6. MessageInv'
  BY MessagesStay DEF Ask
<1>7. UlwInv'
  BY DEF TermInv, Ask, UlwInv, Moves, InLoop
<1>8. FollowerInv'
  BY DEF TermInv, Ask, FollowerInv, Moves, Events
<1>9. DisplayInv'
  BY DEF TermInv, Ask, DisplayInv, Moves
<1> QED BY <1>3, <1>4, <1>5, <1>6, <1>7, <1>8, <1>9 DEF TermInv

LEMMA NoLongerWaitsStep ==
  ASSUME TermInv, NoLongerWaits
  PROVE  TermInv'
<1>1. Sessions' = Sessions
  BY DEF NoLongerWaits, Sessions
<1>2. Moves("working")
  BY MoveFacts DEF TermInv, NoLongerWaits, TurnPlaces
<1>3. Types'
  BY <1>1, <1>2 DEF TermInv, NoLongerWaits, Types, Moves, Uis
<1>4. TurnInv'
  BY DEF TermInv, NoLongerWaits, TurnInv, Moves
<1>5. EscInv'
  BY DEF TermInv, NoLongerWaits, EscInv, Moves
<1>6. MessageInv'
  BY MessagesStay DEF NoLongerWaits
<1>7. UlwInv'
  BY DEF TermInv, NoLongerWaits, UlwInv, Moves, InLoop
<1>8. FollowerInv'
  BY DEF TermInv, NoLongerWaits, FollowerInv, Moves, Events
<1>9. DisplayInv'
  BY DEF TermInv, NoLongerWaits, DisplayInv, Moves
<1> QED BY <1>3, <1>4, <1>5, <1>6, <1>7, <1>8, <1>9 DEF TermInv

\* A turn starts while none runs.
LEMMA StartsTurn ==
  ASSUME TermInv, ~busy, NEW kind \in script.kinds, StartTurn(kind, sess),
         shown' \in ShownRecords, shown'.turn <= turn.no,
         queue' \in Seq(Nat), queue' # <<>> => "turn" \in script.kinds,
         entered' \in Nat, entered' <= script.prompts,
         entered <= entered', kind \in {"ulw", "resume"} => entered' = entered + 1,
         UNCHANGED <<script, quitAfter, question, sess, holder, asked, live, followers, rows, kept, loopFile, final,
                     recorded, abandoned, founded, lastCheck>>
  PROVE  TermInv'
<1>1. kind \in Kinds
  BY DEF TermInv, Types, ScriptType, Kinds
<1>2. sess \in SessRecords /\ Types /\ run.no \in Nat /\ turn.no \in Nat /\ turn \in TurnRecords
  BY DEF TermInv, Types, RunRecords, TurnRecords
<1>3. /\ turn' \in TurnRecords /\ turn'.at = "spawn" /\ turn'.no = turn.no + 1 /\ turn'.kind = kind
      /\ turn'.sess = sess /\ turn'.ok /\ turn'.loop = NoLoop
      /\ run' \in RunRecords /\ run'.no = run.no /\ run'.state = "none" /\ ~run'.cancelled
  BY <1>1, <1>2, StartFacts
<1>4. /\ busy' = TRUE /\ ui' = "clear" /\ epoch' = epoch + 1 /\ pressed' = FALSE /\ Sessions' = Sessions
      /\ final.turn \in Nat /\ Empty.msgs = {}
  BY Starts DEF StartTurn, Sessions, TermInv, Types, ShownRecords, Unknown
<1>5. cancelReq' = FALSE /\ active' = FALSE
  BY DEF StartTurn, TermInv, EscInv, Types
<1>6. Types'
  <2>1. /\ script' \in ScriptType /\ ui' \in Uis /\ busy' \in BOOLEAN /\ quitAfter' \in BOOLEAN /\ pressed' \in BOOLEAN
        /\ cancelReq' \in BOOLEAN /\ active' \in BOOLEAN /\ epoch' \in Nat
    <3>1. script' \in ScriptType /\ quitAfter' \in BOOLEAN
      BY <1>2 DEF Types
    <3>2. ui' \in Uis /\ epoch' \in Nat
      BY <1>2, <1>4 DEF Uis, Types
    <3> QED BY <1>4, <1>5, <3>1, <3>2
  <2>2. /\ live' \in Seq({"chunk", "answer"})
        /\ question' \in {"none", "live", "dead"} /\ asked' \in {"none", "live", "dead"}
        /\ final' \in ShownRecords \cup {Unknown} /\ holder' \in Nat
    BY <1>2 DEF Types
  <2>3. /\ IsFiniteSet(Sessions)' /\ Sessions' \subseteq Nat
        /\ loopFile' \in LoopRecords /\ founded' \subseteq Criteria /\ lastCheck' \in {"skipped", "ok"} \cup Failures
    BY <1>2, <1>4 DEF Types
  <2> QED BY <1>2, <1>3, <2>1, <2>2, <2>3 DEF Types
<1>7. TurnInv'
  BY <1>1, <1>2, <1>3, <1>4 DEF TermInv, TurnInv, Types, Kinds
<1>8. EscInv'
  BY <1>3, <1>4, <1>5 DEF EscInv
<1>9. MessageInv'
  <2>1. /\ kept' = kept /\ rows' = rows /\ sess' = sess /\ recorded' = recorded /\ abandoned' = abandoned
        /\ turn.sess.msgs = {} /\ busy' /\ turn'.sess = sess /\ turn'.no = turn.no + 1 /\ Sessions' = Sessions
    BY <1>2, <1>3, <1>4 DEF TermInv, TurnInv
  <2>2. /\ recorded \subseteq sess.msgs \cup kept \cup abandoned
        /\ Secured(sess, kept) /\ \A i \in Sessions : rows[i] \subseteq kept
        /\ InStore(sess, rows) /\ sess.msgs \cup kept \cup recorded \subseteq 1 .. turn.no
    BY <2>1 DEF TermInv, MessageInv
  <2>3. 1 .. turn.no \subseteq 1 .. turn'.no
    BY <1>2, <2>1
  <2> QED BY <2>1, <2>2, <2>3 DEF MessageInv
<1>10. UlwInv'
  <2>1. NoLoop.met = {} /\ NoLoop.runs = 0 /\ NoLoop.status = "none"
    BY Starts
  <2>2. InLoop' <=> kind \in {"ulw", "resume"}
    BY <1>3 DEF InLoop
  <2>3. entered \in Nat /\ loopFile.runs \in Nat
    BY DEF TermInv, Types, LoopRecords
  <2>4. /\ Founded(loopFile', founded') /\ loopFile.runs <= 3 + entered /\ entered' \in Nat /\ entered <= entered'
        /\ loopFile' = loopFile /\ script' = script /\ entered' <= script.prompts
        /\ kind \in {"ulw", "resume"} => entered' = entered + 1
    BY DEF TermInv, UlwInv
  <2>5. Founded(turn'.loop, founded')
    BY <1>3, <2>1 DEF Founded
  <2>6. entered' > 0 \/ ~InLoop'
    BY <2>2, <2>3, <2>4
  <2>7. InLoop' => turn'.loop.runs <= 2 + entered' /\ loopFile'.runs <= 2 + entered'
    <3>1. entered' \in Nat /\ entered \in Nat /\ turn'.loop.runs = 0 /\ loopFile'.runs = loopFile.runs
      BY <1>3, <2>1, <2>3, <2>4
    <3>2. InLoop' => entered' = entered + 1
      BY <2>2, <2>4
    <3>3. loopFile.runs <= 3 + entered
      BY <2>4
    <3>4. turn'.loop.runs <= 2 + entered'
      <4>1. \A e \in Nat : 0 <= 2 + e
        OBVIOUS
      <4> QED BY <3>1, <4>1, Zenon
    <3>5. InLoop' => loopFile'.runs <= 2 + entered'
      BY <2>3, <3>1, <3>2, <3>3
    <3> QED BY <3>4, <3>5
  <2>8. loopFile'.runs <= 3 + entered' /\ entered' <= script'.prompts
    BY <2>3, <2>4
  <2> QED BY <1>3, <2>4, <2>5, <2>6, <2>7, <2>8 DEF UlwInv
<1>11. FollowerInv'
  BY <1>2, <1>3, <1>4 DEF TermInv, Types, FollowerInv, FollowerRecords, ShownRecords, Events
<1>12. DisplayInv'
  BY <1>2, <1>3, <1>4 DEF TermInv, Types, FollowerInv, FollowerRecords, DisplayInv
<1> QED BY <1>6, <1>7, <1>8, <1>9, <1>10, <1>11, <1>12 DEF TermInv

LEMMA EnterStep ==
  ASSUME TermInv, NEW kind \in script.kinds, Enter(kind)
  PROVE  TermInv'
<1>1. entered \in Nat /\ script.prompts \in Nat /\ entered' = entered + 1 /\ entered' <= script.prompts
  BY DEF TermInv, Types, Enter, ScriptType
<1>2. CASE busy
  <2>1. /\ kind = "turn" /\ queue' = Append(queue, entered')
        /\ UNCHANGED <<ui, busy, cancelReq, active, epoch, turn, run, pressed>>
    BY <1>2 DEF Enter
  <2>2. UNCHANGED <<script, quitAfter, question, sess, shown, holder, asked, live, followers, diskVars,
                    final, recorded, abandoned, loopHist>> /\ Sessions' = Sessions
    BY DEF Enter, Sessions
  <2>3. Types'
    BY <1>1, <2>1, <2>2 DEF TermInv, Types
  <2>4. TurnInv'
    BY <2>1, <2>2 DEF TermInv, TurnInv
  <2>5. EscInv'
    BY <2>1, <2>2 DEF TermInv, EscInv
  <2>6. MessageInv'
    BY <2>1, <2>2, MessagesStay
  <2>7. UlwInv'
    <3>1. loopFile.runs \in Nat /\ turn.loop.runs \in Nat
      BY DEF TermInv, Types, LoopRecords, TurnRecords
    <3> QED BY <1>1, <2>1, <2>2, <3>1 DEF TermInv, UlwInv, InLoop
  <2>8. FollowerInv' /\ DisplayInv'
    BY <2>1, <2>2 DEF TermInv, FollowerInv, DisplayInv, Events
  <2> QED BY <2>3, <2>4, <2>5, <2>6, <2>7, <2>8 DEF TermInv
<1>3. CASE ~busy
  <2>1. shown \in ShownRecords /\ shown.turn <= turn.no /\ queue \in Seq(Nat) /\ (queue # <<>> => "turn" \in script.kinds)
    BY DEF TermInv, Types, FollowerInv, TurnInv
  <2> QED BY <1>1, <1>3, <2>1, StartsTurn DEF Enter
<1> QED BY <1>2, <1>3 DEF TermInv, Types

LEMMA NewStep ==
  ASSUME TermInv, New
  PROVE  TermInv'
<1>1. /\ ~busy /\ ui = "loop" /\ sess' = Empty /\ epoch' = epoch + 1 /\ ui' = "clear" /\ final' = NoState
      /\ abandoned' = IF sess.dirty THEN abandoned \cup sess.msgs ELSE abandoned
      /\ UNCHANGED <<script, busy, quitAfter, queue, question, cancelReq, active, shown, holder, asked, live, turn, run,
                     followers, diskVars, entered, pressed, recorded, loopHist>>
  BY DEF New, Listening
<1>2. /\ Empty \in SessRecords /\ Empty.msgs = {} /\ ~Empty.dirty /\ Empty.id = NoSession
      /\ NoState \in ShownRecords /\ NoState.turn = 0 /\ Sessions' = Sessions
  BY <1>1, Starts DEF Sessions
<1>3. Types'
  BY <1>1, <1>2 DEF TermInv, Types, Uis
<1>4. TurnInv' /\ EscInv'
  BY <1>1 DEF TermInv, TurnInv, EscInv
<1>5. MessageInv'
  BY <1>1, <1>2 DEF TermInv, TurnInv, MessageInv, Secured, InStore
<1>6. UlwInv'
  BY <1>1 DEF TermInv, UlwInv, InLoop
<1>7. FollowerInv'
  <2>1. turn.no \in Nat
    BY DEF TermInv, Types, TurnRecords
  <2> QED BY <1>1, <1>2, <2>1 DEF TermInv, Types, FollowerInv, FollowerRecords, Events
<1>8. DisplayInv'
  BY <1>1 DEF TermInv, Types, FollowerInv, FollowerRecords, DisplayInv
<1> QED BY <1>3, <1>4, <1>5, <1>6, <1>7, <1>8 DEF TermInv

LEMMA QuitStep ==
  ASSUME TermInv, Quit
  PROVE  TermInv'
<1>1. /\ ~busy /\ ui = "loop"
      /\ UNCHANGED <<script, busy, quitAfter, queue, question, sharedVars, turnVars, loopFile,
                     entered, pressed, final, recorded, loopHist>>
  BY DEF Quit, Listening
<1>2. PICK ok \in BOOLEAN : Close(sess, ok)
  BY DEF Quit, DbAnswers
<1>3. sess' \in SessRecords /\ IsFiniteSet(Sessions)' /\ Sessions' \subseteq Nat /\ ui' = "closed" /\ MessageInv'
  BY <1>1, <1>2, CloseFacts
<1>4. Types'
  BY <1>1, <1>3 DEF TermInv, Types, Uis
<1>5. TurnInv' /\ EscInv'
  BY <1>1, <1>3 DEF TermInv, TurnInv, EscInv
<1>6. UlwInv'
  BY <1>1 DEF TermInv, UlwInv, InLoop
<1>7. FollowerInv' /\ DisplayInv'
  BY <1>1, <1>3 DEF TermInv, FollowerInv, DisplayInv, Events
<1> QED BY <1>3, <1>4, <1>5, <1>6, <1>7 DEF TermInv

LEMMA FinishTurnStep ==
  ASSUME TermInv, FinishTurn
  PROVE  TermInv'
<1>1. /\ ui = "loop" /\ turn.at = "sent" /\ busy /\ live = <<>> /\ ~busy' /\ ~active' /\ ~cancelReq' /\ ui' = "finish"
      /\ busy' \in BOOLEAN /\ active' \in BOOLEAN /\ cancelReq' \in BOOLEAN
      /\ sess' = turn.sess /\ turn' = [turn EXCEPT !.at = "none", !.sess = Empty]
      /\ UNCHANGED <<script, quitAfter, queue, question, shown, holder, asked, live, run, followers, diskVars,
                     entered, pressed, recorded, abandoned, loopHist>>
  BY DEF TermInv, TurnInv, FinishTurn
<1>2. turn \in TurnRecords /\ turn.no \in Nat /\ turn.sess \in SessRecords /\ run.state \in States /\ epoch \in Nat
      /\ turn.ok \in BOOLEAN
  BY DEF TermInv, Types, TurnRecords, RunRecords
<1>3. /\ Empty \in SessRecords /\ Empty.msgs = {} /\ ~Empty.dirty /\ Empty.id = NoSession
      /\ NoState \in ShownRecords /\ NoState.turn = 0 /\ Sessions' = Sessions
  BY <1>1, Starts DEF Sessions
<1>4. /\ turn' \in TurnRecords /\ turn'.at = "none" /\ turn'.sess = Empty /\ turn'.no = turn.no /\ turn'.kind = turn.kind
      /\ turn'.ok = turn.ok /\ turn'.loop = turn.loop
  <2> "none" \in TurnPlaces BY DEF TurnPlaces
  <2> QED BY <1>1, <1>2, <1>3 DEF TurnRecords
<1>5. IF turn.ok
      THEN epoch' = epoch + 1 /\ final' \in ShownRecords /\ final'.turn <= turn.no /\ final' # Unknown
      ELSE epoch' = epoch /\ final' = Unknown
  <2>1. CASE turn.ok
    <3>1. epoch' = epoch + 1 /\ (final' = NoState \/ final' = [turn |-> turn.no, state |-> run.state])
      BY <2>1 DEF FinishTurn
    <3>2. NoState # Unknown /\ [turn |-> turn.no, state |-> run.state] # Unknown
      BY <1>2 DEF NoState, Unknown, States, EndStates
    <3> QED BY <1>2, <1>3, <2>1, <3>1, <3>2 DEF ShownRecords
  <2>2. CASE ~turn.ok
    BY <2>2 DEF FinishTurn
  <2> QED BY <2>1, <2>2
<1>6. Unknown.turn = 0
  BY DEF Unknown
<1>7. Types'
  BY <1>1, <1>2, <1>3, <1>4, <1>5 DEF TermInv, Types, Uis
<1>8. TurnInv'
  BY <1>1, <1>4 DEF TermInv, TurnInv
<1>9. EscInv'
  BY <1>1 DEF TermInv, EscInv
<1>10. MessageInv'
  BY <1>1, <1>3, <1>4 DEF TermInv, MessageInv, Secured, InStore
<1>11. UlwInv'
  BY <1>1, <1>4 DEF TermInv, UlwInv, InLoop
<1>12. FollowerInv'
  BY <1>1, <1>2, <1>4, <1>5, <1>6 DEF TermInv, Types, FollowerInv, FollowerRecords, Events
<1>13. DisplayInv'
  BY <1>1, <1>2, <1>4, <1>5 DEF TermInv, Types, FollowerInv, FollowerRecords, DisplayInv
<1> QED BY <1>7, <1>8, <1>9, <1>10, <1>11, <1>12, <1>13 DEF TermInv

LEMMA FinishShowsStep ==
  ASSUME TermInv, FinishShows
  PROVE  TermInv'
<1>1. /\ ui = "finish" /\ ~busy /\ shown' = (IF turn.ok THEN final ELSE shown)
      /\ (turn.ok <=> final # Unknown) /\ (turn.ok => holder = 0)
      /\ UNCHANGED <<script, quitAfter, question, holder, asked, live, followers, loopFile, entered, final, recorded,
                     loopHist>>
  BY DEF TermInv, TurnInv, DisplayInv, FinishShows
<1>2. shown' \in ShownRecords /\ shown'.turn <= turn.no
  BY <1>1 DEF TermInv, Types, FollowerInv
<1>3. CASE TakesNext /\ StartTurn("turn", sess) /\ queue' = Tail(queue) /\ UNCHANGED <<sess, rows, kept, abandoned>>
  <2>1. "turn" \in script.kinds /\ queue' \in Seq(Nat) /\ entered \in Nat /\ entered <= script.prompts
    BY <1>3 DEF TakesNext, TermInv, Types, TurnInv, UlwInv
  <2> QED BY <1>1, <1>2, <1>3, <2>1, StartsTurn
<1>4. CASE /\ UNCHANGED <<busy, queue, cancelReq, active, epoch, turn, run, pressed>>
           /\ ui' \in {"closed", "loop"} /\ sess' \in SessRecords
           /\ IsFiniteSet(Sessions)' /\ Sessions' \subseteq Nat /\ MessageInv'
  <2>1. Types'
    BY <1>1, <1>2, <1>4 DEF TermInv, Types, Uis
  <2>2. TurnInv' /\ EscInv'
    BY <1>1, <1>4 DEF TermInv, TurnInv, EscInv
  <2>3. UlwInv'
    BY <1>1, <1>4 DEF TermInv, UlwInv, InLoop
  <2>4. FollowerInv'
    BY <1>1, <1>2, <1>4 DEF TermInv, FollowerInv, Events
  <2>5. DisplayInv'
    BY <1>1, <1>4 DEF TermInv, DisplayInv
  <2> QED BY <1>4, <2>1, <2>2, <2>3, <2>4, <2>5 DEF TermInv
<1>5. CASE (\E ok \in DbAnswers : Close(sess, ok)) /\ UNCHANGED <<busy, queue, cancelReq, active, epoch, turn, run, pressed>>
  <2>1. PICK ok \in BOOLEAN : Close(sess, ok)
    BY <1>5 DEF DbAnswers
  <2> QED BY <1>1, <1>4, <1>5, <2>1, CloseFacts
<1>6. CASE ui' = "loop" /\ UNCHANGED <<busy, queue, sess, cancelReq, active, epoch, turn, run, rows, kept, pressed,
           abandoned>>
  <2>1. MessageInv' /\ Sessions' = Sessions
    BY <1>1, <1>6, MessagesStay DEF Sessions
  <2> QED BY <1>4, <1>6, <2>1 DEF TermInv, Types
<1> QED BY <1>3, <1>5, <1>6 DEF FinishShows

\* A step of the turn that leaves the display, the followers and what Esc reached alone.
LEMMA TurnMoves ==
  ASSUME TermInv, busy, NEW a \in TurnPlaces \ {"none", "observe"}, turn.at # "asking", turn' \in TurnRecords,
         turn'.at = a, turn'.no = turn.no, turn'.kind = turn.kind, a # "asking",
         run' \in RunRecords, run'.no = run.no, run'.cancelled = run.cancelled, DOMAIN followers' = DOMAIN followers,
         \A r \in DOMAIN followers : /\ followers'[r] \in FollowerRecords /\ followers'[r].turn = followers[r].turn
                                     /\ followers'[r].seen = followers[r].seen
                                     /\ followers'[r].events # <<>> \/ followers[r].events = <<>>,
         loopFile' \in LoopRecords, IsFiniteSet(Sessions)', Sessions' \subseteq Nat,
         founded' \subseteq Criteria, lastCheck' \in {"skipped", "ok"} \cup Failures,
         UNCHANGED <<script, ui, busy, quitAfter, queue, question, sess, cancelReq, active, shown, epoch, holder, asked,
                     live, entered, pressed, final>>
  PROVE  Types' /\ TurnInv' /\ EscInv' /\ FollowerInv' /\ DisplayInv'
<1>1. Types'
  BY DEF TermInv, Types
<1>2. TurnInv'
  BY DEF TermInv, TurnInv
<1>3. EscInv'
  BY DEF TermInv, EscInv
<1>4. FollowerInv'
  BY DEF TermInv, FollowerInv, Events
<1>5. DisplayInv'
  BY DEF TermInv, TurnInv, FollowerInv, DisplayInv
<1> QED BY <1>1, <1>2, <1>3, <1>4, <1>5

\* What every step starts from.
LEMMA Around ==
  ASSUME TermInv
  PROVE  /\ turn \in TurnRecords /\ turn.no \in Nat /\ turn.sess \in SessRecords /\ turn.loop \in LoopRecords
         /\ run \in RunRecords /\ loopFile \in LoopRecords /\ Types
         /\ IsFiniteSet(Sessions) /\ Sessions \subseteq Nat /\ founded \subseteq Criteria
         /\ lastCheck \in {"skipped", "ok"} \cup Failures
         /\ \A r \in DOMAIN followers : followers[r] \in FollowerRecords
BY DEF TermInv, Types, TurnRecords, FollowerInv

LEMMA CompactStep ==
  ASSUME TermInv, Compact
  PROVE  TermInv'
<1>1. /\ turn.at = "prepare" /\ busy /\ turn.kind = "compact" /\ ~InLoop
      /\ UNCHANGED <<script, uiVars, sharedVars, run, followers, loopFile, histVars>>
  BY DEF Compact, TermInv, TurnInv, InLoop
<1>2. PICK s \in SessRecords, ok \in BOOLEAN :
        /\ Send(s, ok, NoLoop) /\ MessageInv' /\ IsFiniteSet(Sessions)' /\ Sessions' \subseteq Nat
  <2>1. CASE KeepCompacted(turn.sess) /\ Send(Compacted(turn.sess), TRUE, NoLoop)
    <3>1. StoreGrows(turn.sess, Compacted(turn.sess)) /\ Compacted(turn.sess).msgs = {} /\ turn.sess.msgs \subseteq kept'
      BY <2>1, Around, CompactFacts
    <3>2. Compacted(turn.sess) \in SessRecords /\ IsFiniteSet(Sessions)' /\ Sessions' \subseteq Nat
      BY <3>1 DEF StoreGrows
    <3>3. turn'.sess = Compacted(turn.sess) /\ turn'.no = turn.no
      BY <2>1, <3>2, Around, Starts, SendFacts
    <3>4. MessageInv'
      BY <1>1, <3>1, <3>3, Around, StoreFacts DEF TermInv, MessageInv
    <3> QED BY <2>1, <3>2, <3>4
  <2>2. CASE Send(turn.sess, FALSE, NoLoop) /\ UNCHANGED <<rows, kept>>
    <3>1. turn'.sess = turn.sess /\ turn'.no = turn.no
      BY <2>2, Around, Starts, SendFacts
    <3>2. MessageInv' /\ Sessions' = Sessions
      BY <1>1, <2>2, <3>1, MessagesStay DEF Sessions
    <3> QED BY <2>2, <3>2, Around
  <2> QED BY <2>1, <2>2 DEF Compact
<1>3. /\ turn' \in TurnRecords /\ turn'.at = "sent" /\ turn'.no = turn.no /\ turn'.kind = turn.kind /\ turn'.loop = NoLoop
  BY <1>2, Around, Starts, SendFacts
<1>4. Types' /\ TurnInv' /\ EscInv' /\ FollowerInv' /\ DisplayInv'
  BY <1>1, <1>2, <1>3, Around, TurnMoves DEF TurnPlaces
<1>5. UlwInv'
  <2>1. InLoop' = InLoop /\ Founded(turn'.loop, founded')
    BY <1>3, Starts DEF InLoop, Founded
  <2> QED BY <1>1, <1>3, <2>1 DEF TermInv, UlwInv
<1> QED BY <1>2, <1>4, <1>5 DEF TermInv

LEMMA ResumeLoopStep ==
  ASSUME TermInv, ResumeLoop
  PROVE  TermInv'
<1>1. /\ turn.at = "prepare" /\ busy /\ turn.kind = "resume" /\ turn.loop = NoLoop /\ InLoop
      /\ UNCHANGED <<script, uiVars, sharedVars, run, followers, rows, kept, histVars>>
  BY DEF ResumeLoop, TermInv, TurnInv, InLoop
<1>2. /\ turn' \in TurnRecords /\ turn'.at \in {"sent", "prepare"} /\ turn'.no = turn.no /\ turn'.kind = turn.kind
      /\ turn'.sess = turn.sess /\ loopFile' \in LoopRecords
      /\ \/ turn'.at = "sent" /\ turn'.loop = NoLoop /\ loopFile' = loopFile
         \/ /\ turn'.loop = loopFile' /\ loopFile'.status = "running" /\ loopFile'.runs = loopFile.runs
            /\ loopFile'.met = loopFile.met
  <2>1. CASE Send(turn.sess, FALSE, NoLoop) /\ UNCHANGED loopFile
    BY <2>1, Around, Starts, SendFacts
  <2>2. CASE loopFile' = [loopFile EXCEPT !.status = "running"] /\ turn' = [turn EXCEPT !.loop = loopFile']
    <3>1. /\ loopFile' \in LoopRecords /\ loopFile'.status = "running" /\ loopFile'.runs = loopFile.runs
          /\ loopFile'.met = loopFile.met
      BY <2>2, Around DEF LoopRecords
    <3>2. /\ turn' \in TurnRecords /\ turn'.at = turn.at /\ turn'.no = turn.no /\ turn'.kind = turn.kind
          /\ turn'.sess = turn.sess /\ turn'.loop = loopFile'
      BY <2>2, <3>1, Around DEF TurnRecords
    <3> QED BY <1>1, <3>1, <3>2
  <2> QED BY <2>1, <2>2 DEF ResumeLoop
<1>3. MessageInv' /\ Sessions' = Sessions
  BY <1>1, <1>2, MessagesStay DEF Sessions
<1>4. Types' /\ TurnInv' /\ EscInv' /\ FollowerInv' /\ DisplayInv'
  BY <1>1, <1>2, <1>3, Around, TurnMoves DEF TurnPlaces
<1>5. UlwInv'
  <2>1. /\ InLoop' /\ NoLoop.met = {} /\ NoLoop.status = "none" /\ NoLoop.runs = 0
        /\ entered' = entered /\ founded' = founded /\ script' = script
    BY <1>1, <1>2, Starts DEF InLoop
  <2>2. Founded(loopFile', founded') /\ Founded(turn'.loop, founded')
    BY <1>2, <2>1 DEF TermInv, UlwInv, Founded
  <2>3. /\ entered <= script.prompts /\ entered > 0 /\ loopFile.runs <= 3 + entered /\ loopFile.runs <= 2 + entered
    BY <1>1 DEF TermInv, UlwInv
  <2> QED BY <1>2, <2>1, <2>2, <2>3 DEF UlwInv
<1> QED BY <1>3, <1>4, <1>5 DEF TermInv

LEMMA PrepareStep ==
  ASSUME TermInv, Prepare
  PROVE  TermInv'
<1>1. /\ turn.at = "prepare" /\ busy /\ (InLoop => turn.loop # NoLoop)
      /\ UNCHANGED <<script, uiVars, sharedVars, run, followers, histVars>>
  BY DEF Prepare, TermInv, TurnInv
<1>2. /\ turn' \in TurnRecords /\ turn'.at \in {"install", "sent"} /\ turn'.no = turn.no /\ turn'.kind = turn.kind
      /\ loopFile' \in LoopRecords /\ IsFiniteSet(Sessions)' /\ Sessions' \subseteq Nat /\ MessageInv' /\ UlwInv'
  <2> "install" \in TurnPlaces
    BY DEF TurnPlaces
  <2>1. ASSUME turn' \in TurnRecords, turn'.at = "install", turn'.no = turn.no, turn'.kind = turn.kind,
               turn'.loop = turn.loop, loopFile' = loopFile
        PROVE  UlwInv'
    BY <1>1, <2>1 DEF TermInv, UlwInv, InLoop
  <2>2. CASE turn' = [turn EXCEPT !.at = "install"] /\ UNCHANGED diskVars
    <3>1. Moves("install")
      BY <2>2, Around, MoveFacts
    <3>2. MessageInv' /\ Sessions' = Sessions
      BY <1>1, <2>2, <3>1, MessagesStay DEF Sessions, Moves
    <3> QED BY <2>1, <2>2, <3>1, <3>2, Around DEF Moves
  <2>3. CASE KeepCompacted(turn.sess) /\ turn' = [turn EXCEPT !.at = "install", !.sess = Compacted(@)] /\ UNCHANGED loopFile
    <3>1. StoreGrows(turn.sess, Compacted(turn.sess)) /\ Compacted(turn.sess).msgs = {} /\ turn.sess.msgs \subseteq kept'
      BY <2>3, Around, CompactFacts
    <3> DEFINE t == Compacted(turn.sess)
    <3>2. t \in SessRecords /\ IsFiniteSet(Sessions)' /\ Sessions' \subseteq Nat
      BY <3>1 DEF StoreGrows
    <3>3. turn' = [turn EXCEPT !.at = "install", !.sess = t]
      BY <2>3
    <3> HIDE DEF t
    <3>4. /\ turn' \in TurnRecords /\ turn'.at = "install" /\ turn'.no = turn.no /\ turn'.kind = turn.kind /\ turn'.sess = t
          /\ turn'.loop = turn.loop
      BY <3>2, <3>3, Around DEF TurnRecords
    <3>5. turn'.sess = Compacted(turn.sess)
      BY <3>4 DEF t
    <3>6. MessageInv'
      BY <1>1, <3>1, <3>4, <3>5, Around, StoreFacts DEF TermInv, MessageInv
    <3> QED BY <2>1, <2>3, <3>2, <3>4, <3>6, Around
  <2>4. CASE SendError /\ UNCHANGED <<rows, kept>>
    <3>1. /\ turn' \in TurnRecords /\ turn'.at = "sent" /\ turn'.no = turn.no /\ turn'.kind = turn.kind
          /\ turn'.sess = turn.sess /\ loopFile' \in LoopRecords /\ UlwInv'
      BY <1>1, <2>4, SendErrorFacts
    <3>2. MessageInv' /\ Sessions' = Sessions
      BY <1>1, <2>4, <3>1, MessagesStay DEF Sessions
    <3> QED BY <3>1, <3>2, Around
  <2> QED BY <2>2, <2>3, <2>4 DEF Prepare
<1>3. Types' /\ TurnInv' /\ EscInv' /\ FollowerInv' /\ DisplayInv'
  BY <1>1, <1>2, Around, TurnMoves DEF TurnPlaces
<1> QED BY <1>2, <1>3 DEF TermInv

LEMMA EndRunStep ==
  ASSUME TermInv, EndRun
  PROVE  TermInv'
<1>1. /\ turn.at \in {"working", "answered"} /\ busy
      /\ UNCHANGED <<script, uiVars, sharedVars, rows, kept, histVars>>
  BY DEF EndRun, TermInv, TurnInv
<1>2. PICK state \in States : Publish(state)
  BY DEF EndRun, States, EndStates
<1>3. /\ run' \in RunRecords /\ run'.no = run.no /\ run'.cancelled = run.cancelled
      /\ DOMAIN followers' = DOMAIN followers
      /\ \A r \in DOMAIN followers : /\ followers'[r] \in FollowerRecords /\ followers'[r].turn = followers[r].turn
                                     /\ followers'[r].seen = followers[r].seen
                                     /\ followers'[r].events # <<>> \/ followers[r].events = <<>>
  BY <1>2, PublishFacts
<1>4. /\ turn' \in TurnRecords /\ turn'.at \in {"record", "sent"} /\ turn'.no = turn.no /\ turn'.kind = turn.kind
      /\ turn'.sess = turn.sess /\ loopFile' \in LoopRecords /\ UlwInv'
  <2>1. CASE turn' = [turn EXCEPT !.at = "record"] /\ UNCHANGED loopFile
    <3>1. Moves("record")
      BY <2>1, Around, MoveFacts DEF TurnPlaces
    <3> QED BY <1>1, <2>1, <3>1, Around DEF Moves, TermInv, UlwInv, InLoop
  <2>2. CASE SendError
    BY <1>1, <2>2, SendErrorFacts
  <2> QED BY <2>1, <2>2 DEF EndRun
<1>5. MessageInv' /\ Sessions' = Sessions
  BY <1>1, <1>4, MessagesStay DEF Sessions
<1>6. Types' /\ TurnInv' /\ EscInv' /\ FollowerInv' /\ DisplayInv'
  BY <1>1, <1>3, <1>4, <1>5, Around, TurnMoves DEF TurnPlaces
<1> QED BY <1>4, <1>5, <1>6 DEF TermInv

LEMMA RecordStep ==
  ASSUME TermInv, Record
  PROVE  TermInv'
<1>1. /\ turn.at = "record" /\ busy
      /\ UNCHANGED <<script, uiVars, sharedVars, run, followers, entered, pressed, final, abandoned, loopHist>>
  BY DEF Record, TermInv, TurnInv
<1>2. /\ turn' \in TurnRecords /\ turn'.at \in {"judge", "sent"} /\ turn'.no = turn.no /\ turn'.kind = turn.kind
      /\ loopFile' \in LoopRecords /\ IsFiniteSet(Sessions)' /\ Sessions' \subseteq Nat /\ MessageInv' /\ UlwInv'
  <2>1. CASE SendError /\ UNCHANGED <<rows, kept, recorded>>
    <3>1. /\ turn' \in TurnRecords /\ turn'.at = "sent" /\ turn'.no = turn.no /\ turn'.kind = turn.kind
          /\ turn'.sess = turn.sess /\ loopFile' \in LoopRecords /\ UlwInv'
      BY <1>1, <2>1, SendErrorFacts
    <3>2. MessageInv' /\ Sessions' = Sessions
      BY <1>1, <2>1, <3>1, MessagesStay DEF Sessions
    <3> QED BY <3>1, <3>2, Around
  <2> DEFINE s == [turn.sess EXCEPT !.msgs = @ \cup {turn.no}, !.dirty = TRUE]
             place == IF InLoop THEN "judge" ELSE "sent"
  <2>2. ASSUME NEW ok \in BOOLEAN, Save(s, ok), recorded' = recorded \cup {turn.no}, UNCHANGED loopFile,
               turn' = [turn EXCEPT !.at = place, !.sess = Saved(s, ok), !.ok = TRUE]
        PROVE  /\ turn' \in TurnRecords /\ turn'.at \in {"judge", "sent"} /\ turn'.no = turn.no /\ turn'.kind = turn.kind
               /\ loopFile' \in LoopRecords /\ IsFiniteSet(Sessions)' /\ Sessions' \subseteq Nat /\ MessageInv' /\ UlwInv'
    <3>1. s \in SessRecords /\ s.msgs = turn.sess.msgs \cup {turn.no} /\ s.dirty
      BY Around DEF SessRecords
    <3> HIDE DEF s
    <3> DEFINE t == Saved(s, ok)
    <3>2. StoreGrows(s, t) /\ t.msgs = s.msgs
      BY <2>2, <3>1, Around, SaveFacts
    <3>3. t \in SessRecords /\ IsFiniteSet(Sessions)' /\ Sessions' \subseteq Nat
      BY <3>2 DEF StoreGrows
    <3>4. turn' = [turn EXCEPT !.at = place, !.sess = t, !.ok = TRUE] /\ place \in TurnPlaces
      BY <2>2 DEF TurnPlaces
    <3> HIDE DEF t, place
    <3>5. /\ turn' \in TurnRecords /\ turn'.at = place /\ turn'.no = turn.no /\ turn'.kind = turn.kind /\ turn'.sess = t
          /\ turn'.loop = turn.loop
      BY <3>3, <3>4, Around DEF TurnRecords
    <3>6. MessageInv'
      <4>1. StoreGrows(s, turn'.sess) /\ turn'.sess.msgs = s.msgs
        BY <3>2, <3>5
      <4>2. Secured(s, kept) /\ InStore(s, rows)
        BY <3>1 DEF Secured, InStore
      <4>3. recorded' \subseteq recorded \cup s.msgs
        BY <2>2, <3>1
      <4> QED BY <1>1, <3>1, <3>5, <4>1, <4>2, <4>3, StoreFacts
    <3>7. UlwInv'
      <4>1. InLoop' = InLoop
        BY <3>5 DEF InLoop
      <4>2. place = IF InLoop THEN "judge" ELSE "sent"
        BY DEF place
      <4> QED BY <1>1, <2>2, <3>5, <4>1, <4>2 DEF TermInv, UlwInv
    <3> QED BY <2>2, <3>3, <3>5, <3>6, <3>7, Around DEF place
  <2>3. CASE \E ok \in DbAnswers :
               /\ Save(s, ok)
               /\ recorded' = recorded \cup {turn.no}
               /\ turn' = [turn EXCEPT !.at = place, !.sess = Saved(s, ok), !.ok = TRUE]
               /\ UNCHANGED loopFile
    <3> HIDE DEF s, place
    <3> QED BY <2>2, <2>3 DEF DbAnswers
  <2> QED BY <2>1, <2>3 DEF Record
<1>3. Types' /\ TurnInv' /\ EscInv' /\ FollowerInv' /\ DisplayInv'
  BY <1>1, <1>2, Around, TurnMoves DEF TurnPlaces
<1> QED BY <1>2, <1>3 DEF TermInv

LEMMA JudgeStep ==
  ASSUME TermInv, NEW report \in script.reports, Judge(report)
  PROVE  TermInv'
<1> DEFINE u == turn.loop
           v == RecordRun(u, report)
           gain == IF Failed(report) THEN {} ELSE IF report.all THEN Criteria ELSE report.matched
<1>1. /\ turn.at = "judge" /\ busy /\ InLoop /\ u.status = "running" /\ report \in Reports
      /\ UNCHANGED <<script, uiVars, sharedVars, run, followers, rows, kept, entered, pressed, final, recorded, abandoned>>
  BY DEF Judge, TermInv, TurnInv, UlwInv, Types, ScriptType
<1>2. /\ v \in LoopRecords /\ v.runs = u.runs + 1 /\ v.met \in {u.met, u.met \cup gain} /\ gain \subseteq Criteria
      /\ (v.status = "done" => v.met = Criteria \/ u.status = "done")
      /\ (v.status = "running" => v.runs < 4)
  BY <1>1, Around, RecordRunFacts
<1>3. /\ turn' = [turn EXCEPT !.at = IF v.status = "running" THEN "prepare" ELSE "sent", !.loop = v]
      /\ loopFile' = v /\ founded' = founded \cup gain
      /\ lastCheck' = IF report.verify = "skipped" THEN lastCheck ELSE report.verify
  BY DEF Judge
<1>4. report.verify \in {"skipped", "ok"} \cup Failures
  BY <1>1 DEF Reports
<1> HIDE DEF v, gain
<1>5. /\ turn' \in TurnRecords /\ turn'.at = (IF v.status = "running" THEN "prepare" ELSE "sent") /\ turn'.no = turn.no
      /\ turn'.kind = turn.kind /\ turn'.sess = turn.sess /\ turn'.loop = v
  <2> "prepare" \in TurnPlaces /\ "sent" \in TurnPlaces
    BY DEF TurnPlaces
  <2> QED BY <1>2, <1>3, Around DEF TurnRecords
<1>6. MessageInv' /\ Sessions' = Sessions
  BY <1>1, <1>5, MessagesStay DEF Sessions
<1>7. Types' /\ TurnInv' /\ EscInv' /\ FollowerInv' /\ DisplayInv'
  <2>1. loopFile' \in LoopRecords /\ founded' \subseteq Criteria /\ lastCheck' \in {"skipped", "ok"} \cup Failures
    BY <1>2, <1>3, <1>4, Around
  <2> QED BY <1>1, <1>5, <1>6, <2>1, Around, TurnMoves DEF TurnPlaces
<1>8. UlwInv'
  <2>1. InLoop' /\ entered' = entered /\ script' = script /\ busy' = busy
    BY <1>1, <1>5 DEF InLoop
  <2>2. Founded(v, founded')
    <3>1. v.met \subseteq founded'
      BY <1>2, <1>3 DEF TermInv, UlwInv, Founded
    <3>2. founded' \subseteq Criteria
      BY <1>2, <1>3, Around
    <3> QED BY <1>1, <1>2, <3>1, <3>2 DEF Founded
  <2>3. /\ entered \in Nat /\ entered > 0 /\ entered <= script.prompts /\ u.runs <= 2 + entered
        /\ u.runs \in Nat /\ v.runs \in Nat
    BY <1>1, <1>2, Around DEF TermInv, Types, UlwInv, LoopRecords
  <2>4. v.runs <= 3 + entered /\ (v.status = "running" => v.runs <= 2 + entered)
    BY <1>2, <2>3
  <2>5. NoLoop.status = "none"
    BY Starts
  <2> QED BY <1>3, <1>5, <2>1, <2>2, <2>3, <2>4, <2>5 DEF UlwInv
<1> QED BY <1>6, <1>7, <1>8 DEF TermInv

LEMMA CrashStep ==
  ASSUME TermInv, Crash
  PROVE  TermInv'
<1>1. PICK s \in {Empty} \cup {[id |-> i, msgs |-> rows[i], dirty |-> FALSE] : i \in Sessions} : Volatile(s)
  BY DEF Crash
<1>2. /\ Empty \in SessRecords /\ Empty.msgs = {} /\ ~Empty.dirty /\ Empty.id = NoSession
      /\ NoState \in ShownRecords /\ NoState.turn = 0
      /\ NoLoop \in LoopRecords /\ NoLoop.status = "none" /\ NoLoop.met = {} /\ NoLoop.runs = 0
  BY Starts
<1>3. kept \subseteq 1 .. turn.no /\ \A i \in Sessions : rows[i] \subseteq kept
  BY DEF TermInv, MessageInv
<1>4. turn.no \in Nat /\ run.no \in Nat /\ Sessions \subseteq Nat
  BY Around DEF RunRecords
<1>5. s \in SessRecords /\ s.msgs \subseteq kept /\ InStore(s, rows)
  <2>1. CASE s = Empty
    BY <1>2, <2>1 DEF InStore
  <2>2. CASE s # Empty
    <3>1. PICK i \in Sessions : s = [id |-> i, msgs |-> rows[i], dirty |-> FALSE]
      BY <2>2
    <3>2. i \in Nat /\ rows[i] \subseteq kept
      BY <1>3, <1>4
    <3>3. 1 .. turn.no \subseteq Nat
      BY <1>4
    <3>4. rows[i] \subseteq Nat
      BY <1>3, <3>2, <3>3
    <3> QED BY <3>1, <3>2, <3>4 DEF SessRecords, InStore, Sessions
  <2> QED BY <2>1, <2>2
<1>6. /\ turn' \in TurnRecords /\ turn'.at = "none" /\ turn'.no = turn.no /\ turn'.kind = "none" /\ turn'.sess = Empty
      /\ turn'.loop = NoLoop /\ run' \in RunRecords /\ run'.no = run.no /\ run'.cancelled = FALSE
  BY <1>1, <1>2, <1>4 DEF Volatile, NoTurn, NoRun, TurnRecords, TurnPlaces, RunRecords, States
<1>7. /\ ui' = "loop" /\ busy' = FALSE /\ quitAfter' = FALSE /\ queue' = <<>> /\ question' = "none" /\ sess' = s
      /\ cancelReq' = FALSE /\ active' = FALSE /\ shown' = NoState /\ epoch' = 0 /\ holder' = 0
      /\ asked' = "none" /\ live' = <<>> /\ followers' = <<>> /\ pressed' = FALSE /\ final' = NoState
  BY <1>1 DEF Volatile
<1>8. /\ rows' = rows /\ kept' = kept /\ loopFile' = loopFile /\ entered' = entered /\ recorded' = recorded
      /\ founded' = founded /\ lastCheck' = lastCheck /\ abandoned' = abandoned \cup (recorded \ kept)
         /\ Sessions' = Sessions
      /\ script' = [script EXCEPT !.crashes = FALSE]
  BY DEF Crash, Sessions
<1>9. script' \in ScriptType /\ script'.prompts = script.prompts
  BY <1>8, Around DEF Types, ScriptType
<1>10. Types'
  <2>1. queue' \in Seq(Nat) /\ live' \in Seq({"chunk", "answer"})
    BY <1>7
  <2> QED BY <1>2, <1>5, <1>6, <1>7, <1>8, <1>9, <2>1 DEF TermInv, Types, Uis
<1>11. TurnInv' /\ EscInv'
  BY <1>6, <1>7 DEF TurnInv, EscInv
<1>12. MessageInv'
  <2>1. recorded \subseteq 1 .. turn.no
    BY DEF TermInv, MessageInv
  <2> QED BY <1>2, <1>3, <1>5, <1>6, <1>7, <1>8, <2>1 DEF MessageInv, Secured
<1>13. UlwInv'
  <2>1. ~InLoop' /\ Founded(turn'.loop, founded')
    BY <1>2, <1>6 DEF InLoop, Founded
  <2> QED BY <1>6, <1>7, <1>8, <1>9, <2>1 DEF TermInv, UlwInv
<1>14. FollowerInv' /\ DisplayInv'
  <2>1. DOMAIN followers' = {}
    BY <1>7
  <2> QED BY <1>2, <1>4, <1>6, <1>7, <2>1 DEF FollowerInv, DisplayInv
<1> QED BY <1>10, <1>11, <1>12, <1>13, <1>14 DEF TermInv

-----------------------------------------------------------------------------
(* The terminal: its theorems *)

LEMMA TermInitInv ==
  ASSUME TermInit
  PROVE  TermInv
<1>1. script \in ScriptType
  BY ScriptsAssumption DEF TermInit
<1>2. /\ Empty \in SessRecords /\ Empty.msgs = {} /\ ~Empty.dirty /\ Empty.id = NoSession
      /\ NoState \in ShownRecords /\ NoState.turn = 0
      /\ NoLoop \in LoopRecords /\ NoLoop.status = "none" /\ NoLoop.met = {} /\ NoLoop.runs = 0
  BY Starts
<1>3. /\ turn \in TurnRecords /\ turn.at = "none" /\ turn.no = 0 /\ turn.kind = "none" /\ turn.sess = Empty
      /\ turn.loop = NoLoop /\ run \in RunRecords /\ run.no = 0 /\ run.cancelled = FALSE
  BY <1>2 DEF TermInit, NoTurn, NoRun, TurnRecords, TurnPlaces, RunRecords, States
<1>4. DOMAIN followers = {} /\ Sessions = {}
  BY DEF TermInit, Sessions
<1>5. Types
  <2>1. queue \in Seq(Nat) /\ live \in Seq({"chunk", "answer"}) /\ IsFiniteSet(Sessions)
    BY <1>4, FS_EmptySet DEF TermInit
  <2> QED BY <1>1, <1>2, <1>3, <1>4, <2>1 DEF TermInit, Types, Uis
<1>6. TurnInv /\ EscInv
  BY <1>3 DEF TermInit, TurnInv, EscInv
<1>7. MessageInv
  BY <1>2, <1>3, <1>4 DEF TermInit, MessageInv, Secured, InStore
<1>8. UlwInv
  <2>1. ~InLoop /\ Founded(turn.loop, founded) /\ script.prompts \in Nat
    BY <1>1, <1>2, <1>3 DEF InLoop, Founded, TermInit, ScriptType
  <2> QED BY <1>2, <1>3, <2>1 DEF TermInit, UlwInv
<1>9. FollowerInv /\ DisplayInv
  BY <1>2, <1>3, <1>4 DEF TermInit, FollowerInv, DisplayInv
<1> QED BY <1>5, <1>6, <1>7, <1>8, <1>9 DEF TermInv

LEMMA TermStutters ==
  ASSUME TermInv, UNCHANGED termVars
  PROVE  TermInv'
<1>1. Sessions' = Sessions
  BY DEF termVars, Sessions
<1>2. Types' /\ TurnInv' /\ EscInv'
  BY <1>1 DEF TermInv, termVars, Types, TurnInv, EscInv
<1>3. MessageInv'
  BY <1>1 DEF TermInv, termVars, MessageInv
<1>4. UlwInv' /\ FollowerInv' /\ DisplayInv'
  BY DEF TermInv, termVars, UlwInv, InLoop, FollowerInv, DisplayInv, Events
<1> QED BY <1>2, <1>3, <1>4 DEF TermInv

LEMMA TermNextInv ==
  ASSUME TermInv, [TermNext]_termVars
  PROVE  TermInv'
<1>1. CASE User
  BY <1>1, EnterStep, NewStep, PressEscStep, AnswerQuestionStep, QuitLaterStep, QuitStep DEF User
<1>2. CASE Interface
  BY <1>2, CancelActiveStep, ShowQuestionStep, ApplyLiveStep, FinishTurnStep, FinishShowsStep, ClearShownStep DEF Interface
<1>3. CASE Follower
  BY <1>3, FollowerLocksStep, FollowerShowsStep DEF Follower
<1>4. CASE Work
  BY <1>4, StartLoopStep, ResumeLoopStep, PrepareStep, CompactStep, InstallStep, ObserveStep, ShowStep, BeginRunStep DEF Work
<1>5. CASE (\E event \in script.events : Emit(event)) \/ Ask
  BY <1>5, EmitStep, AskStep
<1>6. CASE End
  BY <1>6, NoLongerWaitsStep, EndRunStep, RecordStep, JudgeStep DEF End
<1>7. CASE Crash
  BY <1>7, CrashStep
<1>8. CASE UNCHANGED termVars
  BY <1>8, TermStutters
<1> QED BY <1>1, <1>2, <1>3, <1>4, <1>5, <1>6, <1>7, <1>8 DEF TermNext

\* The invariant of the terminal, its turns and the session store.
THEOREM TermInvCorrect == TermSpec => []TermInv
<1> QED BY TermInitInv, TermNextInv, PTL DEF TermSpec

\* Types and bounds of the terminal's state: no run of an autonomous loop beyond those its prompts allow
\* (ulw.rs: record_run), and no message from a turn that was not started.
THEOREM TermTypeCorrect == TermSpec => []TermTypeOK
<1>1. ASSUME TermInv PROVE TermTypeOK
  <2>1. /\ ui \in {"loop", "cancel", "finish", "clear", "closed"}
        /\ question \in {"none", "live", "dead"} /\ asked \in {"none", "live", "dead"}
    BY <1>1 DEF TermInv, Types, Uis
  <2>2. shown.state \in States /\ shown.turn \in 0 .. turn.no /\ run.state \in States
    BY <1>1 DEF TermInv, Types, FollowerInv, ShownRecords, RunRecords, TurnRecords
  <2>3. turn.kind \in script.kinds \cup {"none"}
    BY <1>1 DEF TermInv, TurnInv
  <2>4. /\ \A i \in Sessions : rows[i] \subseteq 1 .. turn.no
        /\ kept \subseteq 1 .. turn.no /\ recorded \subseteq 1 .. turn.no
    BY <1>1 DEF TermInv, MessageInv
  <2>5. holder \in DOMAIN followers \cup {0}
    BY <1>1 DEF TermInv, FollowerInv
  <2>6. loopFile.met \subseteq Criteria /\ founded \subseteq Criteria
    BY <1>1, Around DEF LoopRecords
  <2>7. loopFile.runs \in 0 .. MaxLoopRuns + script.prompts - 1
    <3>1. loopFile.runs \in Nat /\ entered \in Nat /\ script.prompts \in Nat
      BY <1>1, Around DEF LoopRecords, Types, ScriptType
    <3>2. loopFile.runs <= 3 + entered /\ entered <= script.prompts
      BY <1>1 DEF TermInv, UlwInv
    <3> QED BY <3>1, <3>2 DEF MaxLoopRuns, MaxNudges
  <2> QED BY <2>1, <2>2, <2>3, <2>4, <2>5, <2>6, <2>7 DEF TermTypeOK
<1> QED BY <1>1, TermInvCorrect, PTL

\* What is displayed is the state of the running turn or, when none runs, what the last turn reported,
\* whatever followers, answers and observers of other runs still come (tui.rs: lifecycle_epoch).
THEOREM ShownCorrect == TermSpec => []ShownIsCurrent
<1>1. ASSUME TermInv PROVE ShownIsCurrent
  BY <1>1 DEF TermInv, DisplayInv, ShownIsCurrent
<1> QED BY <1>1, TermInvCorrect, PTL

\* Esc reaches the run of the turn it was pressed in, whenever it comes, and no other
\* (tui.rs: request_turn_cancel, install_active_run).
THEOREM EscCorrect == TermSpec => []EscStopsItsTurn
<1>1. ASSUME TermInv PROVE EscStopsItsTurn
  BY <1>1 DEF TermInv, EscInv, EscStopsItsTurn
<1> QED BY <1>1, TermInvCorrect, PTL

\* No message taken into the conversation is lost without a report, a crash or a user who left it, and
\* a session that need not be saved is stored as it is (chat.rs: save_if_dirty, compact_session).
THEOREM SessionCorrect == TermSpec => []SessionSafe
<1>1. ASSUME TermInv PROVE SessionSafe
  BY <1>1 DEF TermInv, MessageInv, InStore, SessionSafe, TurnInv
<1> QED BY <1>1, TermInvCorrect, PTL

\* A loop that is done has a finished todo for every criterion, from runs whose verification did not
\* fail (ulw.rs: record_run).
THEOREM DoneCorrect == TermSpec => []DoneIsFounded
<1>1. ASSUME TermInv PROVE DoneIsFounded
  BY <1>1 DEF TermInv, UlwInv, Founded, DoneIsFounded
<1> QED BY <1>1, TermInvCorrect, PTL
=============================================================================
