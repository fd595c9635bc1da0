--------------------------- MODULE QualityProofs ---------------------------
(***************************************************************************)
(* Proofs about Quality, for any workspace, checkers, pages and errors:    *)
(* what the gate holds (HoldInv), which pages were opened (PagesInv), and  *)
(* what the script of a page, the server and the log know of each other    *)
(* (ScriptInv, CleanInv).                                                  *)
(***************************************************************************)
EXTENDS Quality, FiniteSetTheorems, TLAPS

-----------------------------------------------------------------------------
(* The inductive invariant *)

CheckPhase == {"checkers", "waiting", "stopping", "collecting"}
Testing == {"launch", "probing", "settling", "closing", "draining", "judging"}

Alive == proc = "live" \/ helper

\* What the gate holds at each point, and what can be left behind.
HoldInv ==
  /\ pc \in CheckPhase \cup {"pages", "done"} => ~serving
  /\ pc \in CheckPhase => ~rundir /\ clean = {} /\ page = "none" /\ \A e \in Errors : line[e] = "none"
  /\ pc \in {"launch", "draining", "judging"} => ~Alive
  /\ pc = "collecting" => status = "timeout" \/ ~Alive
  /\ orphan => failed \/ (pc = "collecting" /\ status = "timeout")
  /\ pc \in {"checkers", "pages", "done"} => (rundir \/ Alive => failed)

\* The page that is open.
Open == IF pc \in Testing THEN {entry} ELSE {}

\* Each page that was found waits, is open or was clean, as long as nothing failed.
PagesInv ==
  /\ todo \cap clean = {}
  /\ pc \in Testing => entry \in Html /\ entry \notin todo \cup clean
  /\ pc \in Testing => (GameNeeded(job, entry) => entry \in job.contract)
  /\ pc \in Testing \cup {"pages", "done"} /\ ~failed =>
       /\ ~DiscoveryFails(job)
       /\ EntryRequired(job) => FoundEntries(job) # {}
       /\ FoundEntries(job) = todo \cup clean \cup Open
       /\ job.game /\ targeted => \E p \in clean \cup Open : p \in job.contract
  /\ pc = "done" /\ ~failed => todo = {} /\ targeted

\* What the script, the server and the log know of each other.
ScriptInv ==
  /\ pc = "launch" => page = "none"
  /\ sequence.ready => page = "idle"
  /\ page \in {"reporting", "idle"} => \A e \in awaited : Settles(e)
  /\ (\E e \in Errors : receipt[e] = "answered") => recorded # {}
  /\ missing = "answered" => recorded # {}
  /\ missing = "asked" /\ early => page = "loading"
  /\ sequence.game \/ gameMsg = "sent" => played
  /\ (\E e \in Errors : line[e] = "cut") => much
  /\ pc = "judging" => \A e \in Errors : line[e] # "written"

\* A page reported clean was.
CleanInv ==
  pc = "pages" /\ entry \in clean =>
    /\ sequence.ready /\ ~(missing # "none" /\ early)
    /\ \A e \in awaited : receipt[e] \in {"refused", "failed"}
    /\ \A e \in Errors : line[e] \in {"none", "logged"}
    /\ GameNeeded(job, entry) => played

IInv == TypeOK /\ HoldInv /\ PagesInv /\ ScriptInv /\ CleanInv

-----------------------------------------------------------------------------
(* Pages *)

\* The pages that are found are pages, one for each file that is covered, and one for each changed
\* page that is still there.
LEMMA PagesFound ==
  ASSUME NEW j \in JobType, Html \subseteq Files
  PROVE  /\ FoundEntries(j) \subseteq Html
         /\ \A f \in Covered(j) : Existing(j, f) =>
               \E p \in FoundEntries(j) : f = p \/ f \in Reached(j, p)
<1>1. j.changed \subseteq Files /\ j.near \in [Files -> Seq(Html)]
  BY DEF JobType
<1>2. ASSUME NEW f \in Files PROVE NearPage(j, f) \subseteq Html
  <2>1. j.near[f] \in Seq(Html)
    BY <1>1
  <2>2. \A i \in DOMAIN j.near[f] : j.near[f][i] \in Html
    BY <2>1
  <2> QED BY <2>2 DEF NearPage
<1>3. NearEntries(j) \subseteq Html
  BY <1>1, <1>2 DEF NearEntries, ChangedPages
<1>4. FoundEntries(j) \subseteq Html
  BY <1>3 DEF FoundEntries, WalkEntries
<1>5. ASSUME NEW f \in NearCovered(j), Existing(j, f)
      PROVE  \E p \in FoundEntries(j) : f = p \/ f \in Reached(j, p)
  <2>1. CASE f \in ChangedPages(j)
    BY <1>5, <2>1 DEF FoundEntries, NearEntries
  <2>2. CASE f \in j.changed \ Html /\ NearPage(j, f) # {}
    <3>1. PICK p \in NearPage(j, f) : TRUE
      BY <2>2
    <3>2. f \in Reached(j, p)
      BY <3>1 DEF NearPage
    <3>3. p \in FoundEntries(j)
      BY <2>2, <3>1 DEF FoundEntries, NearEntries
    <3> QED BY <3>2, <3>3
  <2> QED BY <1>5, <2>1, <2>2 DEF NearCovered
<1>6. ASSUME NEW f, Walks(j), f \in UNION {Reached(j, p) : p \in WalkEntries(j)}
      PROVE  \E p \in FoundEntries(j) : f = p \/ f \in Reached(j, p)
  BY <1>6 DEF FoundEntries
<1> QED BY <1>4, <1>5, <1>6 DEF Covered

\* A page that must play the contract needs it.
LEMMA TargetNeeds == \A j, p : ContractTarget(j, p) => GameNeeded(j, p)
BY DEF GameNeeded

-----------------------------------------------------------------------------
(* Types *)

Flags ==
  /\ targeted \in BOOLEAN /\ failed \in BOOLEAN /\ helper \in BOOLEAN /\ much \in BOOLEAN
  /\ orphan \in BOOLEAN /\ serving \in BOOLEAN /\ rundir \in BOOLEAN /\ played \in BOOLEAN
  /\ early \in BOOLEAN
Typed ==
  /\ job \in Jobs /\ pc \in Points /\ at \in Nat /\ todo \subseteq Html
  /\ entry \in Html \cup {NoEntry} /\ clean \subseteq Html
  /\ proc \in {"none", "live", "ok", "bad", "diff", "killed"}
  /\ status \in {"none", "ok", "bad", "diff", "killed", "timeout"}
  /\ page \in {"none", "loading", "playing", "gathering", "awaiting", "reporting", "idle"}
  /\ awaited \subseteq Errors /\ recorded \subseteq Errors \cup {"404"}
  /\ receipt \in [Errors -> {"none", "sent", "failed", "taken", "refused", "answered"}]
  /\ line \in [Errors -> {"none", "logged", "written", "read", "cut"}]
  /\ gameMsg \in {"none", "sent", "taken", "refused"}
  /\ missing \in {"none", "asked", "answered"}
  /\ sequence \in [game : BOOLEAN, ready : BOOLEAN, errors : SUBSET Errors]

LEMMA InitTyped == Init => Typed
BY DEF Init, BlankPage, Typed, Points, Fresh

LEMMA EndTyped ==
  /\ \A ok : Terminated(ok) /\ proc \in {"none", "live", "ok", "bad", "diff", "killed"}
       => proc' \in {"none", "live", "ok", "bad", "diff", "killed"}
  /\ \A ok : Leave(ok) => pc' = "pages" /\ clean' = (IF ok THEN clean \cup {entry} ELSE clean)
BY DEF Terminated, Leave

LEMMA NextTyped == Typed /\ PagesInv /\ [Next]_vars => Typed'
<1> SUFFICES ASSUME Typed, PagesInv, [Next]_vars PROVE Typed'
  OBVIOUS
<1>0. job \in JobType /\ Html \subseteq Files /\ FoundEntries(job) \subseteq Html
  BY JobsAssumption, PagesFound DEF Typed
<1> USE <1>0 DEF Typed, Points, gate, child, host, script, traffic
<1>1. CASE UNCHANGED vars \/ Rest
  BY <1>1 DEF vars, Rest
<1>2. CASE CheckerMissing \/ CheckerWithoutFile
  BY <1>2 DEF CheckerMissing, CheckerWithoutFile
<1>3. CASE CheckerStarted
  BY <1>3 DEF CheckerStarted
<1>4. CASE CheckerWaited
  BY <1>4 DEF CheckerWaited
<1>5. CASE CheckerStopped
  BY <1>5, EndTyped DEF CheckerStopped
<1>6. CASE CheckerCollected
  BY <1>6 DEF CheckerCollected, StepPassed
<1>7. CASE Discover
  BY <1>7 DEF Discover
<1>8. CASE OpenPage
  BY <1>8 DEF OpenPage, NewPage, Fresh
<1>9. CASE Finish
  BY <1>9 DEF Finish
<1>10. CASE Launch
  <2>1. pc' \in Points /\ clean' = clean
    BY <1>10 DEF Launch, Leave
  <2>2. proc' \in {proc, "live"} /\ page' \in {page, "loading"}
    BY <1>10 DEF Launch
  <2>3. UNCHANGED <<job, at, todo, entry, targeted, status, much, orphan,
                    awaited, played, gameMsg, missing, early, traffic>>
    BY <1>10 DEF Launch
  <2> QED BY <2>1, <2>2, <2>3
<1>11. CASE Probed \/ Settled
  BY <1>11 DEF Probed, Settled
<1>12. CASE CloseBrowser
  <2>1. pc' \in Points /\ clean' = clean
    BY <1>12 DEF CloseBrowser, Leave
  <2> QED BY <1>12, <2>1, EndTyped DEF CloseBrowser
<1>13. CASE Drained
  <2>1. pc' \in Points /\ clean' = clean
    BY <1>13 DEF Drained, Leave
  <2> QED BY <1>13, <2>1, EndTyped DEF Drained
<1>14. CASE Judge
  <2>1. pc' = "pages" /\ clean' \in {clean, clean \cup {entry}}
    BY <1>14, EndTyped DEF Judge
  <2>2. entry \in Html
    BY <1>14 DEF Judge, PagesInv, Testing
  <2> QED BY <1>14, <2>1, <2>2 DEF Judge
<1>15. CASE Exit \/ HelperExit \/ AskMissing \/ Loaded
  BY <1>15 DEF Exit, HelperExit, AskMissing, Loaded
<1>16. CASE Play \/ Played
  BY <1>16 DEF Play, Played, Emitted
<1>17. CASE Gather \/ SendReady
  BY <1>17 DEF Gather, SendReady
<1>18. ASSUME NEW e \in Errors, PageError(e) \/ WriteLine(e) PROVE Typed'
  BY <1>18 DEF PageError, WriteLine, Emitted
<1>19. CASE TakeGame \/ TakeReady
  <2>1. sequence' \in {sequence, [sequence EXCEPT !.game = TRUE], [sequence EXCEPT !.ready = TRUE]}
    BY <1>19 DEF TakeGame, TakeReady
  <2>2. sequence' \in [game : BOOLEAN, ready : BOOLEAN, errors : SUBSET Errors]
    BY <2>1
  <2>3. UNCHANGED <<gate, child, host, awaited, missing, early, receipt, line, recorded>>
    BY <1>19 DEF TakeGame, TakeReady
  <2>4. /\ page' \in {"none", "loading", "playing", "gathering", "awaiting", "reporting", "idle"}
        /\ gameMsg' \in {"none", "sent", "taken", "refused"}
    BY <1>19 DEF TakeGame, TakeReady
  <2> QED BY <2>2, <2>3, <2>4
<1>20. CASE ServeMissing
  BY <1>20 DEF ServeMissing
<1>21. ASSUME NEW e \in Errors, TakeError(e) PROVE Typed'
  BY <1>21 DEF TakeError
<1>22. ASSUME NEW e \in Errors, PushError(e) \/ ReadLine(e) PROVE Typed'
  BY <1>22 DEF PushError, ReadLine
<1> QED BY <1>1, <1>2, <1>3, <1>4, <1>5, <1>6, <1>7, <1>8, <1>9, <1>10, <1>11, <1>12, <1>13, <1>14,
           <1>15, <1>16, <1>17, <1>18, <1>19, <1>20, <1>21, <1>22
        DEF Next, GateStep, Browser, Tasks

LEMMA InitFlags == Init => Flags
BY DEF Init, BlankPage, Flags, Fresh

LEMMA NextFlags == Flags /\ [Next]_vars => Flags'
<1> SUFFICES ASSUME Flags, [Next]_vars PROVE Flags'
  OBVIOUS
<1> USE DEF Flags, gate, child, host, script, traffic
<1>1. CASE UNCHANGED vars \/ Rest
  BY <1>1, Zenon DEF vars, Rest
<1>2. CASE CheckerMissing \/ CheckerWithoutFile
  BY <1>2, Zenon DEF CheckerMissing, CheckerWithoutFile
<1>3. CASE CheckerStarted
  BY <1>3, Zenon DEF CheckerStarted
<1>4. CASE CheckerWaited
  BY <1>4, Zenon DEF CheckerWaited
<1>5. CASE CheckerStopped
  BY <1>5, Zenon DEF CheckerStopped, Terminated
<1>6. CASE CheckerCollected
  BY <1>6, Zenon DEF CheckerCollected, StepPassed
<1>7. CASE Discover
  BY <1>7, Zenon DEF Discover
<1>8. CASE OpenPage
  BY <1>8, Zenon DEF OpenPage, NewPage, Fresh
<1>9. CASE Finish
  BY <1>9, Zenon DEF Finish
<1>10. CASE Launch
  BY <1>10, Zenon DEF Launch, Leave
<1>11. CASE Probed \/ Settled
  BY <1>11, Zenon DEF Probed, Settled
<1>12. CASE CloseBrowser
  BY <1>12, Zenon DEF CloseBrowser, Terminated, Leave
<1>13. CASE Drained
  BY <1>13, Zenon DEF Drained, Leave
<1>14. CASE Judge
  BY <1>14, Zenon DEF Judge, Leave
<1>15. CASE Exit \/ HelperExit \/ AskMissing \/ Loaded
  BY <1>15, Zenon DEF Exit, HelperExit, AskMissing, Loaded
<1>16. CASE Play \/ Played
  BY <1>16, Zenon DEF Play, Played, Emitted
<1>17. CASE Gather \/ SendReady
  BY <1>17, Zenon DEF Gather, SendReady
<1>18. ASSUME NEW e \in Errors, PageError(e) \/ WriteLine(e) PROVE Flags'
  BY <1>18, Zenon DEF PageError, WriteLine, Emitted
<1>19. CASE TakeGame \/ TakeReady
  BY <1>19, Zenon DEF TakeGame, TakeReady
<1>20. CASE ServeMissing
  BY <1>20, Zenon DEF ServeMissing
<1>21. ASSUME NEW e \in Errors, TakeError(e) PROVE Flags'
  BY <1>21, Zenon DEF TakeError
<1>22. ASSUME NEW e \in Errors, PushError(e) \/ ReadLine(e) PROVE Flags'
  BY <1>22, Zenon DEF PushError, ReadLine
<1> QED BY <1>1, <1>2, <1>3, <1>4, <1>5, <1>6, <1>7, <1>8, <1>9, <1>10, <1>11, <1>12, <1>13, <1>14,
           <1>15, <1>16, <1>17, <1>18, <1>19, <1>20, <1>21, <1>22
        DEF Next, GateStep, Browser, Tasks

-----------------------------------------------------------------------------
(* What the gate holds *)

\* A step of the browser or of a task of the server only lets processes end.
LEMMA AroundGate ==
  ASSUME Browser \/ Tasks
  PROVE  /\ UNCHANGED <<gate, status, orphan, host>>
         /\ Alive' => Alive
         /\ page = "none" /\ pc \in CheckPhase => UNCHANGED <<page, line>>
<1> USE DEF gate, child, host, script, traffic, Alive, Running
<1>1. CASE Exit \/ HelperExit \/ AskMissing \/ Loaded
  BY <1>1 DEF Exit, HelperExit, AskMissing, Loaded
<1>2. CASE Play \/ Played
  BY <1>2 DEF Play, Played
<1>3. CASE Gather \/ SendReady
  BY <1>3 DEF Gather, SendReady
<1>4. ASSUME NEW e \in Errors, PageError(e) \/ WriteLine(e)
      PROVE  UNCHANGED <<gate, child, host>> /\ page # "none"
  BY <1>4 DEF PageError, WriteLine
<1>5. CASE TakeGame \/ TakeReady \/ ServeMissing
  BY <1>5 DEF TakeGame, TakeReady, ServeMissing
<1>6. ASSUME NEW e \in Errors, TakeError(e) \/ PushError(e)
      PROVE  UNCHANGED <<gate, child, host, page, line>>
  BY <1>6 DEF TakeError, PushError
<1>7. ASSUME NEW e \in Errors, ReadLine(e)
      PROVE  UNCHANGED <<gate, proc, helper, status, orphan, host>> /\ pc \notin CheckPhase
  BY <1>7 DEF ReadLine, CheckPhase
<1> QED BY <1>1, <1>2, <1>3, <1>4, <1>5, <1>6, <1>7 DEF Browser, Tasks

LEMMA HoldStep ==
  ASSUME HoldInv, [Next]_vars
  PROVE  HoldInv'
<1> USE DEF HoldInv, CheckPhase, gate, child, host, script, traffic
<1>1. CASE UNCHANGED vars \/ Rest
  BY <1>1 DEF vars, Rest, Alive
<1>2. CASE Browser \/ Tasks
  BY <1>2, AroundGate
<1>3. CASE CheckerMissing \/ CheckerWithoutFile
  <2>1. failed => failed'
    BY <1>3, Zenon DEF CheckerMissing, CheckerWithoutFile
  <2>2. UNCHANGED <<pc, clean, child, host, page, line>>
    BY <1>3 DEF CheckerMissing, CheckerWithoutFile
  <2> QED BY <2>1, <2>2 DEF Alive
<1>4. CASE CheckerStarted
  BY <1>4 DEF CheckerStarted, Alive
<1>5. CASE CheckerWaited
  BY <1>5 DEF CheckerWaited, Alive
<1>6. CASE CheckerStopped
  BY <1>6 DEF CheckerStopped, Terminated, Alive
<1>7. CASE CheckerCollected
  BY <1>7 DEF CheckerCollected, StepPassed, OutputEnded, Alive
<1>8. CASE Discover
  BY <1>8 DEF Discover, Alive
<1>9. CASE OpenPage
  BY <1>9 DEF OpenPage, Alive
<1>10. CASE Finish
  BY <1>10 DEF Finish, Alive
<1>11. CASE Launch
  BY <1>11 DEF Launch, Leave, Alive
<1>12. CASE Probed \/ Settled
  BY <1>12 DEF Probed, Settled, Alive
<1>13. CASE CloseBrowser
  BY <1>13 DEF CloseBrowser, Terminated, Leave, Alive
<1>14. CASE Drained
  BY <1>14 DEF Drained, Leave, Alive
<1>15. CASE Judge
  BY <1>15 DEF Judge, Leave, Alive
<1> QED BY <1>1, <1>2, <1>3, <1>4, <1>5, <1>6, <1>7, <1>8, <1>9, <1>10, <1>11, <1>12, <1>13, <1>14,
           <1>15
        DEF Next, GateStep

-----------------------------------------------------------------------------
(* The pages *)

LEMMA PagesStep ==
  ASSUME TypeOK, HoldInv, PagesInv, [Next]_vars
  PROVE  PagesInv'
<1>0. job \in JobType /\ Html \subseteq Files /\ FoundEntries(job) \subseteq Html /\ job.game \in BOOLEAN
  BY JobsAssumption, PagesFound DEF TypeOK, JobType
<1> USE DEF PagesInv, Open, Testing, gate
<1>1. CASE UNCHANGED vars \/ Rest \/ Browser \/ Tasks
  <2>1. UNCHANGED gate
    BY <1>1, AroundGate DEF vars, Rest
  <2> QED BY <2>1
<1>2. CASE CheckerMissing \/ CheckerWithoutFile
  <2>1. pc = "checkers" /\ UNCHANGED <<job, pc, todo, entry, clean>>
    BY <1>2 DEF CheckerMissing, CheckerWithoutFile
  <2> QED BY <2>1
<1>3. CASE CheckerStarted \/ CheckerWaited \/ CheckerStopped \/ CheckerCollected
  <2>1. /\ pc' \in {"waiting", "stopping", "collecting", "checkers"}
        /\ UNCHANGED <<job, todo, entry, clean>>
    BY <1>3 DEF CheckerStarted, CheckerWaited, CheckerStopped, CheckerCollected
  <2> QED BY <2>1
<1>4. CASE Discover
  <2>1. /\ pc' \in {"pages", "done"} /\ UNCHANGED <<job, entry, clean>>
        /\ pc = "checkers" /\ clean = {} /\ targeted' = ~job.game
    BY <1>4 DEF Discover, HoldInv, CheckPhase
  <2>2. ASSUME ~failed'
        PROVE  /\ pc' = "pages" /\ todo' = FoundEntries(job) /\ ~DiscoveryFails(job)
               /\ EntryRequired(job) => FoundEntries(job) # {}
    BY <1>4, <2>2 DEF Discover
  <2> QED BY <2>1, <2>2
<1>5. CASE OpenPage
  <2>1. PICK p \in todo :
          /\ entry' = p /\ todo' = todo \ {p} /\ targeted' = (targeted \/ ContractTarget(job, p))
          /\ \/ /\ GameNeeded(job, p) => p \in job.contract
                /\ pc' = "launch" /\ UNCHANGED failed
             \/ failed' = TRUE /\ UNCHANGED pc
    BY <1>5 DEF OpenPage
  <2>2. UNCHANGED <<job, clean>> /\ pc = "pages" /\ p \in Html /\ p \notin clean
    BY <1>5, <2>1 DEF OpenPage, TypeOK
  <2>3. CASE failed'
    BY <2>1, <2>2, <2>3
  <2>4. CASE ~failed'
    <3>1. ~failed /\ pc' = "launch" /\ (GameNeeded(job, p) => p \in job.contract)
      BY <2>1, <2>4
    <3>2. FoundEntries(job) = todo' \cup clean' \cup {p}
      BY <2>1, <2>2, <3>1
    <3>3. job.game /\ targeted' => \E q \in clean \cup {p} : q \in job.contract
      <4>1. targeted' => targeted \/ ContractTarget(job, p)
        BY <2>1
      <4> QED BY <2>2, <3>1, <4>1, TargetNeeds
    <3> QED BY <2>1, <2>2, <3>1, <3>2, <3>3
  <2> QED BY <2>3, <2>4
<1>6. CASE Finish
  <2>1. UNCHANGED <<job, todo, entry, targeted, clean>> /\ pc = "pages" /\ todo = {} /\ pc' = "done"
        /\ (~failed' => ~failed /\ targeted)
    BY <1>6 DEF Finish
  <2> QED BY <2>1
<1>7. ASSUME pc \in Testing, pc' \in Testing, UNCHANGED <<job, todo, entry, targeted, failed, clean>>
      PROVE  PagesInv'
  BY <1>7
<1>8. ASSUME NEW ok \in BOOLEAN, pc \in Testing, Leave(ok), UNCHANGED <<job, todo, entry, targeted>>
      PROVE  PagesInv'
  <2>1. /\ pc' = "pages" /\ (~failed' => ~failed /\ ok)
        /\ clean' = (IF ok THEN clean \cup {entry} ELSE clean)
    BY <1>8 DEF Leave
  <2>2. entry \in Html /\ entry \notin todo \cup clean
    BY <1>8
  <2>3. todo' \cap clean' = {}
    BY <1>8, <2>1, <2>2
  <2>4. CASE ~failed'
    <3>1. ~failed /\ clean' = clean \cup {entry}
      BY <2>1, <2>4
    <3> QED BY <1>8, <2>1, <2>3, <3>1
  <2> QED BY <1>8, <2>1, <2>3, <2>4
<1>9. CASE Launch
  BY <1>7, <1>8, <1>9 DEF Launch
<1>10. CASE Probed \/ Settled
  BY <1>7, <1>10 DEF Probed, Settled
<1>11. CASE CloseBrowser
  BY <1>7, <1>8, <1>11 DEF CloseBrowser
<1>12. CASE Drained
  BY <1>7, <1>8, <1>12 DEF Drained
<1>13. CASE Judge
  <2>1. PICK ok \in BOOLEAN : Leave(ok)
    BY <1>13, Zenon DEF Judge
  <2> QED BY <1>8, <1>13, <2>1 DEF Judge
<1> QED BY <1>1, <1>2, <1>3, <1>4, <1>5, <1>6, <1>9, <1>10, <1>11, <1>12, <1>13 DEF Next, GateStep

-----------------------------------------------------------------------------
(* The script, the server and the log *)

LEMMA ScriptStep ==
  ASSUME TypeOK, HoldInv, ScriptInv, [Next]_vars
  PROVE  ScriptInv'
<1>0. /\ receipt \in [Errors -> {"none", "sent", "failed", "taken", "refused", "answered"}]
      /\ line \in [Errors -> {"none", "logged", "written", "read", "cut"}]
      /\ sequence \in [game : BOOLEAN, ready : BOOLEAN, errors : SUBSET Errors]
      /\ recorded \subseteq Errors \cup {"404"} /\ Cardinality({}) = 0 /\ MaxErrors \in Nat \ {0}
  BY BoundsAssumption, FS_EmptySet DEF TypeOK
<1> USE <1>0 DEF ScriptInv, Settles, gate, child, host, script, traffic
<1>1. CASE UNCHANGED vars \/ Rest
  BY <1>1 DEF vars, Rest
<1>2. ASSUME UNCHANGED <<script, traffic>>, much => much',
             pc' \in {"launch", "judging"} => pc' = pc
      PROVE  ScriptInv'
  BY <1>2
<1>3. CASE CheckerMissing \/ CheckerWithoutFile \/ CheckerWaited \/ CheckerStopped \/ CheckerCollected
  BY <1>2, <1>3 DEF CheckerMissing, CheckerWithoutFile, CheckerWaited, CheckerStopped, CheckerCollected
<1>4. CASE CheckerStarted
  <2>1. UNCHANGED <<script, traffic>> /\ pc' \notin {"launch", "judging"}
        /\ \A e \in Errors : line[e] = "none"
    BY <1>4 DEF CheckerStarted, HoldInv, CheckPhase
  <2> QED BY <2>1
<1>5. CASE Discover \/ Finish \/ Probed \/ Settled \/ CloseBrowser
  <2>1. UNCHANGED <<script, traffic, much>> /\ pc' \notin {"launch", "judging"}
    BY <1>5 DEF Discover, Finish, Probed, Settled, CloseBrowser, Leave
  <2> QED BY <1>2, <2>1
<1>6. CASE Judge
  <2>1. UNCHANGED <<script, traffic, much>> /\ pc' = "pages"
    BY <1>6 DEF Judge, Leave
  <2> QED BY <1>2, <2>1
<1>7. CASE OpenPage
  <2>1. NewPage /\ pc' # "judging"
    BY <1>7 DEF OpenPage
  <2> QED BY <2>1 DEF NewPage, Fresh
<1>8. CASE Launch
  <2>1. /\ UNCHANGED <<awaited, played, gameMsg, missing, early, traffic, much>>
        /\ page = "none" /\ page' \in {"none", "loading"} /\ pc' \in {"probing", "pages"}
    BY <1>8 DEF Launch, Leave
  <2> QED BY <2>1
<1>9. CASE Drained
  <2>1. /\ UNCHANGED <<script, traffic, much>>
        /\ pc' = "pages" \/ (pc' = "judging" /\ \A e \in Errors : line[e] # "written")
    BY <1>9 DEF Drained, Leave, LogEnded
  <2> QED BY <2>1
<1>10. CASE Exit \/ HelperExit
  BY <1>10 DEF Exit, HelperExit
<1>11. CASE AskMissing
  <2>1. /\ UNCHANGED <<gate, child, page, awaited, played, gameMsg, traffic>>
        /\ missing' = "asked" /\ (early' => page = "loading")
    BY <1>11 DEF AskMissing
  <2> QED BY <2>1
<1>12. CASE Loaded
  BY <1>12 DEF Loaded, Running
<1>13. ASSUME NEW e \in Errors, Emitted(e), UNCHANGED <<gate, child, awaited, missing, early, sequence, recorded>>,
              page' = page \/ (page = "playing" /\ page' = "gathering"),
              UNCHANGED <<played, gameMsg>>, pc # "launch", pc # "judging"
       PROVE  ScriptInv'
  <2>1. /\ receipt[e] = "none" /\ receipt'[e] \in {"sent", "failed"} /\ line'[e] = "logged"
        /\ \A x \in Errors : x # e => receipt'[x] = receipt[x] /\ line'[x] = line[x]
    BY <1>13 DEF Emitted
  <2>2. /\ (\E x \in Errors : receipt'[x] = "answered") => \E x \in Errors : receipt[x] = "answered"
        /\ (\E x \in Errors : line'[x] = "cut") => \E x \in Errors : line[x] = "cut"
    BY <2>1
  <2>3. page' \in {"reporting", "idle"} => page' = page
    BY <1>13
  <2>4. page' \in {"reporting", "idle"} => \A x \in awaited' : Settles(x)'
    <3> SUFFICES ASSUME page' \in {"reporting", "idle"}, NEW x \in awaited PROVE Settles(x)'
      BY <1>13
    <3>1. page = page' /\ Settles(x)
      BY <2>3
    <3>2. x # e /\ x \in Errors
      BY <2>1, <3>1 DEF TypeOK
    <3> QED BY <2>1, <3>1, <3>2
  <2>5. sequence'.ready => page' = "idle"
    BY <1>13
  <2> QED BY <1>13, <2>2, <2>3, <2>4, <2>5
<1>14. Running => pc \notin {"launch", "judging"}
  BY DEF Running, HoldInv, Alive
<1>15. ASSUME NEW e \in Errors, PageError(e) PROVE ScriptInv'
  BY <1>13, <1>14, <1>15 DEF PageError
<1>16. CASE Play
  <2>1. CASE UNCHANGED <<receipt, line>>
    BY <1>14, <1>16, <2>1 DEF Play
  <2>2. ASSUME NEW e \in Errors, Emitted(e), page' = "gathering", UNCHANGED <<played, gameMsg>> PROVE ScriptInv'
    BY <1>13, <1>14, <1>16, <2>2 DEF Play
  <2> QED BY <1>16, <2>1, <2>2 DEF Play
<1>17. CASE Played
  <2>1. CASE UNCHANGED <<receipt, line>>
    BY <1>14, <1>17, <2>1 DEF Played
  <2>2. ASSUME NEW e \in Errors, Emitted(e) PROVE ScriptInv'
    BY <1>13, <1>14, <1>17, <2>2 DEF Played
  <2> QED BY <1>17, <2>1, <2>2 DEF Played
<1>18. CASE Gather
  BY <1>14, <1>18 DEF Gather
<1>19. CASE SendReady
  BY <1>14, <1>19 DEF SendReady
<1>20. ASSUME NEW e \in Errors, WriteLine(e) PROVE ScriptInv'
  BY <1>14, <1>20 DEF WriteLine
<1>21. ASSUME NEW e \in Errors, TakeError(e) PROVE ScriptInv'
  <2>1. /\ receipt[e] = "sent" /\ receipt'[e] \in {"taken", "refused"}
        /\ \A x \in Errors : x # e => receipt'[x] = receipt[x]
        /\ sequence'.ready = sequence.ready /\ sequence'.game = sequence.game
        /\ UNCHANGED <<gate, child, script, line, recorded>>
    BY <1>21 DEF TakeError
  <2>2. page \in {"reporting", "idle"} => \A x \in awaited : Settles(x)'
    BY <2>1 DEF TypeOK
  <2>3. (\E x \in Errors : receipt'[x] = "answered") => \E x \in Errors : receipt[x] = "answered"
    BY <2>1
  <2> QED BY <2>1, <2>2, <2>3
<1>22. ASSUME NEW e \in Errors, PushError(e) PROVE ScriptInv'
  <2>1. /\ receipt[e] = "taken" /\ receipt'[e] = "answered"
        /\ \A x \in Errors : x # e => receipt'[x] = receipt[x]
        /\ UNCHANGED <<gate, child, script, line, sequence>>
        /\ recorded' = (IF Cardinality(recorded) < MaxErrors THEN recorded \cup {e} ELSE recorded)
    BY <1>22 DEF PushError
  <2>2. page \in {"reporting", "idle"} => \A x \in awaited : Settles(x)'
    BY <2>1 DEF TypeOK
  <2>3. recorded' # {}
    <3>1. CASE recorded = {}
      BY <2>1, <3>1
    <3>2. CASE recorded # {}
      BY <2>1, <3>2
    <3> QED BY <3>1, <3>2
  <2> QED BY <2>1, <2>2, <2>3
<1>23. CASE TakeGame
  <2>1. /\ played /\ gameMsg' \in {"taken", "refused"} /\ sequence'.ready = sequence.ready
        /\ UNCHANGED <<gate, child, page, awaited, played, missing, early, receipt, line, recorded>>
    BY <1>23 DEF TakeGame
  <2> QED BY <2>1
<1>24. CASE TakeReady
  <2>1. /\ page = "reporting" /\ page' = "idle" /\ sequence'.game = sequence.game
        /\ UNCHANGED <<gate, child, awaited, played, gameMsg, missing, early, receipt, line, recorded>>
    BY <1>24 DEF TakeReady
  <2> QED BY <2>1
<1>25. CASE ServeMissing
  <2>1. recorded' # {}
    <3>1. CASE recorded = {}
      BY <1>25, <3>1 DEF ServeMissing
    <3>2. CASE recorded # {}
      BY <1>25, <3>2 DEF ServeMissing
    <3> QED BY <3>1, <3>2
  <2>2. missing' = "answered" /\ UNCHANGED <<gate, child, page, awaited, played, gameMsg, early, receipt, line, sequence>>
    BY <1>25 DEF ServeMissing
  <2> QED BY <2>1, <2>2
<1>26. ASSUME NEW e \in Errors, ReadLine(e) PROVE ScriptInv'
  <2>1. /\ UNCHANGED <<gate, script, receipt, sequence, recorded>> /\ pc # "judging"
        /\ \/ line' = [line EXCEPT ![e] = "read"] /\ UNCHANGED much
           \/ line' = [line EXCEPT ![e] = "cut"] /\ much' = TRUE
    BY <1>26 DEF ReadLine
  <2> QED BY <2>1
<1> QED BY <1>1, <1>3, <1>4, <1>5, <1>6, <1>7, <1>8, <1>9, <1>10, <1>11, <1>12, <1>15, <1>16, <1>17,
           <1>18, <1>19, <1>20, <1>21, <1>22, <1>23, <1>24, <1>25, <1>26
        DEF Next, GateStep, Browser, Tasks

-----------------------------------------------------------------------------
(* A page reported clean *)

\* Once the server is gone, only a receipt it had taken can still be answered.
LEMMA AroundPages ==
  ASSUME Browser \/ Tasks, ~serving, pc = "pages",
         receipt \in [Errors -> {"none", "sent", "failed", "taken", "refused", "answered"}]
  PROVE  /\ UNCHANGED <<gate, sequence, missing, early, awaited, played, line>>
         /\ \A e \in Errors : receipt'[e] = receipt[e] \/ receipt[e] = "taken"
<1> USE DEF gate, child, host, script, traffic
<1>1. ~Running
  BY DEF Running
<1>2. CASE Exit \/ HelperExit
  BY <1>2 DEF Exit, HelperExit
<1>3. ASSUME NEW e \in Errors, PushError(e)
      PROVE  /\ UNCHANGED <<gate, sequence, missing, early, awaited, played, line>>
             /\ \A x \in Errors : receipt'[x] = receipt[x] \/ receipt[x] = "taken"
  BY <1>3 DEF PushError
<1>4. ~(AskMissing \/ Loaded \/ Play \/ Played \/ Gather \/ SendReady \/ TakeGame \/ TakeReady \/ ServeMissing)
  BY <1>1 DEF AskMissing, Loaded, Play, Played, Gather, SendReady, TakeGame, TakeReady, ServeMissing
<1>5. \A e \in Errors : ~(PageError(e) \/ WriteLine(e) \/ TakeError(e) \/ ReadLine(e))
  BY <1>1 DEF PageError, WriteLine, TakeError, ReadLine
<1> QED BY <1>2, <1>3, <1>4, <1>5 DEF Browser, Tasks

LEMMA CleanStep ==
  ASSUME TypeOK, HoldInv, PagesInv, ScriptInv, CleanInv, [Next]_vars
  PROVE  CleanInv'
<1> USE DEF gate, child, host, script, traffic
<1>1. CASE UNCHANGED vars \/ Rest
  BY <1>1 DEF vars, Rest, CleanInv
<1>2. CASE Browser \/ Tasks
  <2> SUFFICES ASSUME pc' = "pages", entry' \in clean' PROVE CleanInv'
    BY DEF CleanInv
  <2>1. pc = "pages" /\ entry \in clean /\ UNCHANGED gate
    BY <1>2, AroundGate
  <2>2. ~serving
    BY <2>1 DEF HoldInv
  <2>3. /\ UNCHANGED <<gate, sequence, missing, early, awaited, played, line>>
        /\ \A e \in Errors : receipt'[e] = receipt[e] \/ receipt[e] = "taken"
    BY <1>2, <2>1, <2>2, AroundPages DEF TypeOK
  <2>4. \A e \in awaited : receipt'[e] \in {"refused", "failed"}
    BY <2>1, <2>3 DEF CleanInv, TypeOK
  <2> QED BY <2>1, <2>3, <2>4 DEF CleanInv
<1>3. ASSUME pc' # "pages" PROVE CleanInv'
  BY <1>3 DEF CleanInv
<1>4. CASE CheckerMissing \/ CheckerWithoutFile
  BY <1>3, <1>4 DEF CheckerMissing, CheckerWithoutFile
<1>5. CASE CheckerStarted \/ CheckerWaited \/ CheckerStopped \/ CheckerCollected \/ Finish
  BY <1>3, <1>5 DEF CheckerStarted, CheckerWaited, CheckerStopped, CheckerCollected, Finish
<1>6. ASSUME entry' \notin clean' PROVE CleanInv'
  BY <1>6 DEF CleanInv
<1>7. CASE Discover
  BY <1>6, <1>7 DEF Discover, HoldInv, CheckPhase
<1>8. CASE OpenPage
  BY <1>6, <1>8 DEF OpenPage, PagesInv
<1>9. ASSUME pc \in Testing, Leave(FALSE), UNCHANGED entry PROVE CleanInv'
  BY <1>6, <1>9 DEF Leave, PagesInv
<1>10. CASE Launch
  BY <1>3, <1>9, <1>10 DEF Launch, Testing
<1>11. CASE Probed \/ Settled
  BY <1>3, <1>11 DEF Probed, Settled
<1>12. CASE CloseBrowser
  BY <1>3, <1>9, <1>12 DEF CloseBrowser, Testing
<1>13. CASE Drained
  BY <1>3, <1>9, <1>13 DEF Drained, Testing
<1>14. CASE Judge
  <2>1. pc = "judging" /\ UNCHANGED <<job, entry, script, traffic>>
    BY <1>14 DEF Judge
  <2>2. CASE entry' \notin clean'
    BY <1>6, <2>2
  <2>3. CASE entry' \in clean'
    <3>1. entry \notin clean
      BY <2>1 DEF PagesInv, Testing
    <3>2. ~much /\ sequence.ready /\ (GameNeeded(job, entry) => sequence.game) /\ Reported = {}
      BY <1>14, <2>1, <2>3, <3>1 DEF Judge, Leave
    <3>3. page = "idle" /\ recorded = {} /\ \A e \in Errors : line[e] # "read"
      BY <3>2 DEF ScriptInv, Reported
    <3>4. ~(missing # "none" /\ early)
      BY <3>3 DEF ScriptInv, TypeOK
    <3>5. \A e \in awaited : receipt[e] \in {"refused", "failed"}
      BY <3>3 DEF ScriptInv, Settles, TypeOK
    <3>6. \A e \in Errors : line[e] \in {"none", "logged"}
      BY <2>1, <3>2, <3>3 DEF ScriptInv, TypeOK
    <3> QED BY <2>1, <3>2, <3>4, <3>5, <3>6 DEF CleanInv, ScriptInv
  <2> QED BY <2>2, <2>3
<1> QED BY <1>1, <1>2, <1>4, <1>5, <1>7, <1>8, <1>10, <1>11, <1>12, <1>13, <1>14 DEF Next, GateStep

-----------------------------------------------------------------------------
(* The invariant and what follows from it *)

LEMMA TypeParts == TypeOK <=> Typed /\ Flags
BY DEF TypeOK, Typed, Flags

LEMMA InitIInv == Init => IInv
<1> SUFFICES ASSUME Init PROVE IInv
  OBVIOUS
<1>1. TypeOK
  BY InitTyped, InitFlags, TypeParts
<1>2. HoldInv /\ PagesInv /\ CleanInv
  BY DEF Init, BlankPage, HoldInv, Alive, CheckPhase, PagesInv, Testing, CleanInv
<1>3. ScriptInv
  BY DEF Init, BlankPage, ScriptInv, Fresh
<1> QED BY <1>1, <1>2, <1>3 DEF IInv

LEMMA StepIInv == IInv /\ [Next]_vars => IInv'
<1> SUFFICES ASSUME IInv, [Next]_vars PROVE IInv'
  OBVIOUS
<1>1. TypeOK'
  <2>1. Typed' /\ Flags'
    BY NextTyped, NextFlags, TypeParts DEF IInv
  <2> QED BY <2>1 DEF TypeOK, Typed, Flags
<1>2. HoldInv' /\ PagesInv' /\ ScriptInv' /\ CleanInv'
  BY HoldStep, PagesStep, ScriptStep, CleanStep DEF IInv
<1> QED BY <1>1, <1>2 DEF IInv

\* What the gate holds, which pages it opened, and what the script, the server and the log know of
\* each other, at every moment of a gate (run_quality_gate, smoke_test_in_workspace_with_contract).
THEOREM GateCorrect == Spec => []IInv
<1>1. Init => IInv
  BY InitIInv
<1>2. IInv /\ [Next]_vars => IInv'
  BY StepIInv
<1> QED BY <1>1, <1>2, PTL DEF Spec

\* Every variable of the gate keeps its type.
THEOREM TypeCorrect == Spec => []TypeOK
<1>1. IInv => TypeOK
  BY DEF IInv
<1> QED BY <1>1, GateCorrect, PTL

\* A page that is reported clean was: the script came to its end and no error of it, no line of it and
\* no file missing while it loaded was lost on the way, whatever the order in which the receipts, the
\* log and the exit of the browser arrive (evaluate_browser_output).
THEOREM CleanCorrect == Spec => []CleanIsFounded
<1>1. IInv => CleanIsFounded
  <2>1. CleanInv => CleanIsFounded
    BY DEF CleanInv, CleanIsFounded
  <2> QED BY <2>1 DEF IInv
<1> QED BY <1>1, GateCorrect, PTL

\* A gate that passes opened a page for every changed file that is still there, and found it clean
\* (discover_entries_with_mode and the verdict of the gate).
THEOREM ChangesCorrect == Spec => []EveryChangeWasRun
<1>1. IInv => EveryChangeWasRun
  <2> SUFFICES ASSUME IInv, pc = "done", ~failed
               PROVE  /\ clean # {} \/ EntryRequired(job) =>
                           \A f \in job.changed : Existing(job, f) =>
                             \E p \in clean : f = p \/ f \in Reached(job, p)
                      /\ job.game => \E p \in clean : p \in job.contract
    BY DEF EveryChangeWasRun
  <2>1. /\ todo = {} /\ targeted /\ ~DiscoveryFails(job) /\ FoundEntries(job) = clean
        /\ EntryRequired(job) => clean # {}
        /\ job.game => \E p \in clean : p \in job.contract
    BY DEF IInv, PagesInv, Open, Testing
  <2>2. clean # {} => job.changed = Covered(job)
    BY <2>1 DEF DiscoveryFails
  <2>3. job \in JobType /\ Html \subseteq Files
    BY JobsAssumption DEF IInv, TypeOK
  <2>4. \A f \in Covered(job) : Existing(job, f) => \E p \in clean : f = p \/ f \in Reached(job, p)
    BY <2>1, <2>3, PagesFound
  <2> QED BY <2>1, <2>2, <2>4
<1> QED BY <1>1, GateCorrect, PTL

\* Between two steps of a gate nothing of an earlier one is left, unless the gate has failed
\* (SmokeResources, run_bounded_command).
THEOREM NothingLeftCorrect == Spec => []NothingLeft
<1>1. IInv => NothingLeft
  BY DEF IInv, HoldInv, CheckPhase, Alive, NothingLeft
<1> QED BY <1>1, GateCorrect, PTL

=============================================================================
