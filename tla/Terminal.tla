------------------------------ MODULE Terminal ------------------------------
(***************************************************************************)
(* The terminal front end (tui.rs) with the turns it starts (chat.rs) and  *)
(* the session store (db/session_stream.rs): one thread of the interface,  *)
(* one task per turn, and one task per run that follows its lifecycle      *)
(* events.  A turn is a question, an autonomous loop of several runs, or a *)
(* compaction of the conversation.                                         *)
(*                                                                         *)
(* A turn works on a copy of the session and hands it back when it ends.   *)
(* Messages are the numbers of the turns they come from.                   *)
(***************************************************************************)
EXTENDS Ulw, Sequences, FiniteSets

CONSTANTS
    Scripts,        \* bound: what the user, the tools, the models and the database may do
    NoSession,      \* no id yet
    MaxFollowers    \* bound: followers that lag behind a run

ScriptType ==
    [prompts : Nat,     \* how many are entered
     kinds : SUBSET {"turn", "compact", "ulw", "resume"}, keys : SUBSET {"new", "esc", "ctrl-c"},
     busyDb : BOOLEAN, crashes : BOOLEAN, asks : BOOLEAN, events : SUBSET {"chunk", "answer"}, reports : SUBSET Reports]

ASSUME ScriptsAssumption == Scripts \subseteq ScriptType

VARIABLES
    script,         \* what may happen in this behavior
    \* the thread of the interface
    ui,             \* where it is: "loop" (in select), "cancel", "finish", "clear", or "closed"
    busy,
    quitAfter,
    queue,          \* prompts that wait for the running turn
    question,       \* the approval prompt on the screen: "none", "live", or "dead" (nobody waits for it)
    sess,           \* App.session: its id, its messages, and whether they are to be saved
    \* shared with the turn
    cancelReq,      \* cancel_requested
    active,         \* active_run holds the current run
    shown,          \* lifecycle_state, as displayed
    epoch,          \* lifecycle_epoch
    holder,         \* the follower that holds the lock of lifecycle_state, or 0
    asked,          \* the question in the channel: "none", "live" or "dead"
    live,           \* display events in the channel
    \* the turn
    turn,           \* its number, kind, place, copy of the session, result, and loop
    run,            \* its current run: number, state, whether it is cancelled
    followers,      \* run -> its turn, the epoch observed, events not yet seen
    \* the disk
    rows,           \* session -> messages of its row
    kept,           \* messages in any snapshot
    loopFile,       \* state.json of the last loop
    \* history
    entered,        \* prompts entered
    pressed,        \* Esc was pressed during the current turn
    final,          \* what is to be displayed since the last turn finished
    recorded,       \* turns whose messages were taken into a session
    abandoned,      \* turns that went with a failed save that was reported, a /new, or a crash
    founded,        \* criteria of the loop with a todo finished in a run whose verification did not fail
    lastCheck       \* what the last verification of the loop that ran said

uiVars == <<ui, busy, quitAfter, queue, question, sess>>
sharedVars == <<cancelReq, active, shown, epoch, holder, asked, live>>
turnVars == <<turn, run, followers>>
diskVars == <<rows, kept, loopFile>>
loopHist == <<founded, lastCheck>>
histVars == <<entered, pressed, final, recorded, abandoned, loopHist>>
termVars == <<script, uiVars, sharedVars, turnVars, diskVars, histVars>>

NoState == [turn |-> 0, state |-> "none"]
NoLoop == [UlwStart EXCEPT !.status = "none"]
Empty == [id |-> NoSession, msgs |-> {}, dirty |-> FALSE]
NoRun == [no |-> 0, state |-> "none", cancelled |-> FALSE]
NoTurn == [no |-> 0, kind |-> "none", at |-> "none", sess |-> Empty, ok |-> TRUE, loop |-> NoLoop]

Unknown == [turn |-> 0, state |-> "any"]
EndStates == {"completed", "cancelled", "failed"}
Sessions == DOMAIN rows

----------------------------------------------------------------------------
(***************************************************************************)
(* The store.  Saving is one transaction: the row and a snapshot of it.    *)
(***************************************************************************)
\* A new session gets a new id.
IdOf(s) == IF s.id = NoSession THEN Cardinality(Sessions) + 1 ELSE s.id

PutRow(id, msgs) == rows' = [i \in Sessions \cup {id} |-> IF i = id THEN msgs ELSE rows[i]]

\* Seeded fault: a save that fails is taken for done.
SavedAnyway(s, ok) == [s EXCEPT !.dirty = FALSE]

\* The session after a save, which may find the database busy.
Saved(s, ok) == IF ok /\ s.dirty THEN [s EXCEPT !.id = IdOf(s), !.dirty = FALSE] ELSE s

\* save_if_dirty
Save(s, ok) ==
    IF ok /\ s.dirty THEN PutRow(IdOf(s), s.msgs) /\ kept' = kept \cup s.msgs ELSE UNCHANGED <<rows, kept>>

DbAnswers == IF script.busyDb THEN BOOLEAN ELSE {TRUE}

----------------------------------------------------------------------------
(***************************************************************************)
(* The thread of the interface.                                            *)
(***************************************************************************)
\* start_turn, start_ulw: the cancel flag, the run and the display are reset, then the task is spawned.
\* begin_background_activity resets the display only.
StartTurn(kind, s) ==
    /\ turn' = [no |-> turn.no + 1, kind |-> kind, at |-> "spawn", sess |-> s, ok |-> TRUE, loop |-> NoLoop]
    /\ run' = [run EXCEPT !.state = "none", !.cancelled = FALSE]
    /\ busy' = TRUE
    /\ IF kind = "compact" THEN UNCHANGED <<cancelReq, active>> ELSE cancelReq' = FALSE /\ active' = FALSE
    /\ epoch' = epoch + 1
    /\ ui' = "clear"
    /\ pressed' = FALSE

\* clear_lifecycle_state waits for the lock.
ClearShown ==
    /\ ui = "clear"
    /\ holder = 0
    /\ shown' = NoState
    /\ ui' = "loop"
    /\ turn' = [turn EXCEPT !.at = IF @ = "spawn" THEN "prepare" ELSE @]
    /\ UNCHANGED <<script, busy, quitAfter, queue, question, sess, cancelReq, active, epoch, holder, asked, live,
                   run, followers, diskVars, histVars>>

\* Keys reach the input line only if no question is open.
Listening == ui = "loop" /\ question = "none"

\* submit: while a turn is running a prompt is queued, and a command is refused.
Enter(kind) ==
    /\ Listening
    /\ entered < script.prompts
    /\ kind \in script.kinds
    /\ entered' = entered + 1
    /\ IF busy
       THEN /\ kind = "turn"
            /\ queue' = Append(queue, entered')
            /\ UNCHANGED <<ui, busy, cancelReq, active, epoch, turn, run, pressed>>
       ELSE StartTurn(kind, sess) /\ UNCHANGED queue
    /\ UNCHANGED <<script, quitAfter, question, sess, shown, holder, asked, live, followers, diskVars,
                   final, recorded, abandoned, loopHist>>

\* /new forgets the session, saved or not.
New ==
    /\ Listening /\ ~busy
    /\ "new" \in script.keys
    /\ sess # Empty
    /\ abandoned' = IF sess.dirty THEN abandoned \cup sess.msgs ELSE abandoned
    /\ sess' = Empty
    /\ epoch' = epoch + 1
    /\ ui' = "clear"
    /\ final' = NoState
    /\ UNCHANGED <<script, busy, quitAfter, queue, question, cancelReq, active, shown, holder, asked, live, turn, run, followers,
                   diskVars, entered, pressed, recorded, loopHist>>

\* request_turn_cancel: the flag, then the run.
PressEsc ==
    /\ Listening /\ busy
    /\ "esc" \in script.keys
    /\ cancelReq' = TRUE
    /\ pressed' = TRUE
    /\ ui' = "cancel"
    /\ UNCHANGED <<script, busy, quitAfter, queue, question, sess, active, shown, epoch, holder, asked, live, turnVars, diskVars,
                   entered, final, recorded, abandoned, loopHist>>

CancelActive ==
    /\ ui = "cancel"
    /\ run' = [run EXCEPT !.cancelled = @ \/ active]
    /\ ui' = "loop"
    /\ UNCHANGED <<script, busy, quitAfter, queue, question, sess, sharedVars, turn, followers, diskVars, histVars>>

\* A question replaces the one on the screen; whoever waits for that gets No.
ShowQuestion ==
    /\ ui = "loop"
    /\ asked # "none"
    /\ question' = asked
    /\ asked' = "none"
    /\ UNCHANGED <<script, ui, busy, quitAfter, queue, sess, cancelReq, active, shown, epoch, holder, live, turnVars, diskVars, histVars>>

\* Yes, no or always; Esc is no.  Other keys are ignored, Ctrl+C too.
AnswerQuestion ==
    /\ ui = "loop"
    /\ question # "none"
    /\ turn' = IF question = "live" THEN [turn EXCEPT !.at = "working"] ELSE turn
    /\ question' = "none"
    /\ UNCHANGED <<script, ui, busy, quitAfter, queue, sess, sharedVars, run, followers, diskVars, histVars>>

\* Ctrl+C
QuitLater ==
    /\ Listening /\ busy
    /\ "ctrl-c" \in script.keys
    /\ ~quitAfter
    /\ quitAfter' = TRUE
    /\ UNCHANGED <<script, ui, busy, queue, question, sess, sharedVars, turnVars, diskVars, histVars>>

\* A session that cannot be saved at the end is reported as an error.
Close(s, ok) ==
    /\ ui' = "closed"
    /\ sess' = Saved(s, ok)
    /\ Save(s, ok)
    /\ abandoned' = IF s.dirty /\ ~ok THEN abandoned \cup s.msgs ELSE abandoned

Quit ==
    /\ Listening /\ ~busy
    /\ "ctrl-c" \in script.keys
    /\ \E ok \in DbAnswers : Close(sess, ok)
    /\ UNCHANGED <<script, busy, quitAfter, queue, question, sharedVars, turnVars, loopFile,
                   entered, pressed, final, recorded, loopHist>>

\* Seeded fault: a follower does not look at the epoch.
CurrentAlways(e) == TRUE

Current(e) == epoch = e

\* apply_live: a chunk displays the state of the run, the final answer that of answering.
ApplyLive ==
    /\ ui = "loop"
    /\ live # <<>>
    /\ holder = 0
    /\ live' = Tail(live)
    /\ IF Head(live) = "chunk"
       THEN shown' = (IF active THEN [turn |-> turn.no, state |-> run.state] ELSE shown) /\ UNCHANGED epoch
       ELSE shown' = [turn |-> turn.no, state |-> "answering"] /\ epoch' = epoch + 1
    /\ UNCHANGED <<script, uiVars, cancelReq, active, holder, asked, turnVars, diskVars, histVars>>

\* A turn that is done, once its display events are applied: the session it worked on replaces the one here.
FinishTurn ==
    /\ ui = "loop"
    /\ turn.at = "sent"
    /\ live = <<>>
    /\ busy' = FALSE
    /\ active' = FALSE
    /\ cancelReq' = FALSE
    /\ sess' = turn.sess
    /\ turn' = [turn EXCEPT !.at = "none", !.sess = Empty]
    /\ IF turn.ok
       THEN /\ epoch' = epoch + 1
            /\ final' = IF turn.kind = "compact" THEN NoState ELSE [turn |-> turn.no, state |-> run.state]
       ELSE final' = Unknown /\ UNCHANGED epoch
    /\ ui' = "finish"
    /\ UNCHANGED <<script, quitAfter, queue, question, shown, holder, asked, live, run, followers, diskVars,
                   entered, pressed, recorded, abandoned, loopHist>>

\* Seeded fault: after a failed turn the queue waits for the next prompt.
TakesNextIfOk == queue # <<>> /\ ~quitAfter /\ turn.ok

TakesNext == queue # <<>> /\ ~quitAfter

\* The state it reports is displayed; then the next prompt starts, or the program ends.
FinishShows ==
    /\ ui = "finish"
    /\ turn.ok => holder = 0
    /\ shown' = IF turn.ok THEN final ELSE shown
    /\ \/ /\ TakesNext
          /\ StartTurn("turn", sess)
          /\ queue' = Tail(queue)
          /\ UNCHANGED <<sess, rows, kept, abandoned>>
       \/ /\ quitAfter
          /\ \E ok \in DbAnswers : Close(sess, ok)
          /\ UNCHANGED <<busy, queue, cancelReq, active, epoch, turn, run, pressed>>
       \/ /\ ~TakesNext /\ ~quitAfter
          /\ ui' = "loop"
          /\ UNCHANGED <<busy, queue, sess, cancelReq, active, epoch, turn, run, rows, kept, pressed, abandoned>>
    /\ UNCHANGED <<script, quitAfter, question, holder, asked, live, followers, loopFile, entered, final, recorded, loopHist>>

----------------------------------------------------------------------------
(***************************************************************************)
(* The task that follows a run: it looks at the epoch under the lock, but  *)
(* the epoch is moved on without it.                                       *)
(***************************************************************************)
Events(r) == followers[r].events

\* A run that has ended has no more events; its follower ends.
Taken(r) ==
    IF Head(Events(r)) \in EndStates
    THEN [q \in DOMAIN followers \ {r} |-> followers[q]]
    ELSE [followers EXCEPT ![r].events = Tail(@)]

FollowerLocks(r) ==
    /\ holder = 0
    /\ Events(r) # <<>>
    /\ IF Current(followers[r].seen)
       THEN holder' = r /\ UNCHANGED followers
       ELSE followers' = Taken(r) /\ UNCHANGED holder
    /\ UNCHANGED <<script, uiVars, cancelReq, active, shown, epoch, asked, live, turn, run, diskVars, histVars>>

FollowerShows(r) ==
    /\ holder = r
    /\ shown' = [turn |-> followers[r].turn, state |-> Head(Events(r))]
    /\ holder' = 0
    /\ followers' = Taken(r)
    /\ UNCHANGED <<script, uiVars, cancelReq, active, epoch, asked, live, turn, run, diskVars, histVars>>

----------------------------------------------------------------------------
(***************************************************************************)
(* The task of a turn.                                                     *)
(***************************************************************************)
Send(s, ok, loop) == turn' = [turn EXCEPT !.at = "sent", !.sess = s, !.ok = ok, !.loop = loop]

InLoop == turn.kind \in {"ulw", "resume"}

\* compact_session: the messages go into a snapshot and a summary takes their place, in one transaction.
Compacted(s) == [s EXCEPT !.id = IdOf(s), !.msgs = {}, !.dirty = FALSE]

KeepCompacted(s) == PutRow(IdOf(s), {}) /\ kept' = kept \cup s.msgs

\* /compact
Compact ==
    /\ turn.at = "prepare" /\ turn.kind = "compact"
    /\ \/ KeepCompacted(turn.sess) /\ Send(Compacted(turn.sess), TRUE, NoLoop)
       \/ Send(turn.sess, FALSE, NoLoop) /\ UNCHANGED <<rows, kept>>
    /\ UNCHANGED <<script, uiVars, sharedVars, run, followers, loopFile, histVars>>

\* UlwState::start
StartLoop ==
    /\ turn.at = "prepare" /\ turn.kind = "ulw"
    /\ turn.loop = NoLoop
    /\ turn' = [turn EXCEPT !.loop = UlwStart]
    /\ loopFile' = UlwStart
    /\ founded' = {} /\ lastCheck' = "skipped"
    /\ UNCHANGED <<script, uiVars, sharedVars, run, followers, rows, kept, entered, pressed, final, recorded, abandoned>>

\* ulw_resume: a loop that is done is not resumed; one that is blocked, or was cut off, is.
ResumeLoop ==
    /\ turn.at = "prepare" /\ turn.kind = "resume"
    /\ turn.loop = NoLoop
    /\ IF loopFile.status \in {"none", "done"}
       THEN Send(turn.sess, FALSE, NoLoop) /\ UNCHANGED loopFile
       ELSE /\ loopFile' = [loopFile EXCEPT !.status = "running"]
            /\ turn' = [turn EXCEPT !.loop = loopFile']
    /\ UNCHANGED <<script, uiVars, sharedVars, run, followers, rows, kept, histVars>>

\* An error ends an autonomous loop.
Blocked(loop) == IF loop = NoLoop THEN loop ELSE [loop EXCEPT !.status = "blocked"]

SendError ==
    /\ Send(turn.sess, FALSE, Blocked(turn.loop))
    /\ loopFile' = IF InLoop THEN Blocked(turn.loop) ELSE loopFile

\* Classification or binding may fail.  A long conversation is compacted first, if that succeeds.
Prepare ==
    /\ turn.at = "prepare" /\ turn.kind # "compact"
    /\ InLoop => turn.loop # NoLoop
    /\ \/ /\ turn' = [turn EXCEPT !.at = "install"]
          /\ UNCHANGED diskVars
       \/ /\ turn.sess.msgs # {} /\ "compact" \in script.kinds
          /\ KeepCompacted(turn.sess)
          /\ turn' = [turn EXCEPT !.at = "install", !.sess = Compacted(@)]
          /\ UNCHANGED loopFile
       \/ SendError /\ UNCHANGED <<rows, kept>>
    /\ UNCHANGED <<script, uiVars, sharedVars, run, followers, histVars>>

\* Seeded fault: a run that is installed does not learn of an Esc that came before it.
InstallsRunning == FALSE

InstallsCancelled == cancelReq

\* install_active_run, under the lock of active_run.
Install ==
    /\ turn.at = "install"
    /\ turn' = [turn EXCEPT !.at = "observe"]
    /\ active' = TRUE
    /\ run' = [no |-> run.no + 1, state |-> "none", cancelled |-> InstallsCancelled]
    /\ UNCHANGED <<script, uiVars, cancelReq, shown, epoch, holder, asked, live, followers, diskVars, histVars>>

\* The observer subscribes to the run and moves the epoch on ...
Observe ==
    /\ turn.at = "observe"
    /\ Cardinality(DOMAIN followers) < MaxFollowers
    /\ turn' = [turn EXCEPT !.at = "show"]
    /\ epoch' = epoch + 1
    /\ followers' = [r \in DOMAIN followers \cup {run.no} |->
                        IF r = run.no THEN [turn |-> turn.no, seen |-> epoch', events |-> <<>>] ELSE followers[r]]
    /\ UNCHANGED <<script, uiVars, cancelReq, active, shown, holder, asked, live, run, diskVars, histVars>>

\* ... and displays it if nobody else did so since.
Show ==
    /\ turn.at = "show"
    /\ holder = 0
    /\ turn' = [turn EXCEPT !.at = "working"]
    /\ shown' = IF Current(followers[run.no].seen) THEN [turn |-> turn.no, state |-> run.state] ELSE shown
    /\ UNCHANGED <<script, uiVars, cancelReq, active, epoch, holder, asked, live, run, followers, diskVars, histVars>>

\* A transition of the run is an event for its follower.
Publish(state) ==
    /\ run' = [run EXCEPT !.state = state]
    /\ followers' = [followers EXCEPT ![run.no].events = Append(@, state)]

BeginRun ==
    /\ turn.at = "working"
    /\ run.state = "none" /\ ~run.cancelled
    /\ Publish("working")
    /\ UNCHANGED <<script, uiVars, sharedVars, turn, diskVars, histVars>>

\* A piece of the answer, or the whole of it, is sent to the display; there are few of them here.
Emit(event) ==
    /\ turn.at = "working" /\ run.state = "working"
    /\ event \in script.events
    /\ live = <<>>
    /\ live' = <<event>>
    /\ turn' = IF event = "answer" THEN [turn EXCEPT !.at = "answered"] ELSE turn
    /\ UNCHANGED <<script, uiVars, cancelReq, active, shown, epoch, holder, asked, run, followers, diskVars, histVars>>

\* A tool asks for approval.  The channel holds a question that nobody waits for no longer than the next.
Ask ==
    /\ turn.at = "working" /\ run.state = "working"
    /\ ~run.cancelled
    /\ script.asks
    /\ turn' = [turn EXCEPT !.at = "asking"]
    /\ asked' = "live"
    /\ UNCHANGED <<script, uiVars, cancelReq, active, shown, epoch, holder, live, run, followers, diskVars, histVars>>

\* Cancelled while it asks: the question stays where it is.
NoLongerWaits ==
    /\ turn.at = "asking"
    /\ run.cancelled
    /\ turn' = [turn EXCEPT !.at = "working"]
    /\ question' = IF question = "live" THEN "dead" ELSE question
    /\ asked' = IF asked = "live" THEN "dead" ELSE asked
    /\ UNCHANGED <<script, ui, busy, quitAfter, queue, sess, cancelReq, active, shown, epoch, holder, live, run, followers,
                   diskVars, histVars>>

\* The pipeline returns an outcome, or an error.
EndRun ==
    /\ turn.at \in {"working", "answered"}
    /\ run.state = "working" \/ run.cancelled
    /\ \E state \in IF run.cancelled THEN {"cancelled"} ELSE {"completed", "failed"} : Publish(state)
    /\ \/ turn' = [turn EXCEPT !.at = "record"] /\ UNCHANGED loopFile
       \/ SendError
    /\ UNCHANGED <<script, uiVars, sharedVars, rows, kept, histVars>>

\* The outcome is written to the database, then the conversation: if the first fails the turn
\* fails and its messages are lost; if the second fails nobody is told.
Record ==
    /\ turn.at = "record"
    /\ \/ /\ script.busyDb
          /\ SendError
          /\ UNCHANGED <<rows, kept, recorded>>
       \/ LET s == [turn.sess EXCEPT !.msgs = @ \cup {turn.no}, !.dirty = TRUE]
          IN \E ok \in DbAnswers :
                /\ Save(s, ok)
                /\ recorded' = recorded \cup {turn.no}
                /\ turn' = [turn EXCEPT !.at = IF InLoop THEN "judge" ELSE "sent", !.sess = Saved(s, ok), !.ok = TRUE]
                /\ UNCHANGED loopFile
    /\ UNCHANGED <<script, uiVars, sharedVars, run, followers, entered, pressed, final, abandoned, loopHist>>

\* The loop verifies what the run changed and judges: on to the next run, or the end.
Judge(report) ==
    LET loop == RecordRun(turn.loop, report)
    IN /\ turn.at = "judge"
       /\ turn' = [turn EXCEPT !.at = IF loop.status = "running" THEN "prepare" ELSE "sent", !.loop = loop]
       /\ loopFile' = loop
       /\ founded' = IF Failed(report) THEN founded ELSE founded \cup (IF report.all THEN Criteria ELSE report.matched)
       /\ lastCheck' = IF report.verify = "skipped" THEN lastCheck ELSE report.verify
       /\ UNCHANGED <<script, uiVars, sharedVars, run, followers, rows, kept, entered, pressed, final, recorded, abandoned>>

----------------------------------------------------------------------------
(***************************************************************************)
(* The program dies and is started again, on a new session or a stored one.*)
(***************************************************************************)
Volatile(s) ==
    /\ ui' = "loop" /\ busy' = FALSE /\ quitAfter' = FALSE /\ queue' = <<>> /\ question' = "none"
    /\ sess' = s
    /\ cancelReq' = FALSE /\ active' = FALSE /\ shown' = NoState /\ epoch' = 0 /\ holder' = 0
    /\ asked' = "none" /\ live' = <<>>
    /\ turn' = [NoTurn EXCEPT !.no = turn.no]
    /\ run' = [NoRun EXCEPT !.no = run.no]
    /\ followers' = <<>>
    /\ pressed' = FALSE /\ final' = NoState

Crash ==
    /\ script.crashes
    /\ ui # "closed"
    /\ script' = [script EXCEPT !.crashes = FALSE]
    /\ \E s \in {Empty} \cup {[id |-> i, msgs |-> rows[i], dirty |-> FALSE] : i \in Sessions} : Volatile(s)
    /\ abandoned' = abandoned \cup (recorded \ kept)
    /\ UNCHANGED <<diskVars, entered, recorded, loopHist>>

----------------------------------------------------------------------------
TermInit ==
    /\ script \in Scripts
    /\ ui = "loop" /\ busy = FALSE /\ quitAfter = FALSE /\ queue = <<>> /\ question = "none" /\ sess = Empty
    /\ cancelReq = FALSE /\ active = FALSE /\ shown = NoState /\ epoch = 0 /\ holder = 0
    /\ asked = "none" /\ live = <<>>
    /\ turn = NoTurn /\ run = NoRun /\ followers = <<>>
    /\ rows = <<>> /\ kept = {} /\ loopFile = NoLoop
    /\ entered = 0 /\ pressed = FALSE /\ final = NoState /\ recorded = {} /\ abandoned = {}
    /\ founded = {} /\ lastCheck = "skipped"

User == (\E kind \in script.kinds : Enter(kind)) \/ New \/ PressEsc \/ AnswerQuestion \/ QuitLater \/ Quit

Interface == CancelActive \/ ShowQuestion \/ ApplyLive \/ FinishTurn \/ FinishShows \/ ClearShown

Follower == \E r \in DOMAIN followers : FollowerLocks(r) \/ FollowerShows(r)

Work == StartLoop \/ ResumeLoop \/ Prepare \/ Compact \/ Install \/ Observe \/ Show \/ BeginRun

End == NoLongerWaits \/ EndRun \/ Record \/ \E report \in script.reports : Judge(report)

TermNext == User \/ Interface \/ Follower \/ Work \/ (\E event \in script.events : Emit(event)) \/ Ask \/ End \/ Crash

TermSpec == TermInit /\ [][TermNext]_termVars

\* Tasks go on, and the interface takes its ready events in random order (tokio::select!): none waits
\* for ever behind others.  The user need not press a key, and no tool has to ask.
Fairness ==
    /\ WF_termVars(CancelActive) /\ WF_termVars(FinishShows) /\ WF_termVars(ClearShown)
    /\ SF_termVars(ShowQuestion) /\ SF_termVars(ApplyLive) /\ SF_termVars(FinishTurn)
    /\ WF_termVars(Follower) /\ WF_termVars(Work) /\ WF_termVars(End)

TermFairSpec == TermSpec /\ Fairness

----------------------------------------------------------------------------
States == {"none", "working", "answering"} \cup EndStates

TermTypeOK ==
    /\ ui \in {"loop", "cancel", "finish", "clear", "closed"}
    /\ question \in {"none", "live", "dead"} /\ asked \in {"none", "live", "dead"}
    /\ shown.state \in States /\ shown.turn \in 0 .. turn.no
    /\ turn.kind \in script.kinds \cup {"none"}
    /\ run.state \in States
    /\ \A i \in Sessions : rows[i] \subseteq 1 .. turn.no
    /\ kept \subseteq 1 .. turn.no /\ recorded \subseteq 1 .. turn.no
    /\ holder \in DOMAIN followers \cup {0}
    /\ loopFile.met \subseteq Criteria /\ founded \subseteq Criteria
    /\ loopFile.runs \in 0 .. MaxLoopRuns + script.prompts - 1

\* What is displayed is the state of the running turn or, when none runs, what the last turn reported:
\* no follower of an earlier run, late answer or observer overwrites it (tui.rs: lifecycle_epoch).
ShownIsCurrent ==
    /\ ~busy /\ ui = "loop" /\ final # Unknown => shown = final
    /\ busy /\ ui # "clear" => shown.turn \in {0, turn.no}

\* Esc reaches the run of the turn it was pressed in, whenever it comes, and no other
\* (tui.rs: request_turn_cancel, install_active_run).
EscStopsItsTurn ==
    /\ run.cancelled => pressed
    /\ pressed /\ busy /\ active /\ ui # "cancel" => run.cancelled

\* Messages that were taken into the conversation stay in it or in the store, but for a session the
\* user left, a failure that was reported and a crash; a session that need not be saved is stored
\* as it is (chat.rs: save_if_dirty, compact_session).
SessionSafe ==
    /\ recorded \subseteq sess.msgs \cup turn.sess.msgs \cup kept \cup abandoned
    /\ ~busy /\ ~sess.dirty /\ sess.id # NoSession => rows[sess.id] = sess.msgs

\* A loop that is done has a finished todo for every criterion from a run whose verification did not
\* fail, whatever runs came between (ulw.rs: record_run).
DoneIsFounded == loopFile.status = "done" => founded = Criteria

\* Every turn ends and every queued prompt is taken up, unless the user has a question to answer
\* or leaves (tui.rs: finish_turn).
PromptsServed ==
    (busy \/ queue # <<>>) ~> ((~busy /\ queue = <<>>) \/ ui = "closed" \/ question = "live")

\* "코드 변경이 있었으면 ulw 가 직접 실행한 검증도 통과해야 한다": a loop is not done while the last
\* verification that ran failed (ulw.rs: record_run).
DoneIsVerified == loopFile.status = "done" => lastCheck \notin Failures
=============================================================================
