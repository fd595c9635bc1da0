----------------------------- MODULE RpcServer -----------------------------
(***************************************************************************)
(* The JSON-RPC server on stdin and stdout (rpc/): a reader that hands     *)
(* each request to a task under a permit, tasks that run turns on locked   *)
(* sessions and ask the client for approvals, forwarders of run events, a  *)
(* bounded queue of outgoing messages and a writer.                        *)
(*                                                                         *)
(* Run ids and approval ids are the turn that owns them: each turn is one  *)
(* run and asks at most one question.                                      *)
(***************************************************************************)
EXTENDS Naturals, Sequences, FiniteSets, SequencesExt

CONSTANTS
    Requests,
    Op,             \* the method of each request
    On,             \* its session, or the turn it cancels or answers
    Says,           \* decision of an approval.resolve
    Sessions,
    Scripts,        \* bound: what a client sends, with MAX_CONCURRENT_REQUESTS (8 in the code)
    Capacity,       \* WRITER_CAPACITY, 256 in the code
    Nobody

Ops == {"initialize", "open", "get", "turn", "cancel", "resolve", "other"}
Turns == {r \in Requests : Op[r] = "turn"}
Opens == {r \in Requests : Op[r] = "open"}

ASSUME RpcAssumption ==
    /\ Op \in [Requests -> Ops]
    /\ \A r \in Requests : /\ Op[r] \in {"open", "get", "turn"} => On[r] \in Sessions
                           /\ Op[r] \in {"cancel", "resolve"} => On[r] \in Turns
                           /\ Op[r] = "resolve" => Says[r] \in {"yes", "no"}
    /\ Scripts \subseteq [sends : SUBSET Requests, permits : Nat \ {0}, greeted : BOOLEAN,
                             patient : BOOLEAN] /\ Capacity \in Nat \ {0}
    /\ Nobody \notin Requests

VARIABLES
    script,                 \* of the client
    inbox, closed,          \* the client's end of the input
    known,                  \* runs and approvals the client was told of
    reader, current,        \* the loop of run and the request it holds
    initialized,
    task, permits,
    sessions,               \* RpcState::sessions: the open request that made each session object
    object, lock,           \* the object a request works on, and who holds or waits for each object
    runs, cancelled,        \* RpcState::runs, and the runs with a cancelled token
    approvals,              \* RpcState::approvals
    channel, listening,     \* the oneshot of each question: value sent, receiver alive
    outcome,                \* history: what the turn made of its question
    forward,                \* the forwarders of each run
    outbound, writer,
    told, replies           \* history: the last reply to each request, and how many

clientVars == <<script, inbox, closed, known>>
readerVars == <<reader, current, initialized>>
sessionVars == <<sessions, object, lock>>
approvalVars == <<approvals, channel, listening, outcome>>
outVars == <<outbound, writer, told, replies>>
vars == <<clientVars, readerVars, task, permits, sessionVars, runs, cancelled, approvalVars,
          forward, outVars>>

Stages == {"none", "start", "locking", "prepare", "working", "asking", "waiting", "expired",
           "removing", "ok", "error", "done"}
Readers == {"reading", "replying", "permit", "cancelling", "draining", "joining", "flushing",
            "returned", "failed"}
Holding == {"start", "locking", "prepare", "working", "asking", "waiting", "expired", "removing",
            "ok", "error"}
Messages == {<<k, r>> : k \in {"ok", "error"}, r \in Requests}
                \cup {<<k, t>> : k \in {"asked", "event"}, t \in Turns}

TypeOK ==
    /\ script \in Scripts
    /\ inbox \in Seq(Requests) /\ closed \in BOOLEAN
    /\ known \subseteq {<<k, t>> : k \in {"asked", "event"}, t \in Turns}
    /\ reader \in Readers /\ current \in Requests \cup {Nobody} /\ initialized \in BOOLEAN
    /\ task \in [Requests -> Stages]
    /\ permits + Cardinality({r \in Requests : task[r] \in Holding}) = script.permits
    /\ sessions \in [Sessions -> Opens \cup {Nobody}]
    /\ object \in [Requests -> Opens \cup {Nobody}] /\ lock \in [Opens -> Seq(Requests)]
    /\ runs \subseteq Turns /\ cancelled \subseteq runs
    /\ approvals \subseteq Turns /\ listening \subseteq Turns
    /\ channel \in [Turns -> {"empty", "yes", "no"}]
    /\ outcome \in [Turns -> {"none", "yes", "no", "expired", "dropped"}]
    /\ forward \in [Turns -> {"none", "first", "follow", "ended"}]
    /\ outbound \in Seq(Messages) /\ Len(outbound) <= Capacity
    /\ writer \in {"writing", "dead"}
    /\ told \in [Requests -> {"none", "ok", "error"}] /\ replies \in [Requests -> 0 .. 1]

Init ==
    /\ script \in Scripts
    /\ inbox = <<>> /\ closed = FALSE /\ known = {}
    /\ reader = "reading" /\ current = Nobody /\ initialized = script.greeted
    /\ task = [r \in Requests |-> "none"] /\ permits = script.permits
    /\ sessions = [s \in Sessions |-> Nobody]
    /\ object = [r \in Requests |-> Nobody] /\ lock = [o \in Opens |-> <<>>]
    /\ runs = {} /\ cancelled = {}
    /\ approvals = {} /\ listening = {}
    /\ channel = [t \in Turns |-> "empty"] /\ outcome = [t \in Turns |-> "none"]
    /\ forward = [t \in Turns |-> "none"]
    /\ outbound = <<>> /\ writer = "writing"
    /\ told = [r \in Requests |-> "none"] /\ replies = [r \in Requests |-> 0]

Stage(r, s) == task' = [task EXCEPT ![r] = s]
Up == reader \notin {"returned", "failed"}

\* outbound.send: waits for room, fails when the writer is gone.
Emit(m) == writer = "writing" /\ Len(outbound) < Capacity /\ outbound' = Append(outbound, m)
EmitFails == writer = "dead" /\ UNCHANGED outbound

-----------------------------------------------------------------------------
(* The client *)

\* Run ids and approval ids are random: the client learns them from notifications.
Send(r) ==
    /\ r \in script.sends
    /\ ~closed /\ task[r] = "none" /\ current # r /\ replies[r] = 0
    /\ \A i \in DOMAIN inbox : inbox[i] # r
    /\ \A i \in DOMAIN outbound : outbound[i] \notin {<<"ok", r>>, <<"error", r>>}
    /\ Op[r] = "resolve" => <<"asked", On[r]>> \in known
    /\ Op[r] = "cancel" => <<"event", On[r]>> \in known
    /\ inbox' = Append(inbox, r)
    /\ UNCHANGED <<script, closed, known, readerVars, task, permits, sessionVars, runs, cancelled,
                   approvalVars, forward, outVars>>

Close ==
    /\ ~closed /\ closed' = TRUE
    /\ UNCHANGED <<script, inbox, known, readerVars, task, permits, sessionVars, runs, cancelled,
                   approvalVars, forward, outVars>>

-----------------------------------------------------------------------------
(* The reader *)

\* initialize and every request before it are answered by the reader itself (so is a malformed
\* frame, which has the effect of an initialize that is refused).
ReadFrame ==
    /\ reader = "reading" /\ inbox # <<>>
    /\ inbox' = Tail(inbox) /\ current' = Head(inbox)
    /\ reader' = IF Op[Head(inbox)] = "initialize" \/ ~initialized
                 THEN "replying" ELSE "permit"
    /\ UNCHANGED <<script, closed, known, initialized, task, permits, sessionVars, runs, cancelled,
                   approvalVars, forward, outVars>>

\* initialize is refused when the client wants another protocol.
ReaderReplies ==
    /\ reader = "replying"
    /\ \/ \E reply \in {"ok", "error"} :
          /\ reply = "ok" => Op[current] = "initialize"
          /\ initialized' = (initialized \/ reply = "ok")
          /\ Emit(<<reply, current>>)
          /\ reader' = "reading" /\ current' = Nobody
       \/ EmitFails /\ reader' = "failed" /\ UNCHANGED <<current, initialized>>
    /\ UNCHANGED <<clientVars, task, permits, sessionVars, runs, cancelled, approvalVars, forward,
                   writer, told, replies>>

\* acquire_owned, then the task is spawned.
TakePermit ==
    /\ reader = "permit" /\ permits > 0
    /\ permits' = permits - 1
    /\ Stage(current, "start")
    /\ reader' = "reading" /\ current' = Nobody
    /\ UNCHANGED <<clientVars, initialized, sessionVars, runs, cancelled, approvalVars, forward,
                   outVars>>

ReadEof ==
    /\ reader = "reading" /\ inbox = <<>> /\ closed
    /\ reader' = "cancelling"
    /\ UNCHANGED <<clientVars, current, initialized, task, permits, sessionVars, runs, cancelled,
                   approvalVars, forward, outVars>>

\* An error of the input ends the server at once; the tasks are aborted with the JoinSet.
ReadFails ==
    /\ reader = "reading"
    /\ reader' = "failed"
    /\ UNCHANGED <<clientVars, current, initialized, task, permits, sessionVars, runs, cancelled,
                   approvalVars, forward, outVars>>

\* cancel_all, first lock: the runs that are registered now.
CancelRuns ==
    /\ reader = "cancelling"
    /\ cancelled' = runs
    /\ reader' = "draining"
    /\ UNCHANGED <<clientVars, current, initialized, task, permits, sessionVars, runs,
                   approvalVars, forward, outVars>>

\* cancel_all, second lock: the questions that are open now are answered "no".
DrainApprovals ==
    /\ reader = "draining"
    /\ channel' = [t \in Turns |-> IF t \in approvals /\ t \in listening THEN "no" ELSE channel[t]]
    /\ approvals' = {}
    /\ reader' = "joining"
    /\ UNCHANGED <<clientVars, current, initialized, task, permits, sessionVars, runs, cancelled,
                   listening, outcome, forward, outVars>>

JoinTasks ==
    /\ reader = "joining"
    /\ \A r \in Requests : task[r] \in {"none", "done"}
    /\ reader' = "flushing"
    /\ UNCHANGED <<clientVars, current, initialized, task, permits, sessionVars, runs, cancelled,
                   approvalVars, forward, outVars>>

\* The writer ends when the queue is empty and nobody can send any more.
Return ==
    /\ reader = "flushing"
    /\ \/ writer = "dead" /\ reader' = "failed"
       \/ /\ writer = "writing" /\ outbound = <<>>
          /\ \A t \in Turns : forward[t] \in {"none", "ended"}
          /\ reader' = "returned"
    /\ UNCHANGED <<clientVars, current, initialized, task, permits, sessionVars, runs, cancelled,
                   approvalVars, forward, outVars>>

Reader ==
    ReadFrame \/ ReaderReplies \/ TakePermit \/ ReadEof \/ CancelRuns \/ DrainApprovals \/ JoinTasks
    \/ Return

-----------------------------------------------------------------------------
(* Requests without a session *)

\* A session that is opened again gets a new object; turns on the old one go on.
Open(r) ==
    /\ task[r] = "start" /\ Op[r] = "open"
    /\ \/ sessions' = [sessions EXCEPT ![On[r]] = r] /\ Stage(r, "ok")
       \/ Stage(r, "error") /\ UNCHANGED sessions
    /\ UNCHANGED <<clientVars, readerVars, permits, object, lock, runs, cancelled, approvalVars,
                   forward, outVars>>

\* run.status and unknown methods.
Other(r) ==
    /\ task[r] = "start" /\ Op[r] = "other"
    /\ \E s \in {"ok", "error"} : Stage(r, s)
    /\ UNCHANGED <<clientVars, readerVars, permits, sessionVars, runs, cancelled, approvalVars,
                   forward, outVars>>

\* Seeded fault: a cancel goes through the session, whose lock the turn holds.
CancelRunLocked(r) ==
    /\ task[r] = "start" /\ Op[r] = "cancel"
    /\ lock[object[On[r]]] = <<>>
    /\ IF On[r] \in runs
       THEN cancelled' = cancelled \cup {On[r]} /\ Stage(r, "ok")
       ELSE Stage(r, "error") /\ UNCHANGED cancelled
    /\ UNCHANGED <<clientVars, readerVars, permits, sessionVars, runs, approvalVars, forward,
                   outVars>>

CancelRun(r) ==
    /\ task[r] = "start" /\ Op[r] = "cancel"
    /\ IF On[r] \in runs
       THEN cancelled' = cancelled \cup {On[r]} /\ Stage(r, "ok")
       ELSE Stage(r, "error") /\ UNCHANGED cancelled
    /\ UNCHANGED <<clientVars, readerVars, permits, sessionVars, runs, approvalVars, forward,
                   outVars>>

\* Seeded fault: the question stays in the map when it is answered.
ResolveKeepsSender(r) ==
    /\ task[r] = "start" /\ Op[r] = "resolve"
    /\ LET t == On[r] IN
       IF t \in approvals /\ t \in listening
       THEN channel' = [channel EXCEPT ![t] = Says[r]] /\ Stage(r, "ok")
       ELSE Stage(r, "error") /\ UNCHANGED channel
    /\ UNCHANGED <<clientVars, readerVars, permits, sessionVars, runs, cancelled, approvals,
                   listening, outcome, forward, outVars>>

\* The sender leaves the map under the lock; sending fails when the question is gone.
ResolveApproval(r) ==
    /\ task[r] = "start" /\ Op[r] = "resolve"
    /\ LET t == On[r] IN
       /\ approvals' = approvals \ {t}
       /\ IF t \in approvals /\ t \in listening
          THEN channel' = [channel EXCEPT ![t] = Says[r]] /\ Stage(r, "ok")
          ELSE Stage(r, "error") /\ UNCHANGED channel
    /\ UNCHANGED <<clientVars, readerVars, permits, sessionVars, runs, cancelled, listening,
                   outcome, forward, outVars>>

Respond(r) ==
    /\ task[r] \in {"ok", "error"}
    /\ Emit(<<task[r], r>>) \/ EmitFails
    /\ Stage(r, "done")
    /\ permits' = permits + 1
    /\ UNCHANGED <<clientVars, readerVars, sessionVars, runs, cancelled, approvalVars, forward,
                   writer, told, replies>>

-----------------------------------------------------------------------------
(* Requests on a session *)

FindSession(r) ==
    /\ task[r] = "start" /\ Op[r] \in {"get", "turn"}
    /\ LET o == sessions[On[r]] IN
       IF o # Nobody
       THEN /\ Stage(r, "locking")
            /\ object' = [object EXCEPT ![r] = o]
            /\ lock' = [lock EXCEPT ![o] = Append(@, r)]
       ELSE Stage(r, "error") /\ UNCHANGED <<object, lock>>
    /\ UNCHANGED <<clientVars, readerVars, permits, sessions, runs, cancelled, approvalVars,
                   forward, outVars>>

Holds(r) == Head(lock[object[r]]) = r
Release(r) == lock' = [lock EXCEPT ![object[r]] = Tail(@)]

GetSession(r) ==
    /\ task[r] = "locking" /\ Op[r] = "get" /\ Holds(r)
    /\ Release(r)
    /\ Stage(r, "ok")
    /\ UNCHANGED <<clientVars, readerVars, permits, sessions, object, runs, cancelled, approvalVars,
                   forward, outVars>>

BeginTurn(t) ==
    /\ task[t] = "locking" /\ Op[t] = "turn" /\ Holds(t)
    /\ Stage(t, "prepare")
    /\ UNCHANGED <<clientVars, readerVars, permits, sessionVars, runs, cancelled, approvalVars,
                   forward, outVars>>

\* run_turn_observed: classification, binding and compaction come before the run exists, and may fail.
PrepareFails(t) ==
    /\ task[t] = "prepare"
    /\ Release(t)
    /\ Stage(t, "error")
    /\ UNCHANGED <<clientVars, readerVars, permits, sessions, object, runs, cancelled, approvalVars,
                   forward, outVars>>

\* The observer registers the run and starts its forwarders.
Register(t) ==
    /\ task[t] = "prepare"
    /\ runs' = runs \cup {t}
    /\ forward' = [forward EXCEPT ![t] = "first"]
    /\ Stage(t, "working")
    /\ UNCHANGED <<clientVars, readerVars, permits, sessionVars, cancelled, approvalVars, outVars>>

\* The run ends, whatever happened to it: the lock is released before the reply is sent.
EndTurn(t) ==
    /\ task[t] = "working"
    /\ \E s \in {"ok", "error"} : Stage(t, s)
    /\ Release(t)
    /\ UNCHANGED <<clientVars, readerVars, permits, sessions, object, runs, cancelled, approvalVars,
                   forward, outVars>>

\* broker: the sender is in the map before the client hears of the question.
Ask(t) ==
    /\ task[t] = "working" /\ outcome[t] = "none"
    /\ approvals' = approvals \cup {t} /\ listening' = listening \cup {t}
    /\ Stage(t, "asking")
    /\ UNCHANGED <<clientVars, readerVars, permits, sessionVars, runs, cancelled, channel, outcome,
                   forward, outVars>>

AskSent(t) ==
    /\ task[t] = "asking"
    /\ Emit(<<"asked", t>>)
    /\ Stage(t, "waiting")
    /\ UNCHANGED <<clientVars, readerVars, permits, sessionVars, runs, cancelled, approvalVars,
                   forward, writer, told, replies>>

\* Nobody can hear the question: "no".
AskFails(t) ==
    /\ task[t] = "asking" /\ EmitFails
    /\ approvals' = approvals \ {t} /\ listening' = listening \ {t}
    /\ outcome' = [outcome EXCEPT ![t] = "no"]
    /\ Stage(t, "working")
    /\ UNCHANGED <<clientVars, readerVars, permits, sessionVars, runs, cancelled, channel, forward,
                   writer, told, replies>>

Answered(t) ==
    /\ task[t] = "waiting" /\ channel[t] # "empty"
    /\ outcome' = [outcome EXCEPT ![t] = channel[t]]
    /\ listening' = listening \ {t} /\ approvals' = approvals \ {t}
    /\ Stage(t, "working")
    /\ UNCHANGED <<clientVars, readerVars, permits, sessionVars, runs, cancelled, channel, forward,
                   outVars>>

\* timeout: the channel was empty when it was looked at, and 300 seconds are over ...
Expire(t) ==
    /\ task[t] = "waiting" /\ channel[t] = "empty"
    /\ Stage(t, "expired")
    /\ UNCHANGED <<clientVars, readerVars, permits, sessionVars, runs, cancelled, approvalVars,
                   forward, outVars>>

\* ... then the receiver is dropped ...
CloseReceiver(t) ==
    /\ task[t] = "expired"
    /\ listening' = listening \ {t}
    /\ outcome' = [outcome EXCEPT ![t] = "expired"]
    /\ Stage(t, "removing")
    /\ UNCHANGED <<clientVars, readerVars, permits, sessionVars, runs, cancelled, approvals,
                   channel, forward, outVars>>

\* ... and the sender leaves the map.
RemoveApproval(t) ==
    /\ task[t] = "removing"
    /\ approvals' = approvals \ {t}
    /\ Stage(t, "working")
    /\ UNCHANGED <<clientVars, readerVars, permits, sessionVars, runs, cancelled, channel,
                   listening, outcome, forward, outVars>>

\* decide_approval_or_cancel drops the broker's future, wherever it waits: the sender stays.
DropQuestion(t) ==
    /\ task[t] \in {"asking", "waiting"} /\ t \in cancelled
    /\ listening' = listening \ {t}
    /\ outcome' = [outcome EXCEPT ![t] = "dropped"]
    /\ Stage(t, "working")
    /\ UNCHANGED <<clientVars, readerVars, permits, sessionVars, runs, cancelled, approvals,
                   channel, forward, outVars>>

Task(r) ==
    \/ Open(r) \/ Other(r) \/ CancelRun(r) \/ ResolveApproval(r) \/ Respond(r)
    \/ FindSession(r) \/ GetSession(r) \/ BeginTurn(r) \/ PrepareFails(r) \/ Register(r)
    \/ EndTurn(r) \/ Ask(r) \/ AskSent(r) \/ AskFails(r) \/ Answered(r) \/ CloseReceiver(r)
    \/ RemoveApproval(r) \/ DropQuestion(r)

-----------------------------------------------------------------------------
(* Forwarders and writer *)

Finished(t) == task[t] \in {"ok", "error", "done"}

ForwardFirst(t) ==
    /\ forward[t] = "first"
    /\ Emit(<<"event", t>>)
    /\ forward' = [forward EXCEPT ![t] = "follow"]
    /\ UNCHANGED <<clientVars, readerVars, task, permits, sessionVars, runs, cancelled,
                   approvalVars, writer, told, replies>>

\* Seeded fault: the forwarder follows the bus past the end of its run.
ForwardOn(t) ==
    /\ forward[t] = "follow" /\ Finished(t)
    /\ Emit(<<"event", t>>)
    /\ UNCHANGED <<clientVars, readerVars, task, permits, sessionVars, runs, cancelled,
                   approvalVars, forward, writer, told, replies>>

\* The terminal event is the last one.
ForwardLast(t) ==
    /\ forward[t] = "follow" /\ Finished(t)
    /\ Emit(<<"event", t>>)
    /\ forward' = [forward EXCEPT ![t] = "ended"]
    /\ UNCHANGED <<clientVars, readerVars, task, permits, sessionVars, runs, cancelled,
                   approvalVars, writer, told, replies>>

\* A forwarder that lags behind its bus, or has no writer, ends early.
ForwardEnds(t) ==
    /\ forward[t] \in {"first", "follow"}
    /\ forward' = [forward EXCEPT ![t] = "ended"]
    /\ UNCHANGED <<clientVars, readerVars, task, permits, sessionVars, runs, cancelled,
                   approvalVars, outVars>>

Write ==
    /\ writer = "writing" /\ outbound # <<>>
    /\ outbound' = Tail(outbound)
    /\ LET kind == Head(outbound)[1] r == Head(outbound)[2] IN
       IF kind \in {"ok", "error"}
       THEN /\ told' = [told EXCEPT ![r] = kind]
            /\ replies' = [replies EXCEPT ![r] = @ + 1]
            /\ UNCHANGED known
       ELSE known' = known \cup {Head(outbound)} /\ UNCHANGED <<told, replies>>
    /\ UNCHANGED <<script, inbox, closed, readerVars, task, permits, sessionVars, runs, cancelled,
                   approvalVars, forward, writer>>

\* The client closed its end of the output.
WriterFails ==
    /\ writer = "writing"
    /\ writer' = "dead" /\ outbound' = <<>>
    /\ UNCHANGED <<clientVars, readerVars, task, permits, sessionVars, runs, cancelled,
                   approvalVars, forward, told, replies>>

Forward(t) == ForwardFirst(t) \/ ForwardLast(t) \/ (writer = "dead" /\ ForwardEnds(t))

-----------------------------------------------------------------------------

Client == (\E r \in Requests : Send(r)) \/ Close
Fault == ReadFails \/ WriterFails \/ \E t \in Turns : ForwardEnds(t)

Server ==
    \/ Reader \/ Write
    \/ \E r \in Requests : Task(r)
    \/ \E t \in Turns : Expire(t) \/ Forward(t)

Rest == ~Up /\ UNCHANGED vars

Next == (Up /\ (Client \/ Fault \/ Server)) \/ Rest

Spec == Init /\ [][Next]_vars

\* Tasks, the reader and the writer move when they can; the client reads what is written; a
\* question that nobody answers expires, unless the script leaves it open for ever.
Fairness ==
    /\ WF_vars(Up /\ Reader) /\ WF_vars(Up /\ Write)
    /\ \A r \in Requests : WF_vars(Up /\ Task(r))
    /\ \A t \in Turns : /\ WF_vars(Up /\ Forward(t))
                         /\ WF_vars(Up /\ ~script.patient /\ Expire(t))

FairSpec == Spec /\ Fairness

-----------------------------------------------------------------------------
(* Properties *)

Taken == {r \in Requests : task[r] # "none"}

\* Each request that was taken over is answered exactly once before the server returns.
OneReply ==
    /\ \A r \in Requests : replies[r] <= 1
    /\ reader = "returned" => \A r \in Taken : replies[r] = 1

\* The tool of a turn runs on a "yes" only when the client gave it to this question; of several
\* answers one is confirmed, and the confirmed one is what counted, unless the question was over.
AnswersCount ==
    \A t \in Turns :
        LET confirmed == {r \in Requests : Op[r] = "resolve" /\ On[r] = t
                                           /\ (told[r] = "ok" \/ task[r] = "ok")}
        IN /\ Cardinality(confirmed) <= 1
           /\ outcome[t] = "yes" => \E r \in Requests : Op[r] = "resolve" /\ On[r] = t /\ Says[r] = "yes"
                                                         /\ task[r] \in {"ok", "done"}
           /\ \A r \in confirmed : outcome[t] \in {"none", Says[r], "expired", "dropped"}

\* Every request, an answer to a question included, is dealt with once, and what it was told is true.
RepliesAreTrue == OneReply /\ AnswersCount

\* When the client closes the input the server ends.
ServerEnds == (closed /\ ~script.patient) ~> ~Up

\* Answers and cancels that the server has not dealt with.
Commands ==
    {r \in Requests : /\ Op[r] \in {"resolve", "cancel"}
                      /\ current = r \/ task[r] \in Holding \/ \E i \in DOMAIN inbox : inbox[i] = r}

\* With a permit to spare, answers and cancels are dealt with before any question expires.
CommandsAreHeard ==
    (script.patient /\ script.permits > Cardinality(Turns) /\ Commands # {})
        ~> (Commands = {} \/ ~Up)
=============================================================================
