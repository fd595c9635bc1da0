-------------------------- MODULE RpcServerProofs --------------------------
(***************************************************************************)
(* Proofs about RpcServer, for any requests, sessions and capacity: where  *)
(* a request is (PlaceInv), whose turn it is on a session (LockInv), what  *)
(* a question and its answers went through (QuestionInv, AnswerInv).       *)
(***************************************************************************)
EXTENDS RpcServer, FiniteSetTheorems, TLAPS

-----------------------------------------------------------------------------
(* Queues *)

Inside(s, x) == \E i \in DOMAIN s : s[i] = x
Once(s) == \A i, j \in DOMAIN s : s[i] = s[j] => i = j

IsReply(m) == m[1] \in {"ok", "error"}
OncePerRequest(s) ==
    \A i, j \in DOMAIN s : IsReply(s[i]) /\ IsReply(s[j]) /\ s[i][2] = s[j][2] => i = j

LEMMA AppendTyped ==
  ASSUME NEW S, NEW s \in Seq(S), NEW e \in S
  PROVE  /\ Append(s, e) \in Seq(S) /\ Len(Append(s, e)) = Len(s) + 1
         /\ DOMAIN Append(s, e) = 1 .. (Len(s) + 1) /\ DOMAIN s = 1 .. Len(s) /\ Len(s) \in Nat
         /\ \A i \in 1 .. Len(s) : Append(s, e)[i] = s[i]
         /\ Append(s, e)[Len(s) + 1] = e
OBVIOUS

LEMMA TailTyped ==
  ASSUME NEW S, NEW s \in Seq(S), s # <<>>
  PROVE  /\ Tail(s) \in Seq(S) /\ Len(Tail(s)) = Len(s) - 1
         /\ DOMAIN Tail(s) = 1 .. (Len(s) - 1) /\ DOMAIN s = 1 .. Len(s) /\ Len(s) \in Nat \ {0}
         /\ \A i \in 1 .. (Len(s) - 1) : Tail(s)[i] = s[i + 1]
         /\ Head(s) = s[1] /\ Head(s) \in S
OBVIOUS

\* What is inside a queue after a put ...
LEMMA AppendInside ==
  ASSUME NEW S, NEW s \in Seq(S), NEW e \in S
  PROVE  /\ \A x : Inside(Append(s, e), x) <=> (Inside(s, x) \/ x = e)
         /\ Once(s) /\ ~Inside(s, e) => Once(Append(s, e))
         /\ s # <<>> => Head(Append(s, e)) = Head(s)
         /\ s = <<>> => Head(Append(s, e)) = e
<1> DEFINE a == Append(s, e)
           n == Len(s)
<1>1. /\ DOMAIN a = 1 .. (n + 1) /\ DOMAIN s = 1 .. n /\ n \in Nat
      /\ \A i \in 1 .. n : a[i] = s[i]
      /\ a[n + 1] = e
  BY AppendTyped
<1>2. /\ s # <<>> => Head(a) = Head(s)
      /\ s = <<>> => Head(a) = e
  OBVIOUS
<1> HIDE DEF a, n
<1>3. \A i \in 1 .. (n + 1) : i \in 1 .. n \/ i = n + 1
  BY <1>1
<1>4. \A i \in 1 .. n : i \in 1 .. (n + 1)
  BY <1>1
<1>5. n + 1 \in 1 .. (n + 1) /\ n + 1 \notin 1 .. n
  BY <1>1
<1>6. ASSUME NEW x PROVE Inside(a, x) <=> (Inside(s, x) \/ x = e)
  BY <1>1, <1>3, <1>4, <1>5 DEF Inside
<1>7. ASSUME Once(s), ~Inside(s, e) PROVE Once(a)
  BY <1>1, <1>3, <1>7 DEF Inside, Once
<1> QED BY <1>2, <1>6, <1>7 DEF a

\* ... and after a take.
LEMMA TailInside ==
  ASSUME NEW S, NEW s \in Seq(S), s # <<>>
  PROVE  /\ \A x : Inside(s, x) <=> (Inside(Tail(s), x) \/ x = Head(s))
         /\ Once(s) => Once(Tail(s)) /\ ~Inside(Tail(s), Head(s))
<1> DEFINE t == Tail(s)
           n == Len(s)
<1>1. /\ DOMAIN t = 1 .. (n - 1) /\ DOMAIN s = 1 .. n /\ n \in Nat \ {0}
      /\ \A i \in 1 .. (n - 1) : t[i] = s[i + 1]
      /\ Head(s) = s[1]
  BY TailTyped
<1> HIDE DEF t, n
<1>2. \A i \in 1 .. (n - 1) : i + 1 \in 1 .. n /\ i + 1 # 1
  BY <1>1
<1>3. \A i \in 1 .. n : i = 1 \/ (i - 1 \in 1 .. (n - 1) /\ (i - 1) + 1 = i)
  BY <1>1
<1>4. 1 \in 1 .. n
  BY <1>1
<1>5. ASSUME NEW x PROVE Inside(s, x) <=> (Inside(t, x) \/ x = Head(s))
  <2>1. ASSUME Inside(s, x) PROVE Inside(t, x) \/ x = Head(s)
    <3>1. PICK i \in 1 .. n : s[i] = x
      BY <2>1, <1>1 DEF Inside
    <3>2. CASE i = 1
      BY <3>1, <3>2, <1>1
    <3>3. CASE i # 1
      <4>1. i - 1 \in 1 .. (n - 1) /\ t[i - 1] = x
        BY <3>1, <3>3, <1>1, <1>3
      <4> QED BY <4>1, <1>1 DEF Inside
    <3> QED BY <3>2, <3>3
  <2>2. ASSUME Inside(t, x) \/ x = Head(s) PROVE Inside(s, x)
    BY <2>2, <1>1, <1>2, <1>4 DEF Inside
  <2> QED BY <2>1, <2>2
<1>6. ASSUME Once(s) PROVE Once(t) /\ ~Inside(t, Head(s))
  <2>1. \A i, j \in 1 .. (n - 1) : i + 1 = j + 1 => i = j
    BY <1>1
  <2>2. Once(t)
    BY <1>6, <1>1, <1>2, <2>1 DEF Once
  <2>3. ~Inside(t, Head(s))
    BY <1>6, <1>1, <1>2, <1>4 DEF Once, Inside
  <2> QED BY <2>2, <2>3
<1> QED BY <1>5, <1>6 DEF t

\* A message is its kind and its request.
LEMMA MessageIs ==
  ASSUME NEW m \in Messages
  PROVE  /\ m = <<m[1], m[2]>> /\ m[1] \in {"ok", "error", "asked", "event"} /\ m[2] \in Requests
         /\ ~IsReply(m) => m[1] \in {"asked", "event"} /\ m[2] \in Turns
BY DEF Messages, IsReply, Turns

LEMMA AppendOneReply ==
  ASSUME NEW s \in Seq(Messages), NEW m \in Messages, OncePerRequest(s),
         IsReply(m) => ~Inside(s, <<"ok", m[2]>>) /\ ~Inside(s, <<"error", m[2]>>)
  PROVE  OncePerRequest(Append(s, m))
<1> DEFINE a == Append(s, m)
           n == Len(s)
<1>1. /\ DOMAIN a = 1 .. (n + 1) /\ DOMAIN s = 1 .. n /\ n \in Nat
      /\ \A i \in 1 .. n : a[i] = s[i] /\ s[i] \in Messages
      /\ a[n + 1] = m
  BY AppendTyped
<1> HIDE DEF a, n
<1>2. \A i \in 1 .. (n + 1) : i \in 1 .. n \/ i = n + 1
  BY <1>1
<1>3. ASSUME NEW i \in 1 .. n, IsReply(s[i]), IsReply(m), s[i][2] = m[2] PROVE FALSE
  <2>1. s[i] = <<s[i][1], m[2]>> /\ s[i][1] \in {"ok", "error"}
    BY <1>1, <1>3, MessageIs DEF IsReply
  <2> QED BY <1>1, <1>3, <2>1 DEF Inside
<1> QED BY <1>1, <1>2, <1>3 DEF OncePerRequest, a

LEMMA TailOneReply ==
  ASSUME NEW s \in Seq(Messages), s # <<>>, OncePerRequest(s)
  PROVE  /\ OncePerRequest(Tail(s))
         /\ IsReply(Head(s)) => /\ ~Inside(Tail(s), <<"ok", Head(s)[2]>>)
                                /\ ~Inside(Tail(s), <<"error", Head(s)[2]>>)
<1> DEFINE t == Tail(s)
           n == Len(s)
<1>1. /\ DOMAIN t = 1 .. (n - 1) /\ DOMAIN s = 1 .. n /\ n \in Nat \ {0}
      /\ \A i \in 1 .. (n - 1) : t[i] = s[i + 1]
      /\ Head(s) = s[1]
  BY TailTyped
<1> HIDE DEF t, n
<1>2. \A i \in 1 .. (n - 1) : i + 1 \in 1 .. n /\ i + 1 # 1
  BY <1>1
<1>3. 1 \in 1 .. n /\ \A i, j \in 1 .. (n - 1) : i + 1 = j + 1 => i = j
  BY <1>1
<1>4. OncePerRequest(t)
  <2> SUFFICES ASSUME NEW i \in 1 .. (n - 1), NEW j \in 1 .. (n - 1),
                      IsReply(t[i]), IsReply(t[j]), t[i][2] = t[j][2]
               PROVE  i = j
    BY <1>1 DEF OncePerRequest
  <2>1. i + 1 \in 1 .. n /\ j + 1 \in 1 .. n /\ t[i] = s[i + 1] /\ t[j] = s[j + 1]
    BY <1>1, <1>2
  <2>2. i + 1 = j + 1
    BY <1>1, <2>1, Zenon DEF OncePerRequest
  <2> QED BY <1>3, <2>2
<1>5. ASSUME IsReply(Head(s)), NEW k \in {"ok", "error"}, Inside(t, <<k, Head(s)[2]>>) PROVE FALSE
  <2>1. PICK i \in 1 .. (n - 1) : t[i] = <<k, Head(s)[2]>>
    BY <1>5, <1>1 DEF Inside
  <2>2. IsReply(s[i + 1]) /\ s[i + 1][2] = s[1][2]
    BY <1>1, <1>5, <2>1 DEF IsReply
  <2>3. i + 1 = 1
    BY <1>1, <1>2, <1>3, <1>5, <2>2 DEF OncePerRequest
  <2> QED BY <2>3, <1>2
<1> QED BY <1>4, <1>5 DEF t

-----------------------------------------------------------------------------
(* The inductive invariant *)

Queued(r) == Inside(inbox, r)
Sent(m) == Inside(outbound, m)
Reply(r) == Sent(<<"ok", r>>) \/ Sent(<<"error", r>>)

\* The queues hold no request and no reply twice.
QueueInv == Once(inbox) /\ OncePerRequest(outbound)

\* The stages of a request that waits for its session or has it.
InTurn == {"prepare", "working", "asking", "waiting", "expired", "removing"}
OnSession == InTurn \cup {"locking"}
StageInv(r) ==
    /\ task[r] = "locking" => Op[r] \in {"get", "turn"}
    /\ task[r] \in InTurn => Op[r] = "turn"

\* A permit is free or held by a task.
Busy == {r \in Requests : task[r] \in Holding}
PermitInv ==
    /\ IsFiniteSet(Busy) /\ permits \in Nat
    /\ permits + Cardinality(Busy) = script.permits

\* The queue of a lock holds the requests that wait for the object, behind the one that has it.
LockInv ==
    /\ \A r \in Requests : /\ task[r] \in OnSession => object[r] \in Opens
                           /\ task[r] \in InTurn => Head(lock[object[r]]) = r
    /\ \A o \in Opens : \A r \in Requests :
          Inside(lock[o], r) <=> (task[r] \in OnSession /\ object[r] = o)
    /\ \A o \in Opens : Once(lock[o])

\* A request is in one place: in the input, with the reader, in a task or answered, and it is
\* answered once.
PlaceInv(r) ==
    /\ Queued(r) => task[r] = "none" /\ current # r /\ ~Reply(r) /\ replies[r] = 0
    /\ current = r => task[r] = "none" /\ ~Reply(r) /\ replies[r] = 0
    /\ task[r] \in Holding => ~Reply(r) /\ replies[r] = 0
    /\ Reply(r) => replies[r] = 0
    /\ task[r] = "done" => writer = "dead" \/ Reply(r) \/ replies[r] = 1

ReaderInv ==
    /\ reader \in {"replying", "permit"} => current \in Requests
    /\ reader \notin {"replying", "permit", "failed"} => current = Nobody
    /\ reader \in {"flushing", "returned"} => \A r \in Requests : task[r] \in {"none", "done"}
    /\ reader = "returned" => writer = "writing" /\ outbound = <<>>

\* The client knows of the question of t, or will.
Heard(t) == <<"asked", t>> \in known
Asked(t) == Sent(<<"asked", t>>) \/ Heard(t)
Waits(t) == task[t] \in {"asking", "waiting", "expired"}

\* What a question went through.
QuestionInv(t) ==
    /\ t \in listening <=> Waits(t)
    /\ Waits(t) => outcome[t] = "none"
    /\ task[t] = "removing" => outcome[t] = "expired"
    /\ outcome[t] = "none" /\ ~Waits(t) => t \notin approvals /\ channel[t] = "empty"
    /\ outcome[t] = "none" /\ task[t] \notin {"waiting", "expired"} => ~Asked(t)
    /\ t \in approvals => channel[t] = "empty"
    /\ outcome[t] = "yes" => channel[t] = "yes"
    /\ outcome[t] = "no" => channel[t] = "no" \/ ~Asked(t)

\* r is an answer that was confirmed.
Won(r) == Op[r] = "resolve" /\ (task[r] = "ok" \/ Sent(<<"ok", r>>) \/ told[r] = "ok")
Accepted(r) == Op[r] = "resolve" /\ task[r] \in {"ok", "done"}

\* An answer is sent to a question the client heard of; the first one counts.
AnswerInv ==
    /\ \A r \in Requests :
          Op[r] = "resolve" /\ (Queued(r) \/ current = r \/ task[r] # "none") => Heard(On[r])
    /\ \A r \in Requests : Won(r) => Accepted(r) /\ channel[On[r]] = Says[r]
    /\ \A q, r \in Requests : Won(q) /\ Won(r) /\ On[q] = On[r] => q = r
    /\ \A t \in Turns : channel[t] = "yes" =>
          \E r \in Requests : Accepted(r) /\ On[r] = t /\ Says[r] = "yes"

IInv ==
    /\ TypeOK /\ QueueInv /\ PermitInv /\ LockInv /\ ReaderInv /\ AnswerInv
    /\ \A r \in Requests : StageInv(r) /\ PlaceInv(r)
    /\ \A t \in Turns : QuestionInv(t)

-----------------------------------------------------------------------------
(* Permits *)

\* A task goes from one stage to another under its permit.
Works(r) ==
    \E s \in Holding : task[r] \in Holding /\ Stage(r, s) /\ UNCHANGED <<permits, script>>

LEMMA TaskCases ==
  ASSUME TypeOK, \A r \in Requests : StageInv(r), [Next]_vars
  PROVE  \/ UNCHANGED <<task, permits, script>>
         \/ \E r \in Requests : Works(r)
         \/ TakePermit
         \/ \E r \in Requests : Respond(r)
<1> USE DEF Works, Stage, Holding, clientVars, readerVars, sessionVars, approvalVars, outVars
<1>1. CASE UNCHANGED vars
  BY <1>1 DEF vars
<1>2. ASSUME NEW r \in Requests, Send(r) PROVE UNCHANGED <<task, permits, script>>
  BY <1>2 DEF Send
<1>3. ASSUME Close \/ ReadFails \/ WriterFails \/ Write \/ Rest
      PROVE UNCHANGED <<task, permits, script>>
  BY <1>3 DEF Close, ReadFails, WriterFails, Write, Rest, vars
<1>4. ASSUME Reader PROVE TakePermit \/ UNCHANGED <<task, permits, script>>
  BY <1>4 DEF Reader, ReadFrame, ReaderReplies, ReadEof, CancelRuns, DrainApprovals,
              JoinTasks, Return
<1>5. ASSUME NEW t \in Turns, Forward(t) \/ ForwardEnds(t) PROVE UNCHANGED <<task, permits, script>>
  BY <1>5 DEF Forward, ForwardEnds, ForwardFirst, ForwardLast
<1>6. ASSUME NEW t \in Turns, Expire(t) PROVE Works(t)
  BY <1>6 DEF Expire
<1>7. ASSUME NEW r \in Requests, Task(r) PROVE Works(r) \/ Respond(r)
  <2>1. CASE Open(r) \/ Other(r) \/ CancelRun(r) \/ ResolveApproval(r)
    BY <2>1 DEF Open, Other, CancelRun, ResolveApproval
  <2>2. CASE FindSession(r) \/ GetSession(r) \/ BeginTurn(r)
    BY <2>2 DEF FindSession, GetSession, BeginTurn
  <2>3. CASE PrepareFails(r) \/ Register(r) \/ EndTurn(r) \/ Ask(r)
    BY <2>3 DEF PrepareFails, Register, EndTurn, Ask
  <2>4. CASE AskSent(r) \/ AskFails(r) \/ Answered(r)
    BY <2>4 DEF AskSent, AskFails, Answered
  <2>5. CASE CloseReceiver(r) \/ RemoveApproval(r) \/ DropQuestion(r)
    BY <2>5 DEF CloseReceiver, RemoveApproval, DropQuestion
  <2> QED BY <1>7, <2>1, <2>2, <2>3, <2>4, <2>5 DEF Task
<1> QED BY <1>1, <1>2, <1>3, <1>4, <1>5, <1>6, <1>7 DEF Next, Client, Fault, Server, Turns

LEMMA PermitStep ==
  ASSUME TypeOK, ReaderInv, PermitInv, \A r \in Requests : StageInv(r) /\ PlaceInv(r), [Next]_vars
  PROVE  PermitInv'
<1> USE DEF PermitInv
<1>0. task \in [Requests -> Stages]
  BY DEF TypeOK
<1>1. CASE UNCHANGED <<task, permits, script>>
  <2>1. Busy' = Busy
    BY <1>1 DEF Busy
  <2> QED BY <1>1, <2>1
<1>2. ASSUME NEW r \in Requests, Works(r) PROVE PermitInv'
  <2>1. Busy' = Busy
    BY <1>0, <1>2 DEF Works, Busy, Stage
  <2>2. permits' = permits /\ script' = script
    BY <1>2 DEF Works
  <2> QED BY <2>1, <2>2
<1>3. CASE TakePermit
  <2>1. current \in Requests /\ task[current] = "none"
    BY <1>3 DEF ReaderInv, PlaceInv, TakePermit
  <2>2. Busy' = Busy \cup {current} /\ current \notin Busy
    BY <1>0, <1>3, <2>1 DEF TakePermit, Busy, Stage, Holding
  <2>3. IsFiniteSet(Busy') /\ Cardinality(Busy') = Cardinality(Busy) + 1
    BY <2>2, FS_AddElement
  <2>4. Cardinality(Busy) \in Nat
    BY FS_CardinalityType
  <2>5. permits > 0 /\ permits' = permits - 1 /\ script' = script
    BY <1>3 DEF TakePermit, clientVars
  <2> HIDE DEF Busy
  <2> QED BY <2>3, <2>4, <2>5
<1>4. ASSUME NEW r \in Requests, Respond(r) PROVE PermitInv'
  <2>2. Busy' = Busy \ {r} /\ r \in Busy
    BY <1>0, <1>4 DEF Respond, Busy, Stage, Holding
  <2>3. IsFiniteSet(Busy') /\ Cardinality(Busy') = Cardinality(Busy) - 1
    BY <2>2, FS_RemoveElement
  <2>4. Cardinality(Busy) \in Nat
    BY FS_CardinalityType
  <2>5. permits' = permits + 1 /\ script' = script
    BY <1>4 DEF Respond, clientVars
  <2> HIDE DEF Busy
  <2> QED BY <2>3, <2>4, <2>5
<1> QED BY <1>1, <1>2, <1>3, <1>4, TaskCases

-----------------------------------------------------------------------------
(* Stages and locks *)

\* What a task's step does to stages and locks.
Inner(r) ==
    \E s \in Stages :
       /\ task[r] \in OnSession /\ s \in OnSession /\ (task[r] = "locking" => Head(lock[object[r]]) = r)
       /\ task[r] \in InTurn => s \in InTurn
       /\ s \in InTurn => Op[r] = "turn"
       /\ Stage(r, s) /\ UNCHANGED <<object, lock>>
Outer(r) ==
    \E s \in Stages :
       /\ task[r] \notin OnSession /\ s \notin OnSession
       /\ Stage(r, s) /\ UNCHANGED <<object, lock>>
Leaves(r) ==
    \E s \in Stages :
       /\ task[r] \in OnSession /\ s \notin OnSession /\ Head(lock[object[r]]) = r
       /\ Stage(r, s) /\ Release(r) /\ UNCHANGED object
Queues(r) ==
    \E o \in Opens :
       /\ task[r] = "start" /\ Op[r] \in {"get", "turn"} /\ Stage(r, "locking")
       /\ object' = [object EXCEPT ![r] = o] /\ lock' = [lock EXCEPT ![o] = Append(@, r)]

LEMMA LockCases ==
  ASSUME TypeOK, LockInv, ReaderInv, \A r \in Requests : StageInv(r) /\ PlaceInv(r), [Next]_vars
  PROVE  \/ UNCHANGED <<task, object, lock>>
         \/ \E r \in Requests : Inner(r) \/ Outer(r) \/ Leaves(r) \/ Queues(r)
<1> USE DEF Stage, Stages, OnSession, InTurn, clientVars, readerVars, sessionVars, approvalVars, outVars
<1>1. CASE UNCHANGED vars
  BY <1>1 DEF vars
<1>2. ASSUME NEW r \in Requests, Send(r) PROVE UNCHANGED <<task, object, lock>>
  BY <1>2 DEF Send
<1>3. ASSUME Close \/ ReadFails \/ WriterFails \/ Write \/ Rest
      PROVE UNCHANGED <<task, object, lock>>
  BY <1>3 DEF Close, ReadFails, WriterFails, Write, Rest, vars
<1>4. ASSUME Reader PROVE UNCHANGED <<task, object, lock>> \/ \E r \in Requests : Outer(r)
  <2>1. CASE TakePermit
    <3>1. current \in Requests /\ task[current] = "none"
      BY <2>1 DEF ReaderInv, PlaceInv, TakePermit
    <3> QED BY <2>1, <3>1 DEF TakePermit, Outer
  <2> QED BY <1>4, <2>1 DEF Reader, ReadFrame, ReaderReplies, ReadEof, CancelRuns, DrainApprovals,
              JoinTasks, Return
<1>5. ASSUME NEW t \in Turns, Forward(t) \/ ForwardEnds(t) PROVE UNCHANGED <<task, object, lock>>
  BY <1>5 DEF Forward, ForwardEnds, ForwardFirst, ForwardLast
<1>6. ASSUME NEW t \in Turns, Expire(t) PROVE Inner(t)
  BY <1>6 DEF Expire, Inner, Turns
<1>7. ASSUME NEW r \in Requests, Task(r) PROVE Inner(r) \/ Outer(r) \/ Leaves(r) \/ Queues(r)
  <2>0. StageInv(r) /\ (task[r] \in InTurn => Head(lock[object[r]]) = r)
    BY DEF LockInv
  <2>1. CASE Open(r) \/ Other(r) \/ CancelRun(r) \/ ResolveApproval(r) \/ Respond(r)
    BY <2>1 DEF Open, Other, CancelRun, ResolveApproval, Respond, Outer
  <2>2. CASE FindSession(r)
    <3>1. Op[r] \in {"get", "turn"} /\ sessions[On[r]] \in Opens \cup {Nobody}
      BY <2>2, RpcAssumption DEF FindSession, TypeOK
    <3> QED BY <2>2, <3>1 DEF FindSession, Outer, Queues
  <2>3. CASE GetSession(r) \/ BeginTurn(r)
    BY <2>3 DEF GetSession, BeginTurn, Leaves, Inner, Holds
  <2>4. CASE PrepareFails(r) \/ EndTurn(r)
    BY <2>0, <2>4 DEF PrepareFails, EndTurn, Leaves
  <2>5. CASE Register(r) \/ Ask(r) \/ AskSent(r) \/ AskFails(r) \/ Answered(r)
    BY <2>0, <2>5 DEF Register, Ask, AskSent, AskFails, Answered, Inner, StageInv
  <2>6. CASE CloseReceiver(r) \/ RemoveApproval(r) \/ DropQuestion(r)
    BY <2>0, <2>6 DEF CloseReceiver, RemoveApproval, DropQuestion, Inner, StageInv
  <2> QED BY <1>7, <2>1, <2>2, <2>3, <2>4, <2>5, <2>6 DEF Task
<1> QED BY <1>1, <1>2, <1>3, <1>4, <1>5, <1>6, <1>7 DEF Next, Client, Fault, Server, Turns

LEMMA LockStep ==
  ASSUME TypeOK, LockInv, ReaderInv, \A r \in Requests : StageInv(r) /\ PlaceInv(r), [Next]_vars
  PROVE  /\ LockInv' /\ \A r \in Requests : StageInv(r)'
         /\ lock' \in [Opens -> Seq(Requests)] /\ task' \in [Requests -> Stages]
<1>0. /\ task \in [Requests -> Stages] /\ object \in [Requests -> Opens \cup {Nobody}]
      /\ lock \in [Opens -> Seq(Requests)] /\ Nobody \notin Opens
  BY RpcAssumption DEF TypeOK, Opens
<1>1. CASE UNCHANGED <<task, object, lock>>
  BY <1>0, <1>1 DEF LockInv, StageInv
<1>2. ASSUME NEW r \in Requests, Inner(r) \/ Outer(r)
      PROVE /\ LockInv' /\ \A q \in Requests : StageInv(q)'
            /\ lock' \in [Opens -> Seq(Requests)] /\ task' \in [Requests -> Stages]
  <2>1. PICK s \in Stages :
          /\ task' = [task EXCEPT ![r] = s] /\ object' = object /\ lock' = lock
          /\ task[r] \in OnSession <=> s \in OnSession
          /\ s \in InTurn => Op[r] = "turn" /\ Head(lock[object[r]]) = r
          /\ s # "locking" \/ Op[r] \in {"get", "turn"}
    BY <1>2 DEF Inner, Outer, Stage, LockInv, StageInv, OnSession
  <2>2. task' \in [Requests -> Stages] /\ \A q \in Requests : task'[q] = IF q = r THEN s ELSE task[q]
    BY <1>0, <2>1
  <2>3. \A q \in Requests : StageInv(q)'
    BY <2>1, <2>2 DEF StageInv
  <2>4. \A q \in Requests : (task[q] \in OnSession) <=> (task'[q] \in OnSession)
    BY <2>1, <2>2
  <2>5. LockInv'
    BY <2>1, <2>2, <2>4 DEF LockInv
  <2> QED BY <1>0, <2>1, <2>2, <2>3, <2>5
<1>3. ASSUME NEW r \in Requests, Leaves(r)
      PROVE /\ LockInv' /\ \A q \in Requests : StageInv(q)'
            /\ lock' \in [Opens -> Seq(Requests)] /\ task' \in [Requests -> Stages]
  <2> DEFINE o == object[r]
             l == lock[o]
  <2>1. PICK s \in Stages :
          /\ task' = [task EXCEPT ![r] = s] /\ object' = object /\ Head(l) = r
          /\ lock' = [lock EXCEPT ![o] = Tail(@)]
          /\ task[r] \in OnSession /\ s \notin OnSession
    BY <1>3 DEF Leaves, Stage, Release
  <2>2. task' \in [Requests -> Stages] /\ \A q \in Requests : task'[q] = IF q = r THEN s ELSE task[q]
    BY <1>0, <2>1
  <2>3. o \in Opens /\ l \in Seq(Requests) /\ Inside(l, r) /\ Once(l)
    BY <1>0, <2>1 DEF LockInv
  <2>4. l # <<>>
    BY <2>3 DEF Inside
  <2>5. /\ lock' \in [Opens -> Seq(Requests)]
        /\ \A p \in Opens : lock'[p] = IF p = o THEN Tail(l) ELSE lock[p]
    BY <1>0, <2>1, <2>3, <2>4, TailTyped
  <2>6. /\ \A x : Inside(l, x) <=> (Inside(Tail(l), x) \/ x = r)
        /\ Once(Tail(l)) /\ ~Inside(Tail(l), r)
    BY <2>1, <2>3, <2>4, TailInside
  <2>7. \A q \in Requests : StageInv(q)'
    BY <2>1, <2>2 DEF StageInv, OnSession
  <2>8. \A q \in Requests : task[q] \in InTurn /\ object[q] = o => q = r
    BY <2>1, <2>3 DEF LockInv
  <2>9. InTurn \subseteq OnSession
    BY DEF OnSession
  <2> HIDE DEF l, o
  <2>10. \A q \in Requests : /\ task'[q] \in OnSession => object'[q] \in Opens
                             /\ task'[q] \in InTurn => Head(lock'[object'[q]]) = q
    <3> SUFFICES ASSUME NEW q \in Requests, task'[q] \in OnSession
                 PROVE  /\ object'[q] \in Opens
                        /\ task'[q] \in InTurn => Head(lock'[object'[q]]) = q
      BY <2>9
    <3>1. q # r /\ task'[q] = task[q] /\ object'[q] = object[q] /\ object[q] \in Opens
      BY <2>1, <2>2 DEF LockInv
    <3>2. task[q] \in InTurn => object[q] # o
      BY <2>8, <3>1
    <3> QED BY <3>1, <3>2, <2>5 DEF LockInv
  <2>11. ASSUME NEW p \in Opens, NEW q \in Requests
         PROVE  Inside(lock'[p], q) <=> (task'[q] \in OnSession /\ object'[q] = p)
    <3>1. Inside(lock[p], q) <=> (task[q] \in OnSession /\ object[q] = p)
      BY DEF LockInv
    <3> QED BY <3>1, <2>1, <2>2, <2>5, <2>6 DEF l, o
  <2>12. \A p \in Opens : Once(lock'[p])
    BY <2>5, <2>6 DEF LockInv
  <2>13. LockInv'
    BY <2>10, <2>11, <2>12 DEF LockInv
  <2> QED BY <2>2, <2>5, <2>7, <2>13
<1>4. ASSUME NEW r \in Requests, Queues(r)
      PROVE /\ LockInv' /\ \A q \in Requests : StageInv(q)'
            /\ lock' \in [Opens -> Seq(Requests)] /\ task' \in [Requests -> Stages]
  <2>1. PICK o \in Opens :
          /\ task' = [task EXCEPT ![r] = "locking"] /\ task[r] = "start" /\ Op[r] \in {"get", "turn"}
          /\ object' = [object EXCEPT ![r] = o] /\ lock' = [lock EXCEPT ![o] = Append(@, r)]
    BY <1>4 DEF Queues, Stage
  <2> DEFINE l == lock[o]
  <2>2. task' \in [Requests -> Stages] /\ \A q \in Requests : task'[q] = IF q = r THEN "locking" ELSE task[q]
    BY <1>0, <2>1 DEF Stages
  <2>3. l \in Seq(Requests) /\ Once(l) /\ ~Inside(l, r)
    BY <1>0, <2>1 DEF LockInv, OnSession, InTurn
  <2>4. /\ lock' \in [Opens -> Seq(Requests)]
        /\ \A p \in Opens : lock'[p] = IF p = o THEN Append(l, r) ELSE lock[p]
    BY <1>0, <2>1, <2>3, AppendTyped
  <2>5. /\ \A x : Inside(Append(l, r), x) <=> (Inside(l, x) \/ x = r)
        /\ Once(Append(l, r))
        /\ l # <<>> => Head(Append(l, r)) = Head(l)
    BY <2>3, AppendInside
  <2>6. \A q \in Requests : object'[q] = IF q = r THEN o ELSE object[q]
    BY <1>0, <2>1
  <2>7. \A q \in Requests : StageInv(q)'
    BY <2>1, <2>2 DEF StageInv, InTurn
  <2>8. "locking" \in OnSession /\ "locking" \notin InTurn /\ "start" \notin OnSession
        /\ InTurn \subseteq OnSession
    BY DEF OnSession, InTurn
  <2> HIDE DEF l
  <2>10. \A q \in Requests : /\ task'[q] \in OnSession => object'[q] \in Opens
                             /\ task'[q] \in InTurn => Head(lock'[object'[q]]) = q
    <3> SUFFICES ASSUME NEW q \in Requests, task'[q] \in OnSession
                 PROVE  /\ object'[q] \in Opens
                        /\ task'[q] \in InTurn => Head(lock'[object'[q]]) = q
      BY <2>8
    <3>1. CASE q = r
      BY <3>1, <2>1, <2>2, <2>6, <2>8
    <3>2. CASE q # r
      <4>1. /\ task'[q] = task[q] /\ object'[q] = object[q] /\ object[q] \in Opens
            /\ task[q] \in InTurn => Head(lock[object[q]]) = q /\ Inside(lock[object[q]], q)
        BY <3>2, <2>2, <2>6, <2>8 DEF LockInv
      <4>2. task[q] \in InTurn => lock[object[q]] # <<>>
        BY <4>1 DEF Inside
      <4> QED BY <4>1, <4>2, <2>4, <2>5 DEF l
    <3> QED BY <3>1, <3>2
  <2>11. ASSUME NEW p \in Opens, NEW q \in Requests
         PROVE  Inside(lock'[p], q) <=> (task'[q] \in OnSession /\ object'[q] = p)
    <3>1. Inside(lock[p], q) <=> (task[q] \in OnSession /\ object[q] = p)
      BY DEF LockInv
    <3>2. ~Inside(lock[p], r)
      BY <2>1, <2>8 DEF LockInv
    <3> QED BY <3>1, <3>2, <2>1, <2>2, <2>4, <2>5, <2>6, <2>8 DEF l
  <2>12. \A p \in Opens : Once(lock'[p])
    BY <2>4, <2>5 DEF LockInv
  <2>13. LockInv'
    BY <2>10, <2>11, <2>12 DEF LockInv
  <2> QED BY <2>2, <2>4, <2>7, <2>13
<1> QED BY <1>1, <1>2, <1>3, <1>4, LockCases

-----------------------------------------------------------------------------
(* Places *)

\* A step that moves no request from one place to another.
Background ==
    /\ UNCHANGED <<inbox, current, told, replies, writer>>
    /\ UNCHANGED task \/ \E r \in Requests : Works(r)
    /\ UNCHANGED outbound \/ \E m \in Messages : ~IsReply(m) /\ Emit(m)

LEMMA PlaceCases ==
  ASSUME TypeOK, \A r \in Requests : StageInv(r), [Next]_vars
  PROVE  \/ \E r \in Requests : Send(r) \/ Respond(r)
         \/ ReadFrame \/ ReaderReplies \/ TakePermit \/ Write \/ WriterFails
         \/ Background
<1> USE DEF Background, Works, Stage, Holding, clientVars, readerVars, sessionVars, approvalVars, outVars
<1>1. CASE UNCHANGED vars
  BY <1>1 DEF vars
<1>3. ASSUME Close \/ ReadFails \/ Rest PROVE Background
  BY <1>3 DEF Close, ReadFails, Rest, vars
<1>4. ASSUME Reader PROVE ReadFrame \/ ReaderReplies \/ TakePermit \/ Background
  BY <1>4 DEF Reader, ReadEof, CancelRuns, DrainApprovals, JoinTasks, Return
<1>5. ASSUME NEW t \in Turns, Forward(t) \/ ForwardEnds(t) PROVE Background
  <2>1. <<"event", t>> \in Messages /\ ~IsReply(<<"event", t>>)
    BY DEF Messages, IsReply
  <2> QED BY <1>5, <2>1 DEF Forward, ForwardEnds, ForwardFirst, ForwardLast
<1>6. ASSUME NEW t \in Turns, Expire(t) PROVE Background
  BY <1>6 DEF Expire, Turns
<1>7. ASSUME NEW r \in Requests, Task(r) PROVE Respond(r) \/ Background
  <2>1. CASE Open(r) \/ Other(r) \/ CancelRun(r) \/ ResolveApproval(r)
    BY <2>1 DEF Open, Other, CancelRun, ResolveApproval
  <2>2. CASE FindSession(r) \/ GetSession(r) \/ BeginTurn(r)
    BY <2>2 DEF FindSession, GetSession, BeginTurn
  <2>3. CASE PrepareFails(r) \/ Register(r) \/ EndTurn(r) \/ Ask(r)
    BY <2>3 DEF PrepareFails, Register, EndTurn, Ask
  <2>4. CASE AskSent(r)
    <3>1. <<"asked", r>> \in Messages /\ ~IsReply(<<"asked", r>>)
      BY <1>7, <2>4 DEF AskSent, StageInv, InTurn, Turns, Messages, IsReply
    <3> QED BY <2>4, <3>1 DEF AskSent
  <2>5. CASE AskFails(r) \/ Answered(r)
    BY <2>5 DEF AskFails, Answered, EmitFails
  <2>6. CASE CloseReceiver(r) \/ RemoveApproval(r) \/ DropQuestion(r)
    BY <2>6 DEF CloseReceiver, RemoveApproval, DropQuestion
  <2> QED BY <1>7, <2>1, <2>2, <2>3, <2>4, <2>5, <2>6 DEF Task
<1> QED BY <1>1, <1>3, <1>4, <1>5, <1>6, <1>7 DEF Next, Client, Fault, Server, Turns

\* What the steps do to the two queues.
LEMMA EmitEffect ==
  ASSUME TypeOK, QueueInv, NEW m \in Messages, Emit(m),
         IsReply(m) => ~Reply(m[2])
  PROVE  /\ outbound' \in Seq(Messages) /\ Len(outbound') <= Capacity /\ OncePerRequest(outbound')
         /\ \A x : Sent(x)' <=> (Sent(x) \/ x = m)
  BY AppendInside, AppendOneReply, AppendTyped, RpcAssumption
     DEF TypeOK, QueueInv, Emit, Reply, Sent

LEMMA SendEffect ==
  ASSUME TypeOK, QueueInv, NEW r \in Requests, Send(r)
  PROVE  /\ inbox' \in Seq(Requests) /\ Once(inbox')
         /\ \A x : Queued(x)' <=> (Queued(x) \/ x = r)
         /\ ~Queued(r) /\ ~Reply(r)
<1>1. inbox \in Seq(Requests) /\ Once(inbox) /\ inbox' = Append(inbox, r)
  BY DEF TypeOK, QueueInv, Send
<1>2. ~Inside(inbox, r) /\ ~Inside(outbound, <<"ok", r>>) /\ ~Inside(outbound, <<"error", r>>)
  BY DEF Send, Inside
<1>3. inbox' \in Seq(Requests)
  BY <1>1
<1> QED BY <1>1, <1>2, <1>3, AppendInside DEF Queued, Sent, Reply

LEMMA ReadEffect ==
  ASSUME TypeOK, QueueInv, ReadFrame
  PROVE  /\ inbox' \in Seq(Requests) /\ Once(inbox')
         /\ Head(inbox) \in Requests /\ current' = Head(inbox)
         /\ \A x : Queued(x)' <=> (Queued(x) /\ x # Head(inbox))
         /\ Queued(Head(inbox))
  BY TailInside, TailTyped DEF TypeOK, QueueInv, ReadFrame, Queued

LEMMA WriteEffect ==
  ASSUME TypeOK, QueueInv, Write
  PROVE  /\ outbound' \in Seq(Messages) /\ Len(outbound') <= Capacity /\ OncePerRequest(outbound')
         /\ Head(outbound) \in Messages
         /\ \A x : Sent(x) <=> (Sent(x)' \/ x = Head(outbound))
         /\ \A r : IsReply(Head(outbound)) /\ r = Head(outbound)[2] => ~Reply(r)'
<1>1. /\ outbound \in Seq(Messages) /\ outbound # <<>> /\ outbound' = Tail(outbound)
      /\ OncePerRequest(outbound) /\ Len(outbound) <= Capacity /\ Capacity \in Nat
  BY RpcAssumption DEF TypeOK, QueueInv, Write
<1>2. outbound' \in Seq(Messages) /\ Len(outbound') = Len(outbound) - 1 /\ Head(outbound) \in Messages
      /\ Len(outbound) \in Nat
  BY <1>1, TailTyped
<1>3. \A x : Inside(outbound, x) <=> (Inside(outbound', x) \/ x = Head(outbound))
  BY <1>1, TailInside
<1>4. /\ OncePerRequest(outbound')
      /\ IsReply(Head(outbound)) => /\ ~Inside(outbound', <<"ok", Head(outbound)[2]>>)
                                    /\ ~Inside(outbound', <<"error", Head(outbound)[2]>>)
  BY <1>1, TailOneReply
<1>5. Len(outbound') <= Capacity
  BY <1>1, <1>2
<1>6. \A r : IsReply(Head(outbound)) /\ r = Head(outbound)[2] => ~Reply(r)'
  BY <1>1, <1>4 DEF Reply, Sent
<1> QED BY <1>2, <1>3, <1>4, <1>5, <1>6 DEF Sent

LEMMA FailsEffect ==
  ASSUME WriterFails
  PROVE  outbound' \in Seq(Messages) /\ Len(outbound') = 0 /\ OncePerRequest(outbound') /\ \A x : ~Sent(x)'
  BY DEF WriterFails, OncePerRequest, Sent, Inside

\* Queues and places.
Parts == TypeOK /\ QueueInv /\ ReaderInv /\ \A r \in Requests : StageInv(r) /\ PlaceInv(r)

LEMMA PlaceStep ==
  ASSUME Parts, [Next]_vars
  PROVE  /\ QueueInv' /\ \A r \in Requests : PlaceInv(r)'
         /\ inbox' \in Seq(Requests) /\ outbound' \in Seq(Messages) /\ Len(outbound') <= Capacity
         /\ replies' \in [Requests -> 0 .. 1]
<1> DEFINE Goal == /\ QueueInv' /\ \A r \in Requests : PlaceInv(r)'
                   /\ inbox' \in Seq(Requests) /\ outbound' \in Seq(Messages)
                   /\ Len(outbound') <= Capacity /\ replies' \in [Requests -> 0 .. 1]
<1>0. /\ TypeOK /\ QueueInv /\ \A r \in Requests : StageInv(r) /\ PlaceInv(r)
      /\ inbox \in Seq(Requests) /\ outbound \in Seq(Messages) /\ Len(outbound) <= Capacity
      /\ task \in [Requests -> Stages] /\ replies \in [Requests -> 0 .. 1]
      /\ Once(inbox) /\ OncePerRequest(outbound) /\ Nobody \notin Requests
      /\ Capacity \in Nat \ {0}
  BY RpcAssumption DEF Parts, TypeOK, QueueInv
<1>1. ASSUME NEW r \in Requests, Send(r) PROVE Goal
  <2>1. /\ inbox' \in Seq(Requests) /\ Once(inbox') /\ ~Reply(r)
        /\ \A x : Queued(x)' <=> (Queued(x) \/ x = r)
    BY <1>0, <1>1, SendEffect
  <2>2. /\ UNCHANGED <<outbound, task, current, replies, writer>>
        /\ task[r] = "none" /\ current # r /\ replies[r] = 0
    BY <1>1 DEF Send, readerVars, outVars
  <2>3. \A x : Sent(x)' <=> Sent(x)
    BY <2>2 DEF Sent
  <2>4. ASSUME NEW q \in Requests PROVE PlaceInv(q)'
    BY <1>0, <2>1, <2>2, <2>3 DEF PlaceInv, Reply
  <2> QED BY <1>0, <2>1, <2>2, <2>4 DEF QueueInv
<1>2. CASE ReadFrame
  <2> DEFINE h == Head(inbox)
  <2>1. /\ inbox' \in Seq(Requests) /\ Once(inbox') /\ h \in Requests /\ current' = h
        /\ \A x : Queued(x)' <=> (Queued(x) /\ x # h)
        /\ Queued(h)
    BY <1>0, <1>2, ReadEffect
  <2>2. UNCHANGED <<outbound, task, replies, writer>>
    BY <1>2 DEF ReadFrame, outVars
  <2>3. \A x : Sent(x)' <=> Sent(x)
    BY <2>2 DEF Sent
  <2> HIDE DEF h
  <2>4. ASSUME NEW q \in Requests PROVE PlaceInv(q)'
    BY <1>0, <2>1, <2>2, <2>3 DEF PlaceInv, Reply
  <2> QED BY <1>0, <2>1, <2>2, <2>4 DEF QueueInv
<1>3. CASE ReaderReplies
  <2>1. CASE UNCHANGED <<current, outbound>>
    <3>1. UNCHANGED <<inbox, outbound, task, current, replies, writer>>
      BY <1>3, <2>1 DEF ReaderReplies, clientVars
    <3>2. \A q \in Requests : PlaceInv(q)'
      BY <1>0, <3>1 DEF PlaceInv, Reply, Sent, Queued
    <3> QED BY <1>0, <3>1, <3>2 DEF QueueInv
  <2>2. ASSUME NEW k \in {"ok", "error"}, Emit(<<k, current>>), current' = Nobody PROVE Goal
    <3>0. current \in Requests
      BY <1>3 DEF Parts, ReaderInv, ReaderReplies
    <3>1. UNCHANGED <<inbox, task, replies, writer>>
      BY <1>3 DEF ReaderReplies, clientVars
    <3>2. <<k, current>> \in Messages /\ <<k, current>>[2] = current
      BY <3>0 DEF Messages
    <3>3. ~Reply(current) /\ task[current] = "none" /\ replies[current] = 0 /\ ~Queued(current)
      BY <1>0, <3>0 DEF PlaceInv
    <3>4. /\ outbound' \in Seq(Messages) /\ Len(outbound') <= Capacity /\ OncePerRequest(outbound')
          /\ \A x : Sent(x)' <=> (Sent(x) \/ x = <<k, current>>)
      BY <1>0, <2>2, <3>2, <3>3, EmitEffect
    <3>5. \A x : Queued(x)' <=> Queued(x)
      BY <3>1 DEF Queued
    <3>6. ASSUME NEW q \in Requests PROVE PlaceInv(q)'
      BY <1>0, <2>2, <3>0, <3>1, <3>3, <3>4, <3>5 DEF PlaceInv, Reply, Holding
    <3> QED BY <1>0, <3>1, <3>4, <3>6 DEF QueueInv
  <2> QED BY <1>3, <2>1, <2>2 DEF ReaderReplies, EmitFails
<1>4. CASE TakePermit
  <2>1. /\ UNCHANGED <<inbox, outbound, replies, writer>> /\ current' = Nobody
        /\ task' = [task EXCEPT ![current] = "start"] /\ current \in Requests
    BY <1>4 DEF TakePermit, Parts, ReaderInv, clientVars, outVars, Stage
  <2>2. \A q \in Requests : task'[q] = IF q = current THEN "start" ELSE task[q]
    BY <1>0, <2>1
  <2>3. ~Reply(current) /\ replies[current] = 0 /\ ~Queued(current)
    BY <1>0, <2>1 DEF PlaceInv
  <2>4. \A x : (Queued(x)' <=> Queued(x)) /\ (Sent(x)' <=> Sent(x))
    BY <2>1 DEF Queued, Sent
  <2>5. ASSUME NEW q \in Requests PROVE PlaceInv(q)'
    BY <1>0, <2>1, <2>2, <2>3, <2>4 DEF PlaceInv, Reply
  <2> QED BY <1>0, <2>1, <2>5 DEF QueueInv
<1>5. ASSUME NEW r \in Requests, Respond(r) PROVE Goal
  <2>1. /\ UNCHANGED <<inbox, current, replies, writer>> /\ task[r] \in {"ok", "error"}
        /\ task' = [task EXCEPT ![r] = "done"]
        /\ Emit(<<task[r], r>>) \/ EmitFails
    BY <1>5 DEF Respond, clientVars, readerVars, Stage
  <2>2. \A q \in Requests : task'[q] = IF q = r THEN "done" ELSE task[q]
    BY <1>0, <2>1
  <2>3. ~Reply(r) /\ replies[r] = 0 /\ ~Queued(r) /\ current # r
    BY <1>0, <2>1 DEF PlaceInv, Holding
  <2>4. \A x : Queued(x)' <=> Queued(x)
    BY <2>1 DEF Queued
  <2>5. CASE EmitFails
    <3>1. /\ outbound' = outbound /\ writer = "dead" /\ \A x : Sent(x)' <=> Sent(x)
      BY <2>5 DEF EmitFails, Sent
    <3>2. ASSUME NEW q \in Requests PROVE PlaceInv(q)'
      BY <1>0, <2>1, <2>2, <2>3, <2>4, <3>1 DEF PlaceInv, Reply, Holding
    <3> QED BY <1>0, <2>1, <3>1, <3>2 DEF QueueInv
  <2>6. CASE Emit(<<task[r], r>>)
    <3> DEFINE k == task[r]
    <3>1. <<k, r>> \in Messages /\ <<k, r>>[2] = r /\ k \in {"ok", "error"}
      BY <2>1 DEF Messages
    <3>2. /\ outbound' \in Seq(Messages) /\ Len(outbound') <= Capacity /\ OncePerRequest(outbound')
          /\ \A x : Sent(x)' <=> (Sent(x) \/ x = <<k, r>>)
      BY <1>0, <2>3, <2>6, <3>1, EmitEffect
    <3> HIDE DEF k
    <3>3. ASSUME NEW q \in Requests PROVE PlaceInv(q)'
      BY <1>0, <2>1, <2>2, <2>3, <2>4, <3>1, <3>2 DEF PlaceInv, Reply, Holding
    <3> QED BY <1>0, <2>1, <3>2, <3>3 DEF QueueInv
  <2> QED BY <2>1, <2>5, <2>6
<1>6. CASE Write
  <2> DEFINE h == Head(outbound)
  <2>1. /\ outbound' \in Seq(Messages) /\ Len(outbound') <= Capacity /\ OncePerRequest(outbound')
        /\ h \in Messages
        /\ \A x : Sent(x) <=> (Sent(x)' \/ x = h)
        /\ \A r : IsReply(h) /\ r = h[2] => ~Reply(r)'
    BY <1>0, <1>6, WriteEffect
  <2>2. UNCHANGED <<inbox, current, task, writer>>
    BY <1>6 DEF Write, readerVars
  <2>3. /\ ~IsReply(h) => replies' = replies
        /\ IsReply(h) => replies' = [replies EXCEPT ![h[2]] = @ + 1]
    BY <1>6 DEF Write, IsReply
  <2> HIDE DEF h
  <2>4. h = <<h[1], h[2]>> /\ h[2] \in Requests
    BY <2>1, MessageIs
  <2>5. IsReply(h) => Reply(h[2]) /\ h[1] \in {"ok", "error"}
    BY <2>1, <2>4 DEF IsReply, Reply
  <2>6. IsReply(h) => replies[h[2]] = 0
    BY <1>0, <2>4, <2>5 DEF PlaceInv
  <2>7. /\ replies' \in [Requests -> 0 .. 1]
        /\ \A q \in Requests : replies'[q] = IF IsReply(h) /\ q = h[2] THEN 1 ELSE replies[q]
    BY <1>0, <2>3, <2>4, <2>6
  <2>8. \A x : Queued(x)' <=> Queued(x)
    BY <2>2 DEF Queued
  <2>9. ASSUME NEW q \in Requests PROVE PlaceInv(q)'
    <3>1. CASE IsReply(h) /\ q = h[2]
      <4>1. Reply(q) /\ ~Reply(q)' /\ replies'[q] = 1
        BY <2>1, <2>5, <2>7, <3>1
      <4> QED BY <1>0, <2>2, <2>8, <4>1 DEF PlaceInv
    <3>2. CASE ~(IsReply(h) /\ q = h[2])
      <4>1. <<"ok", q>> # h /\ <<"error", q>> # h
        BY <3>2, <2>4 DEF IsReply
      <4>2. (Reply(q)' <=> Reply(q)) /\ replies'[q] = replies[q]
        BY <2>1, <2>7, <3>2, <4>1 DEF Reply
      <4> QED BY <1>0, <2>2, <2>8, <4>2 DEF PlaceInv
    <3> QED BY <3>1, <3>2
  <2> QED BY <1>0, <2>1, <2>2, <2>7, <2>9 DEF QueueInv
<1>7. CASE WriterFails
  <2>1. /\ outbound' \in Seq(Messages) /\ Len(outbound') = 0 /\ OncePerRequest(outbound')
        /\ \A x : ~Sent(x)'
    BY <1>7, FailsEffect
  <2>2. UNCHANGED <<inbox, current, task, replies>> /\ writer' = "dead"
    BY <1>7 DEF WriterFails, clientVars, readerVars
  <2>3. ASSUME NEW q \in Requests PROVE PlaceInv(q)'
    BY <1>0, <2>1, <2>2 DEF PlaceInv, Reply, Queued
  <2> QED BY <1>0, <2>1, <2>2, <2>3 DEF QueueInv
<1>8. CASE Background
  <2>1. UNCHANGED <<inbox, current, replies, writer>>
    BY <1>8 DEF Background
  <2>2. /\ outbound' \in Seq(Messages) /\ Len(outbound') <= Capacity /\ OncePerRequest(outbound')
        /\ \A r : Reply(r)' <=> Reply(r)
    <3>1. CASE UNCHANGED outbound
      BY <1>0, <3>1 DEF Reply, Sent
    <3>2. ASSUME NEW m \in Messages, ~IsReply(m), Emit(m)
          PROVE  /\ outbound' \in Seq(Messages) /\ Len(outbound') <= Capacity
                 /\ OncePerRequest(outbound') /\ \A r : Reply(r)' <=> Reply(r)
      <4>1. /\ outbound' \in Seq(Messages) /\ Len(outbound') <= Capacity /\ OncePerRequest(outbound')
            /\ \A x : Sent(x)' <=> (Sent(x) \/ x = m)
        BY <1>0, <3>2, EmitEffect
      <4>2. \A r : m # <<"ok", r>> /\ m # <<"error", r>>
        BY <3>2 DEF IsReply
      <4> QED BY <4>1, <4>2 DEF Reply
    <3> QED BY <1>8, <3>1, <3>2 DEF Background
  <2>3. \A x : Queued(x)' <=> Queued(x)
    BY <2>1 DEF Queued
  <2>4. \A q \in Requests : task'[q] = task[q] \/ (task[q] \in Holding /\ task'[q] \in Holding)
    BY <1>0, <1>8 DEF Background, Works, Stage
  <2>5. ASSUME NEW q \in Requests PROVE PlaceInv(q)'
    BY <1>0, <2>1, <2>2, <2>3, <2>4 DEF PlaceInv, Holding
  <2> QED BY <1>0, <2>1, <2>2, <2>5 DEF QueueInv
<1> QED BY <1>0, <1>1, <1>2, <1>3, <1>4, <1>5, <1>6, <1>7, <1>8, PlaceCases

-----------------------------------------------------------------------------
(* The reader and the types *)

LEMMA ReaderStep ==
  ASSUME Parts, [Next]_vars
  PROVE  ReaderInv'
<1>0. /\ TypeOK /\ ReaderInv /\ \A r \in Requests : StageInv(r) /\ PlaceInv(r)
      /\ task \in [Requests -> Stages]
  BY DEF Parts, TypeOK
<1> USE DEF clientVars, readerVars, sessionVars, approvalVars, outVars
<1>1. CASE UNCHANGED vars
  BY <1>0, <1>1 DEF vars, ReaderInv
<1>2. CASE Rest
  BY <1>0, <1>2 DEF vars, ReaderInv, Rest
<1>3. CASE Reader
  <2>1. CASE ReadFrame
    <3>1. Head(inbox) \in Requests
      BY <2>1, TailTyped DEF ReadFrame, Parts, TypeOK
    <3> QED BY <2>1, <3>1 DEF ReadFrame, ReaderInv
  <2>2. CASE ReaderReplies
    BY <1>0, <2>2 DEF ReaderReplies, ReaderInv
  <2>3. CASE TakePermit \/ ReadEof \/ CancelRuns \/ DrainApprovals
    BY <1>0, <2>3 DEF TakePermit, ReadEof, CancelRuns, DrainApprovals, ReaderInv
  <2>4. CASE JoinTasks \/ Return
    BY <1>0, <2>4 DEF JoinTasks, Return, ReaderInv
  <2> QED BY <1>3, <2>1, <2>2, <2>3, <2>4 DEF Reader
<1>4. CASE ReadFails
  BY <1>4 DEF ReadFails, ReaderInv
<1>5. ASSUME Up, UNCHANGED <<reader, current>> PROVE ReaderInv'
  <2>1. reader # "returned" /\ reader # "failed"
    BY <1>5 DEF Up
  <2>2. ASSUME reader = "flushing", NEW q \in Requests PROVE task'[q] \in {"none", "done"}
    <3>1. UNCHANGED task
      BY <1>0, <1>5, <2>2, TaskCases DEF Works, TakePermit, Respond, ReaderInv, Holding
    <3> QED BY <1>0, <2>2, <3>1 DEF ReaderInv
  <2> QED BY <1>0, <1>5, <2>1, <2>2 DEF ReaderInv
<1>6. ASSUME Next, ~Rest PROVE Reader \/ ReadFails \/ (Up /\ UNCHANGED <<reader, current>>)
  <2>1. Up /\ (Client \/ Fault \/ Server)
    BY <1>6 DEF Next
  <2>2. ASSUME NEW r \in Requests, Send(r) PROVE UNCHANGED <<reader, current>>
    BY <2>2 DEF Send
  <2>3. CASE Close \/ WriterFails \/ Write
    BY <2>1, <2>3 DEF Close, WriterFails, Write
  <2>4. ASSUME NEW t \in Turns, Forward(t) \/ ForwardEnds(t) \/ Expire(t)
        PROVE  UNCHANGED <<reader, current>>
    BY <2>4 DEF Forward, ForwardEnds, ForwardFirst, ForwardLast, Expire
  <2>5. ASSUME NEW r \in Requests, Task(r) PROVE UNCHANGED <<reader, current>>
    <3>1. CASE Open(r) \/ Other(r) \/ CancelRun(r) \/ ResolveApproval(r) \/ Respond(r)
      BY <3>1 DEF Open, Other, CancelRun, ResolveApproval, Respond
    <3>2. CASE FindSession(r) \/ GetSession(r) \/ BeginTurn(r) \/ PrepareFails(r) \/ Register(r)
      BY <3>2 DEF FindSession, GetSession, BeginTurn, PrepareFails, Register
    <3>3. CASE EndTurn(r) \/ Ask(r) \/ AskSent(r) \/ AskFails(r) \/ Answered(r)
      BY <3>3 DEF EndTurn, Ask, AskSent, AskFails, Answered
    <3>4. CASE CloseReceiver(r) \/ RemoveApproval(r) \/ DropQuestion(r)
      BY <3>4 DEF CloseReceiver, RemoveApproval, DropQuestion
    <3> QED BY <2>5, <3>1, <3>2, <3>3, <3>4 DEF Task
  <2> QED BY <2>1, <2>2, <2>3, <2>4, <2>5 DEF Client, Fault, Server
<1> QED BY <1>1, <1>2, <1>3, <1>4, <1>5, <1>6

\* What is not settled by the lemmas on tasks, locks and places.
RestTyped ==
    /\ script \in Scripts /\ closed \in BOOLEAN
    /\ known \subseteq {<<k, t>> : k \in {"asked", "event"}, t \in Turns}
    /\ reader \in Readers /\ current \in Requests \cup {Nobody} /\ initialized \in BOOLEAN
    /\ sessions \in [Sessions -> Opens \cup {Nobody}]
    /\ object \in [Requests -> Opens \cup {Nobody}]
    /\ runs \subseteq Turns /\ cancelled \subseteq runs
    /\ approvals \subseteq Turns /\ listening \subseteq Turns
    /\ channel \in [Turns -> {"empty", "yes", "no"}]
    /\ outcome \in [Turns -> {"none", "yes", "no", "expired", "dropped"}]
    /\ forward \in [Turns -> {"none", "first", "follow", "ended"}]
    /\ writer \in {"writing", "dead"}
    /\ told \in [Requests -> {"none", "ok", "error"}]

LEMMA TypeStep ==
  ASSUME Parts, [Next]_vars
  PROVE  RestTyped'
<1>0. /\ RestTyped /\ ReaderInv /\ \A r \in Requests : StageInv(r) /\ PlaceInv(r)
  BY DEF Parts, TypeOK, RestTyped
<1> USE <1>0 DEF RestTyped, clientVars, readerVars, sessionVars, approvalVars, outVars
<1>1. CASE UNCHANGED vars \/ Rest
  BY <1>1 DEF vars, Rest
<1>2. CASE Reader
  <2>1. CASE ReadFrame
    <3>1. Head(inbox) \in Requests
      BY <2>1, TailTyped DEF ReadFrame, Parts, TypeOK
    <3> QED BY <2>1, <3>1 DEF ReadFrame, Readers
  <2>2. CASE ReaderReplies
    <3>1. initialized' \in BOOLEAN
      <4>1. ASSUME NEW b \in BOOLEAN PROVE (initialized \/ b) \in BOOLEAN
        BY Zenon
      <4>2. \A reply : (reply = "ok") \in BOOLEAN
        BY Zenon
      <4>3. \/ initialized' = initialized
            \/ \E reply : initialized' = (initialized \/ reply = "ok")
        BY ONLY <2>2, Zenon DEF ReaderReplies
      <4>4. initialized \in BOOLEAN
        BY <1>0 DEF RestTyped
      <4> QED BY ONLY <4>1, <4>2, <4>3, <4>4, Zenon
    <3>2. reader' \in Readers /\ current' \in Requests \cup {Nobody}
      BY <2>2 DEF ReaderReplies, Readers
    <3> QED BY <2>2, <3>1, <3>2 DEF ReaderReplies
  <2>3. CASE TakePermit \/ ReadEof \/ JoinTasks \/ Return
    BY <2>3 DEF TakePermit, ReadEof, JoinTasks, Return, Readers
  <2>4. CASE CancelRuns \/ DrainApprovals
    BY <2>4 DEF CancelRuns, DrainApprovals, Readers
  <2> QED BY <1>2, <2>1, <2>2, <2>3, <2>4 DEF Reader
<1>3. CASE Close \/ ReadFails \/ WriterFails
  <2>1. CASE Close
    BY <2>1 DEF Close
  <2>2. CASE ReadFails \/ WriterFails
    BY <2>2 DEF ReadFails, WriterFails, Readers
  <2> QED BY <1>3, <2>1, <2>2
<1>4. ASSUME NEW r \in Requests, Send(r) PROVE RestTyped'
  BY <1>4 DEF Send
<1>5. CASE Write
  <2> DEFINE h == Head(outbound)
  <2>1. h \in Messages
    BY <1>5, TailTyped DEF Write, Parts, TypeOK
  <2>2. /\ UNCHANGED <<script, closed, reader, current, initialized, sessions, object, runs,
                       cancelled, approvals, listening, channel, outcome, forward, writer>>
        /\ IsReply(h) => told' = [told EXCEPT ![h[2]] = h[1]] /\ known' = known
        /\ ~IsReply(h) => told' = told /\ known' = known \cup {h}
    BY <1>5 DEF Write, IsReply
  <2> HIDE DEF h
  <2>3. h = <<h[1], h[2]>> /\ (~IsReply(h) => h[1] \in {"asked", "event"} /\ h[2] \in Turns)
        /\ h[2] \in Requests
    BY <2>1, MessageIs
  <2>4. told' \in [Requests -> {"none", "ok", "error"}]
    BY <2>2, <2>3 DEF IsReply
  <2>5. known' \subseteq {<<k, t>> : k \in {"asked", "event"}, t \in Turns}
    BY <2>2, <2>3
  <2> QED BY <2>2, <2>4, <2>5
<1>6. ASSUME NEW t \in Turns, Forward(t) \/ ForwardEnds(t) PROVE RestTyped'
  BY <1>6 DEF Forward, ForwardEnds, ForwardFirst, ForwardLast
<1>7. ASSUME NEW t \in Turns, Expire(t) PROVE RestTyped'
  BY <1>7 DEF Expire
<1>8. ASSUME NEW r \in Requests, Task(r) PROVE RestTyped'
  <2>0. task[r] \in InTurn => r \in Turns
    BY DEF StageInv, Turns
  <2>1. CASE Open(r)
    BY <2>1, RpcAssumption DEF Open, Opens
  <2>2. CASE Other(r) \/ Respond(r) \/ CancelRun(r)
    BY <2>2 DEF Other, Respond, CancelRun
  <2>3. CASE ResolveApproval(r)
    <3>1. On[r] \in Turns /\ Says[r] \in {"yes", "no"}
      BY <2>3, RpcAssumption DEF ResolveApproval
    <3> QED BY <2>3, <3>1 DEF ResolveApproval
  <2>4. CASE FindSession(r)
    <3>1. sessions[On[r]] \in Opens \cup {Nobody}
      BY <2>4, RpcAssumption DEF FindSession
    <3> QED BY <2>4, <3>1 DEF FindSession
  <2>5. CASE GetSession(r) \/ BeginTurn(r) \/ PrepareFails(r) \/ EndTurn(r)
    BY <2>5 DEF GetSession, BeginTurn, PrepareFails, EndTurn
  <2>6. CASE Register(r) \/ Ask(r) \/ AskSent(r)
    BY <2>0, <2>6 DEF Register, Ask, AskSent, InTurn
  <2>7. CASE AskFails(r) \/ Answered(r)
    BY <2>0, <2>7 DEF AskFails, Answered, InTurn
  <2>8. CASE CloseReceiver(r) \/ RemoveApproval(r) \/ DropQuestion(r)
    BY <2>0, <2>8 DEF CloseReceiver, RemoveApproval, DropQuestion, InTurn
  <2> QED BY <1>8, <2>1, <2>2, <2>3, <2>4, <2>5, <2>6, <2>7, <2>8 DEF Task
<1> QED BY <1>1, <1>2, <1>3, <1>4, <1>5, <1>6, <1>7, <1>8 DEF Next, Client, Fault, Server

-----------------------------------------------------------------------------
(* Questions *)

\* A step that concerns no question: no task asks or waits for an answer before or after it.
Questioning == {"asking", "waiting", "expired", "removing"}
Unasked ==
    /\ UNCHANGED approvalVars
    /\ UNCHANGED task \/ \E r \in Requests, s \in Stages \ Questioning :
                            task[r] \notin Questioning /\ Stage(r, s)

LEMMA QuestionCases ==
  ASSUME Parts, [Next]_vars
  PROVE  \/ Unasked
         \/ DrainApprovals
         \/ \E r \in Requests : ResolveApproval(r)
         \/ \E t \in Turns : \/ Ask(t) \/ AskSent(t) \/ AskFails(t) \/ Answered(t) \/ Expire(t)
                             \/ CloseReceiver(t) \/ RemoveApproval(t) \/ DropQuestion(t)
<1>0. ReaderInv /\ \A r \in Requests : StageInv(r) /\ PlaceInv(r)
  BY DEF Parts
<1> USE <1>0 DEF Unasked, Questioning, Stages, Stage, clientVars, readerVars, sessionVars,
                 approvalVars, outVars
<1>1. CASE UNCHANGED vars \/ Rest
  BY <1>1 DEF vars, Rest
<1>2. ASSUME Reader PROVE Unasked \/ DrainApprovals
  <2>1. CASE TakePermit
    <3>1. current \in Requests /\ task[current] = "none"
      BY <2>1 DEF ReaderInv, PlaceInv, TakePermit
    <3> QED BY <2>1, <3>1 DEF TakePermit
  <2> QED BY <1>2, <2>1 DEF Reader, ReadFrame, ReaderReplies, ReadEof, CancelRuns, JoinTasks, Return
<1>3. CASE Close \/ ReadFails \/ WriterFails \/ Write
  BY <1>3 DEF Close, ReadFails, WriterFails, Write
<1>4. ASSUME NEW r \in Requests, Send(r) PROVE Unasked
  BY <1>4 DEF Send
<1>5. ASSUME NEW t \in Turns, Forward(t) \/ ForwardEnds(t) PROVE Unasked
  BY <1>5 DEF Forward, ForwardEnds, ForwardFirst, ForwardLast
<1>6. ASSUME NEW r \in Requests, Task(r)
      PROVE  \/ Unasked \/ ResolveApproval(r)
             \/ r \in Turns /\ \/ Ask(r) \/ AskSent(r) \/ AskFails(r) \/ Answered(r)
                               \/ CloseReceiver(r) \/ RemoveApproval(r) \/ DropQuestion(r)
  <2>0. task[r] \in InTurn => r \in Turns
    BY DEF StageInv, Turns
  <2>1. CASE Open(r) \/ Other(r) \/ CancelRun(r) \/ Respond(r)
    BY <2>1 DEF Open, Other, CancelRun, Respond
  <2>2. CASE FindSession(r) \/ GetSession(r) \/ BeginTurn(r)
    BY <2>2 DEF FindSession, GetSession, BeginTurn
  <2>3. CASE PrepareFails(r) \/ Register(r) \/ EndTurn(r)
    BY <2>3 DEF PrepareFails, Register, EndTurn
  <2>4. Ask(r) \/ AskSent(r) \/ AskFails(r) \/ Answered(r) \/ CloseReceiver(r)
          \/ RemoveApproval(r) \/ DropQuestion(r) => r \in Turns
    BY <2>0 DEF Ask, AskSent, AskFails, Answered, CloseReceiver, RemoveApproval, DropQuestion, InTurn
  <2> QED BY <1>6, <2>1, <2>2, <2>3, <2>4 DEF Task
<1> QED BY <1>1, <1>2, <1>3, <1>4, <1>5, <1>6 DEF Next, Client, Fault, Server

\* Only asking makes a question known, and what is known stays known.
LEMMA AskedStep ==
  ASSUME Parts, [Next]_vars, NEW t \in Turns
  PROVE  /\ Asked(t)' => Asked(t) \/ AskSent(t)
         /\ Heard(t) => Heard(t)'
<1> USE DEF clientVars, readerVars, sessionVars, approvalVars, outVars
<1>0. /\ TypeOK /\ QueueInv /\ ReaderInv /\ \A r \in Requests : StageInv(r) /\ PlaceInv(r)
  BY DEF Parts
<1>1. CASE Write
  <2>1. /\ Head(outbound) \in Messages
        /\ \A x : Sent(x) <=> (Sent(x)' \/ x = Head(outbound))
        /\ known' \in {known, known \cup {Head(outbound)}}
    BY <1>0, <1>1, WriteEffect DEF Write
  <2>2. Heard(t)' => Heard(t) \/ <<"asked", t>> = Head(outbound)
    BY <2>1 DEF Heard
  <2> QED BY <2>1, <2>2 DEF Asked, Heard
<1>2. ASSUME ~Write PROVE known' = known
  <2>1. CASE UNCHANGED vars \/ Rest
    BY <2>1 DEF vars, Rest
  <2>2. CASE Reader
    BY <2>2 DEF Reader, ReadFrame, ReaderReplies, TakePermit, ReadEof, CancelRuns, DrainApprovals,
                JoinTasks, Return
  <2>3. CASE Close \/ ReadFails \/ WriterFails
    BY <2>3 DEF Close, ReadFails, WriterFails
  <2>4. ASSUME NEW r \in Requests, Send(r) PROVE known' = known
    BY <2>4 DEF Send
  <2>5. ASSUME NEW q \in Turns, Forward(q) \/ ForwardEnds(q) \/ Expire(q) PROVE known' = known
    BY <2>5 DEF Forward, ForwardEnds, ForwardFirst, ForwardLast, Expire
  <2>6. ASSUME NEW r \in Requests, Task(r) PROVE known' = known
    <3>1. CASE Open(r) \/ Other(r) \/ CancelRun(r) \/ ResolveApproval(r) \/ Respond(r)
      BY <3>1 DEF Open, Other, CancelRun, ResolveApproval, Respond
    <3>2. CASE FindSession(r) \/ GetSession(r) \/ BeginTurn(r) \/ PrepareFails(r) \/ Register(r)
      BY <3>2 DEF FindSession, GetSession, BeginTurn, PrepareFails, Register
    <3>3. CASE EndTurn(r) \/ Ask(r) \/ AskSent(r) \/ AskFails(r) \/ Answered(r)
      BY <3>3 DEF EndTurn, Ask, AskSent, AskFails, Answered
    <3>4. CASE CloseReceiver(r) \/ RemoveApproval(r) \/ DropQuestion(r)
      BY <3>4 DEF CloseReceiver, RemoveApproval, DropQuestion
    <3> QED BY <2>6, <3>1, <3>2, <3>3, <3>4 DEF Task
  <2> QED BY <1>2, <2>1, <2>2, <2>3, <2>4, <2>5, <2>6 DEF Next, Client, Fault, Server

<1>3. ASSUME ~Write
      PROVE  \/ \A x : Sent(x)' => Sent(x)
             \/ \E m \in Messages : Emit(m) /\ \A q \in Turns : m = <<"asked", q>> => AskSent(q)
  <2> USE DEF Turns
  <2>1. CASE UNCHANGED outbound
    BY <2>1 DEF Sent
  <2>2. CASE UNCHANGED vars \/ Rest
    BY <2>1, <2>2 DEF vars, Rest
  <2>3. CASE WriterFails
    BY <2>3, FailsEffect
  <2>4. CASE Reader
    <3>1. CASE ReaderReplies
      <4>1. \A k \in {"ok", "error"} : <<k, current>> \in Messages
        BY <1>0, <3>1 DEF ReaderReplies, ReaderInv, Messages
      <4> QED BY <2>1, <3>1, <4>1 DEF ReaderReplies, EmitFails
    <3> QED BY <2>1, <2>4, <3>1 DEF Reader, ReadFrame, TakePermit, ReadEof, CancelRuns,
                DrainApprovals, JoinTasks, Return
  <2>5. CASE Close \/ ReadFails
    BY <2>1, <2>5 DEF Close, ReadFails
  <2>6. ASSUME NEW r \in Requests, Send(r) PROVE UNCHANGED outbound
    BY <2>6 DEF Send
  <2>7. ASSUME NEW q \in Turns, Forward(q) \/ ForwardEnds(q) \/ Expire(q)
        PROVE  UNCHANGED outbound \/ Emit(<<"event", q>>)
    BY <2>7 DEF Forward, ForwardEnds, ForwardFirst, ForwardLast, Expire
  <2>8. \A q \in Turns : <<"event", q>> \in Messages /\ \A p : <<"event", q>> # <<"asked", p>>
    BY DEF Messages
  <2>9. ASSUME NEW r \in Requests, Task(r)
        PROVE  \/ UNCHANGED outbound \/ (AskSent(r) /\ Emit(<<"asked", r>>))
               \/ (task[r] \in {"ok", "error"} /\ Emit(<<task[r], r>>))
    <3>1. CASE Open(r) \/ Other(r) \/ CancelRun(r) \/ ResolveApproval(r)
      BY <3>1 DEF Open, Other, CancelRun, ResolveApproval
    <3>2. CASE FindSession(r) \/ GetSession(r) \/ BeginTurn(r) \/ PrepareFails(r) \/ Register(r)
      BY <3>2 DEF FindSession, GetSession, BeginTurn, PrepareFails, Register
    <3>3. CASE EndTurn(r) \/ Ask(r) \/ AskFails(r) \/ Answered(r)
      BY <3>3 DEF EndTurn, Ask, AskFails, Answered, EmitFails
    <3>4. CASE AskSent(r) \/ Respond(r)
      BY <3>4 DEF AskSent, Respond, EmitFails
    <3>5. CASE CloseReceiver(r) \/ RemoveApproval(r) \/ DropQuestion(r)
      BY <3>5 DEF CloseReceiver, RemoveApproval, DropQuestion
    <3> QED BY <2>9, <3>1, <3>2, <3>3, <3>4, <3>5 DEF Task
  <2>10. ASSUME NEW r \in Requests, AskSent(r), Emit(<<"asked", r>>)
         PROVE  \E m \in Messages : Emit(m) /\ \A q \in Turns : m = <<"asked", q>> => AskSent(q)
    <3>1. r \in Turns
      BY <1>0, <2>10 DEF AskSent, StageInv, InTurn
    <3>2. <<"asked", r>> \in Messages /\ \A q : <<"asked", r>> = <<"asked", q>> => q = r
      BY <3>1 DEF Messages
    <3> QED BY <2>10, <3>2
  <2>11. ASSUME NEW r \in Requests, task[r] \in {"ok", "error"}, Emit(<<task[r], r>>)
         PROVE  \E m \in Messages : Emit(m) /\ \A q \in Turns : m = <<"asked", q>> => AskSent(q)
    <3>1. <<task[r], r>> \in Messages /\ \A q : <<task[r], r>> # <<"asked", q>>
      BY <2>11 DEF Messages
    <3> QED BY <2>11, <3>1
  <2> QED BY <1>3, <2>1, <2>2, <2>3, <2>4, <2>5, <2>6, <2>7, <2>8, <2>9, <2>10, <2>11
             DEF Next, Client, Fault, Server
<1>4. ASSUME ~Write, ~Asked(t), Asked(t)' PROVE AskSent(t)
  <2>1. Sent(<<"asked", t>>)' /\ ~Sent(<<"asked", t>>)
    BY <1>2, <1>4 DEF Asked, Heard
  <2>2. PICK m \in Messages : Emit(m) /\ \A q \in Turns : m = <<"asked", q>> => AskSent(q)
    BY <1>3, <1>4, <2>1
  <2>3. Sent(<<"asked", t>>)' => Sent(<<"asked", t>>) \/ <<"asked", t>> = m
    <3>1. outbound' = Append(outbound, m) /\ outbound \in Seq(Messages)
      BY <1>0, <2>2 DEF Emit, TypeOK
    <3> QED BY <3>1, AppendInside DEF Sent
  <2> QED BY <2>1, <2>2, <2>3
<1> QED BY <1>1, <1>2, <1>4 DEF Heard

LEMMA QuestionStep ==
  ASSUME Parts, \A t \in Turns : QuestionInv(t), [Next]_vars
  PROVE  \A t \in Turns : QuestionInv(t)'
<1>0. /\ task \in [Requests -> Stages] /\ channel \in [Turns -> {"empty", "yes", "no"}]
      /\ outcome \in [Turns -> {"none", "yes", "no", "expired", "dropped"}]
      /\ Turns \subseteq Requests /\ \A t \in Turns : QuestionInv(t)
  BY DEF Parts, TypeOK, Turns
<1>1. \A t \in Turns : Asked(t)' => Asked(t) \/ AskSent(t)
  BY AskedStep
<1>2. \A t \in Turns : AskSent(t) => task[t] = "asking" /\ task'[t] = "waiting"
  BY <1>0 DEF AskSent, Stage
<1>3. ASSUME NEW t \in Turns, UNCHANGED <<task[t], channel[t], outcome[t]>>,
             t \in approvals' <=> t \in approvals, t \in listening' <=> t \in listening
      PROVE  QuestionInv(t)'
  BY <1>0, <1>1, <1>2, <1>3 DEF QuestionInv, Waits
<1>4. CASE Unasked
  <2>1. CASE UNCHANGED task
    BY <1>3, <1>4, <2>1 DEF Unasked, approvalVars
  <2>2. ASSUME NEW r \in Requests, NEW s \in Stages \ Questioning,
               task[r] \notin Questioning, Stage(r, s)
        PROVE  \A t \in Turns : QuestionInv(t)'
    <3>1. UNCHANGED <<approvals, channel, listening, outcome>>
      BY <1>4 DEF Unasked, approvalVars
    <3>2. \A q \in Requests : task'[q] = IF q = r THEN s ELSE task[q]
      BY <1>0, <2>2 DEF Stage
    <3>3. ASSUME NEW t \in Turns, t = r PROVE QuestionInv(t)'
      BY <1>0, <1>1, <1>2, <2>2, <3>1, <3>2, <3>3 DEF QuestionInv, Waits, Questioning
    <3> QED BY <1>0, <1>3, <3>1, <3>2, <3>3
  <2> QED BY <1>4, <2>1, <2>2 DEF Unasked
<1>5. CASE DrainApprovals
  <2>1. /\ channel' = [t \in Turns |-> IF t \in approvals /\ t \in listening THEN "no" ELSE channel[t]]
        /\ approvals' = {} /\ UNCHANGED <<task, listening, outcome>>
    BY <1>5 DEF DrainApprovals
  <2> QED BY <1>0, <1>1, <1>2, <2>1 DEF QuestionInv, Waits
<1>6. ASSUME NEW r \in Requests, ResolveApproval(r) PROVE \A t \in Turns : QuestionInv(t)'
  <2> DEFINE o == On[r]
  <2>1. /\ o \in Turns /\ Op[r] = "resolve" /\ r \notin Turns /\ Says[r] \in {"yes", "no"}
    BY <1>6, RpcAssumption DEF ResolveApproval, Turns
  <2>2. /\ approvals' = approvals \ {o} /\ UNCHANGED <<listening, outcome>>
        /\ channel' = channel \/ (o \in approvals /\ o \in listening
                                  /\ channel' = [channel EXCEPT ![o] = Says[r]])
        /\ \E s \in {"ok", "error"} : task' = [task EXCEPT ![r] = s]
    BY <1>6 DEF ResolveApproval, Stage
  <2>3. \A t \in Turns : task'[t] = task[t]
    BY <1>0, <2>1, <2>2
  <2> HIDE DEF o
  <2>4. ASSUME NEW t \in Turns, t # o PROVE QuestionInv(t)'
    BY <1>0, <1>3, <2>2, <2>3, <2>4
  <2>5. channel'[o] = channel[o] \/ (o \in approvals /\ o \in listening)
    BY <1>0, <2>1, <2>2
  <2>6. QuestionInv(o)'
    <3>1. ~Asked(o)' \/ Asked(o) \/ AskSent(o)
      BY <1>1, <2>1
    <3> QED BY <1>0, <1>2, <2>1, <2>2, <2>3, <2>5, <3>1 DEF QuestionInv, Waits
  <2> QED BY <2>4, <2>6
<1>7. ASSUME NEW t \in Turns,
             \/ Ask(t) \/ AskSent(t) \/ AskFails(t) \/ Answered(t) \/ Expire(t)
             \/ CloseReceiver(t) \/ RemoveApproval(t) \/ DropQuestion(t)
      PROVE  \A q \in Turns : QuestionInv(q)'
  <2>1. PICK s \in {"asking", "waiting", "working", "expired", "removing"} : Stage(t, s)
    BY <1>7 DEF Ask, AskSent, AskFails, Answered, Expire, CloseReceiver, RemoveApproval, DropQuestion
  <2>2. /\ UNCHANGED channel
        /\ outcome' = outcome \/ \E v : outcome' = [outcome EXCEPT ![t] = v]
        /\ \A q : q # t => ((q \in approvals') <=> (q \in approvals))
                           /\ ((q \in listening') <=> (q \in listening))
    BY <1>7 DEF Ask, AskSent, AskFails, Answered, Expire, CloseReceiver, RemoveApproval, DropQuestion,
                approvalVars
  <2>3. ASSUME NEW q \in Turns, q # t PROVE QuestionInv(q)'
    BY <1>0, <1>3, <2>1, <2>2, <2>3 DEF Stage
  <2>4. task'[t] = s /\ channel'[t] = channel[t]
    BY <1>0, <2>1, <2>2 DEF Stage
  <2>5. \A v : outcome' = [outcome EXCEPT ![t] = v] => outcome'[t] = v
    BY <1>0
  <2>6. QuestionInv(t) /\ (~Asked(t)' \/ Asked(t) \/ AskSent(t))
    BY <1>0, <1>1
  <2>7. ASSUME Ask(t) PROVE QuestionInv(t)'
    <3>1. task[t] = "working" /\ task'[t] = "asking" /\ outcome[t] = "none" /\ outcome' = outcome
          /\ t \in approvals' /\ t \in listening'
      BY <1>0, <2>7 DEF Ask, Stage
    <3> QED BY <1>2, <2>4, <2>6, <3>1 DEF QuestionInv, Waits
  <2>8. ASSUME AskSent(t) PROVE QuestionInv(t)'
    <3>1. task[t] = "asking" /\ task'[t] = "waiting" /\ UNCHANGED <<approvals, listening, outcome>>
      BY <1>0, <2>8 DEF AskSent, Stage, approvalVars
    <3> QED BY <2>4, <2>6, <3>1 DEF QuestionInv, Waits
  <2>9. ASSUME AskFails(t) PROVE QuestionInv(t)'
    <3>1. task[t] = "asking" /\ task'[t] = "working" /\ outcome'[t] = "no"
          /\ t \notin approvals' /\ t \notin listening'
      BY <1>0, <2>5, <2>9 DEF AskFails, Stage
    <3> QED BY <1>2, <2>4, <2>6, <3>1 DEF QuestionInv, Waits
  <2>10. ASSUME Answered(t) PROVE QuestionInv(t)'
    <3>1. task[t] = "waiting" /\ task'[t] = "working" /\ outcome'[t] = channel[t]
          /\ channel[t] \in {"yes", "no"} /\ t \notin approvals' /\ t \notin listening'
      BY <1>0, <2>5, <2>10 DEF Answered, Stage
    <3> QED BY <1>2, <2>4, <2>6, <3>1 DEF QuestionInv, Waits
  <2>11. ASSUME Expire(t) PROVE QuestionInv(t)'
    <3>1. task[t] = "waiting" /\ task'[t] = "expired" /\ UNCHANGED <<approvals, listening, outcome>>
      BY <1>0, <2>11 DEF Expire, Stage, approvalVars
    <3> QED BY <1>2, <2>4, <2>6, <3>1 DEF QuestionInv, Waits
  <2>12. ASSUME CloseReceiver(t) PROVE QuestionInv(t)'
    <3>1. task[t] = "expired" /\ task'[t] = "removing" /\ UNCHANGED approvals
          /\ outcome'[t] = "expired" /\ t \notin listening'
      BY <1>0, <2>5, <2>12 DEF CloseReceiver, Stage
    <3> QED BY <1>2, <2>4, <2>6, <3>1 DEF QuestionInv, Waits
  <2>13. ASSUME RemoveApproval(t) PROVE QuestionInv(t)'
    <3>1. task[t] = "removing" /\ task'[t] = "working" /\ UNCHANGED <<listening, outcome>>
          /\ t \notin approvals'
      BY <1>0, <2>13 DEF RemoveApproval, Stage
    <3> QED BY <1>2, <2>4, <2>6, <3>1 DEF QuestionInv, Waits
  <2>14. ASSUME DropQuestion(t) PROVE QuestionInv(t)'
    <3>1. task[t] \in {"asking", "waiting"} /\ task'[t] = "working" /\ UNCHANGED approvals
          /\ outcome'[t] = "dropped" /\ t \notin listening'
      BY <1>0, <2>5, <2>14 DEF DropQuestion, Stage
    <3> QED BY <1>2, <2>4, <2>6, <3>1 DEF QuestionInv, Waits
  <2>15. QuestionInv(t)'
    BY <1>7, <2>7, <2>8, <2>9, <2>10, <2>11, <2>12, <2>13, <2>14
  <2> QED BY <2>3, <2>15
<1> QED BY <1>4, <1>5, <1>6, <1>7, QuestionCases

-----------------------------------------------------------------------------
(* Answers *)

\* The step that confirms an answer: its question is open.
Confirms(r) ==
    /\ Op[r] = "resolve" /\ task[r] = "start" /\ Stage(r, "ok")
    /\ On[r] \in approvals /\ channel' = [channel EXCEPT ![On[r]] = Says[r]]

\* Only a confirmation makes an answer win or gives a question a "yes".
LEMMA ConfirmStep ==
  ASSUME Parts, \A t \in Turns : QuestionInv(t), [Next]_vars
  PROVE  \/ \A t \in Turns : channel'[t] = channel[t] \/ (channel[t] = "empty" /\ channel'[t] = "no")
         \/ \E r \in Requests : Confirms(r)
<1>1. CASE DrainApprovals
  BY <1>1 DEF DrainApprovals, QuestionInv
<1>2. ASSUME NEW r \in Requests, ResolveApproval(r) PROVE Confirms(r) \/ channel' = channel
  BY <1>2 DEF ResolveApproval, Confirms
<1>3. ASSUME NEW t \in Turns, \/ Ask(t) \/ AskSent(t) \/ AskFails(t) \/ Answered(t) \/ Expire(t)
                              \/ CloseReceiver(t) \/ RemoveApproval(t) \/ DropQuestion(t)
      PROVE  channel' = channel
  BY <1>3 DEF Ask, AskSent, AskFails, Answered, Expire, CloseReceiver, RemoveApproval, DropQuestion,
              approvalVars
<1> QED BY <1>1, <1>2, <1>3, QuestionCases DEF Unasked, approvalVars

\* The task of an answer does nothing but resolve and respond.
LEMMA ResolveTask ==
  ASSUME Parts, [Next]_vars, NEW r \in Requests, Op[r] = "resolve"
  PROVE  \/ task'[r] = task[r] \/ Respond(r)
         \/ current = r /\ TakePermit
         \/ task[r] = "start" /\ task'[r] = "error"
         \/ Confirms(r)
<1>0. /\ task \in [Requests -> Stages] /\ ReaderInv /\ \A q \in Requests : StageInv(q) /\ PlaceInv(q)
  BY DEF Parts, TypeOK
<1> USE DEF clientVars, readerVars, sessionVars, approvalVars, outVars
<1>1. CASE UNCHANGED vars
  BY <1>1 DEF vars
<1>2. ASSUME NEW q \in Requests, Send(q) PROVE UNCHANGED task
  BY <1>2 DEF Send
<1>3. CASE Close \/ ReadFails \/ WriterFails \/ Write \/ Rest
  BY <1>3 DEF Close, ReadFails, WriterFails, Write, Rest, vars
<1>4. ASSUME Reader PROVE TakePermit \/ UNCHANGED task
  BY <1>4 DEF Reader, ReadFrame, ReaderReplies, ReadEof, CancelRuns, DrainApprovals, JoinTasks, Return
<1>5. CASE TakePermit
  BY <1>0, <1>5 DEF TakePermit, Stage, ReaderInv
<1>6. ASSUME NEW t \in Turns, Forward(t) \/ ForwardEnds(t) PROVE UNCHANGED task
  BY <1>6 DEF Forward, ForwardEnds, ForwardFirst, ForwardLast
<1>7. ASSUME NEW t \in Turns, Expire(t) PROVE task'[r] = task[r]
  BY <1>0, <1>7 DEF Expire, Stage, Turns
<1>8. ASSUME NEW q \in Requests, Task(q), q # r PROVE task'[r] = task[r]
  <2>1. \E s \in Stages : Stage(q, s)
    <3> USE DEF Stage, Stages
    <3>1. CASE Open(q) \/ Other(q) \/ CancelRun(q) \/ ResolveApproval(q) \/ Respond(q)
      BY <3>1 DEF Open, Other, CancelRun, ResolveApproval, Respond
    <3>2. CASE FindSession(q) \/ GetSession(q) \/ BeginTurn(q) \/ PrepareFails(q) \/ Register(q)
      BY <3>2 DEF FindSession, GetSession, BeginTurn, PrepareFails, Register
    <3>3. CASE EndTurn(q) \/ Ask(q) \/ AskSent(q) \/ AskFails(q) \/ Answered(q)
      BY <3>3 DEF EndTurn, Ask, AskSent, AskFails, Answered
    <3>4. CASE CloseReceiver(q) \/ RemoveApproval(q) \/ DropQuestion(q)
      BY <3>4 DEF CloseReceiver, RemoveApproval, DropQuestion
    <3> QED BY <1>8, <3>1, <3>2, <3>3, <3>4 DEF Task
  <2> QED BY <1>0, <1>8, <2>1 DEF Stage
<1>9. ASSUME Task(r) PROVE Respond(r) \/ ResolveApproval(r)
  <2>1. task[r] \notin InTurn /\ StageInv(r)
    BY <1>0 DEF StageInv
  <2>2. ~Open(r) /\ ~Other(r) /\ ~CancelRun(r)
    BY DEF Open, Other, CancelRun
  <2>3. ~FindSession(r) /\ ~GetSession(r) /\ ~BeginTurn(r)
    BY DEF FindSession, GetSession, BeginTurn
  <2>4. ~PrepareFails(r) /\ ~Register(r) /\ ~EndTurn(r) /\ ~Ask(r) /\ ~AskSent(r) /\ ~AskFails(r)
    BY <2>1 DEF PrepareFails, Register, EndTurn, Ask, AskSent, AskFails, InTurn
  <2>5. ~Answered(r) /\ ~CloseReceiver(r) /\ ~RemoveApproval(r) /\ ~DropQuestion(r)
    BY <2>1 DEF Answered, CloseReceiver, RemoveApproval, DropQuestion, InTurn
  <2> QED BY <1>9, <2>2, <2>3, <2>4, <2>5 DEF Task
<1>10. CASE ResolveApproval(r)
  BY <1>0, <1>10 DEF ResolveApproval, Confirms, Stage
<1> QED BY <1>1, <1>2, <1>3, <1>4, <1>5, <1>6, <1>7, <1>8, <1>9, <1>10
        DEF Next, Client, Fault, Server

\* What a step makes of an answer.
LEMMA WonStep ==
  ASSUME Parts, [Next]_vars, NEW r \in Requests, Op[r] = "resolve"
  PROVE  /\ Won(r)' => Won(r) \/ Confirms(r)
         /\ Accepted(r) => Accepted(r)'
         /\ Confirms(r) => Accepted(r)'
         /\ task[r] # "none" => task'[r] # "none"
         /\ (Queued(r) \/ current = r)' => Queued(r) \/ current = r \/ Send(r)
         /\ task[r] = "none" /\ task'[r] # "none" => current = r
<1>0. /\ TypeOK /\ QueueInv /\ ReaderInv /\ \A q \in Requests : StageInv(q) /\ PlaceInv(q)
      /\ task \in [Requests -> Stages]
  BY DEF Parts, TypeOK
<1> DEFINE Goal == /\ Won(r)' => Won(r) \/ Confirms(r)
                   /\ Accepted(r) => Accepted(r)'
                   /\ Confirms(r) => Accepted(r)'
                   /\ task[r] # "none" => task'[r] # "none"
                   /\ (Queued(r) \/ current = r)' => Queued(r) \/ current = r \/ Send(r)
                   /\ task[r] = "none" /\ task'[r] # "none" => current = r
<1>1. Confirms(r) => task'[r] = "ok" /\ task[r] = "start"
  BY <1>0 DEF Confirms, Stage
<1>2. ASSUME UNCHANGED <<task, outbound, told>>,
             (Queued(r) \/ current = r)' => Queued(r) \/ current = r \/ Send(r)
      PROVE  Goal
  BY <1>1, <1>2 DEF Won, Accepted, Sent
<1>3. ASSUME NEW q \in Requests, Send(q) PROVE Goal
  <2>1. UNCHANGED <<task, outbound, told, current>>
    BY <1>3 DEF Send, readerVars, outVars
  <2>2. Queued(r)' => Queued(r) \/ Send(r)
    BY <1>0, <1>3, SendEffect
  <2> QED BY <1>2, <2>1, <2>2
<1>4. CASE ReadFrame
  <2>1. UNCHANGED <<task, outbound, told>>
    BY <1>4 DEF ReadFrame, outVars
  <2>2. (Queued(r)' => Queued(r)) /\ (current' = r => Queued(r))
    BY <1>0, <1>4, ReadEffect
  <2> QED BY <1>2, <2>1, <2>2
<1>5. CASE ReaderReplies
  <2>1. UNCHANGED <<inbox, task, told>> /\ current' \in {current, Nobody} /\ current \in Requests
    BY <1>0, <1>5 DEF ReaderReplies, ReaderInv, clientVars
  <2>2. Queued(r)' => Queued(r)
    BY <2>1 DEF Queued
  <2>3. Sent(<<"ok", r>>)' => Sent(<<"ok", r>>)
    <3>1. CASE UNCHANGED outbound
      BY <3>1 DEF Sent
    <3>2. ASSUME NEW k \in {"ok", "error"}, Emit(<<k, current>>), k = "ok" => Op[current] = "initialize"
          PROVE  Sent(<<"ok", r>>)' => Sent(<<"ok", r>>)
      <4>1. <<k, current>> \in Messages /\ <<k, current>> # <<"ok", r>>
        BY <2>1, <3>2 DEF Messages
      <4>2. outbound' = Append(outbound, <<k, current>>) /\ outbound \in Seq(Messages)
        BY <1>0, <3>2 DEF Emit, TypeOK
      <4> QED BY <4>1, <4>2, AppendInside DEF Sent
    <3> QED BY <1>5, <3>1, <3>2 DEF ReaderReplies, EmitFails
  <2>4. r # Nobody
    BY RpcAssumption
  <2> QED BY <1>1, <2>1, <2>2, <2>3, <2>4 DEF Won, Accepted
<1>6. CASE TakePermit
  <2>1. /\ UNCHANGED <<inbox, outbound, told>> /\ current' = Nobody /\ current \in Requests
        /\ task' = [task EXCEPT ![current] = "start"] /\ task[current] = "none"
    BY <1>0, <1>6 DEF TakePermit, ReaderInv, PlaceInv, clientVars, outVars, Stage
  <2>2. \A q \in Requests : task'[q] = IF q = current THEN "start" ELSE task[q]
    BY <1>0, <2>1
  <2>3. (Queued(r)' => Queued(r)) /\ (Sent(<<"ok", r>>)' => Sent(<<"ok", r>>)) /\ r # Nobody
    BY <2>1, RpcAssumption DEF Queued, Sent
  <2> QED BY <1>1, <2>1, <2>2, <2>3 DEF Won, Accepted
<1>7. ASSUME NEW q \in Requests, Respond(q) PROVE Goal
  <2>1. /\ UNCHANGED <<inbox, current, told>> /\ task[q] \in {"ok", "error"}
        /\ task' = [task EXCEPT ![q] = "done"]
        /\ Emit(<<task[q], q>>) \/ EmitFails
    BY <1>7 DEF Respond, clientVars, readerVars, Stage
  <2>2. task'[r] = IF r = q THEN "done" ELSE task[r]
    BY <1>0, <2>1
  <2>3. Queued(r)' => Queued(r)
    BY <2>1 DEF Queued
  <2>4. Sent(<<"ok", r>>)' => Sent(<<"ok", r>>) \/ (r = q /\ task[q] = "ok")
    <3>1. CASE EmitFails
      BY <3>1 DEF EmitFails, Sent
    <3>2. CASE Emit(<<task[q], q>>)
      <4>1. <<task[q], q>> \in Messages /\ (<<task[q], q>> = <<"ok", r>> => r = q /\ task[q] = "ok")
        BY <2>1 DEF Messages
      <4>2. outbound' = Append(outbound, <<task[q], q>>) /\ outbound \in Seq(Messages)
        BY <1>0, <3>2 DEF Emit, TypeOK
      <4> QED BY <4>1, <4>2, AppendInside DEF Sent
    <3> QED BY <2>1, <3>1, <3>2
  <2> QED BY <1>1, <2>1, <2>2, <2>3, <2>4 DEF Won, Accepted
<1>8. CASE Write
  <2> DEFINE h == Head(outbound)
  <2>1. h \in Messages /\ \A x : Sent(x) <=> (Sent(x)' \/ x = h)
    BY <1>0, <1>8, WriteEffect
  <2>2. UNCHANGED <<inbox, current, task>>
    BY <1>8 DEF Write, readerVars
  <2>3. told' = told \/ told' = [told EXCEPT ![h[2]] = h[1]]
    BY <1>8 DEF Write
  <2>4. told \in [Requests -> {"none", "ok", "error"}]
    BY <1>0 DEF TypeOK
  <2> HIDE DEF h
  <2>5. h = <<h[1], h[2]>> /\ h[2] \in Requests
    BY <2>1, MessageIs
  <2>6. told'[r] = "ok" => told[r] = "ok" \/ h = <<"ok", r>>
    BY <2>3, <2>4, <2>5
  <2>7. Won(r)' => Won(r)
    BY <2>1, <2>2, <2>6 DEF Won
  <2> QED BY <1>1, <2>2, <2>7 DEF Accepted, Queued
<1>9. CASE WriterFails
  <2>1. UNCHANGED <<inbox, current, task, told>> /\ ~Sent(<<"ok", r>>)'
    BY <1>9, FailsEffect DEF WriterFails, clientVars, readerVars
  <2> QED BY <1>1, <2>1 DEF Won, Accepted, Queued
<1>10. CASE Background
  <2>1. UNCHANGED <<inbox, current, told>>
    BY <1>10 DEF Background
  <2>2. task'[r] = task[r] \/ (task[r] \in Holding /\ task'[r] \in Holding)
    BY <1>0, <1>10 DEF Background, Works, Stage
  <2>3. Sent(<<"ok", r>>)' => Sent(<<"ok", r>>)
    <3>1. CASE UNCHANGED outbound
      BY <3>1 DEF Sent
    <3>2. ASSUME NEW m \in Messages, ~IsReply(m), Emit(m)
          PROVE  Sent(<<"ok", r>>)' => Sent(<<"ok", r>>)
      <4>1. m # <<"ok", r>>
        BY <3>2 DEF IsReply
      <4>2. outbound' = Append(outbound, m) /\ outbound \in Seq(Messages)
        BY <1>0, <3>2 DEF Emit, TypeOK
      <4> QED BY <4>1, <4>2, AppendInside DEF Sent
    <3> QED BY <1>10, <3>1, <3>2 DEF Background
  <2>4. task'[r] = task[r] \/ Confirms(r) \/ (task[r] = "start" /\ task'[r] = "error")
    <3>1. Respond(r) => task[r] # "done" /\ task'[r] = "done"
      BY <1>0 DEF Respond, Stage
    <3>2. current = r /\ TakePermit => task[r] = "none" /\ task'[r] = "start"
      BY <1>0 DEF TakePermit, Stage, PlaceInv
    <3> QED BY <2>2, <3>1, <3>2, ResolveTask DEF Holding
  <2> QED BY <1>1, <2>1, <2>2, <2>3, <2>4 DEF Won, Accepted, Queued, Holding
<1> QED BY <1>0, <1>3, <1>4, <1>5, <1>6, <1>7, <1>8, <1>9, <1>10, PlaceCases

LEMMA AnswerStep ==
  ASSUME Parts, AnswerInv, \A t \in Turns : QuestionInv(t), [Next]_vars
  PROVE  AnswerInv'
<1>0. /\ task \in [Requests -> Stages] /\ channel \in [Turns -> {"empty", "yes", "no"}]
      /\ \A r \in Requests : Op[r] = "resolve" => On[r] \in Turns /\ Says[r] \in {"yes", "no"}
      /\ \A t \in Turns : QuestionInv(t)
  BY RpcAssumption DEF Parts, TypeOK
<1>1. \A t \in Turns : Heard(t) => Heard(t)'
  BY AskedStep
<1>2. ASSUME NEW r \in Requests, Op[r] = "resolve", (Queued(r) \/ current = r \/ task[r] # "none")'
      PROVE  Heard(On[r])'
  <2>1. Queued(r) \/ current = r \/ task[r] # "none" \/ Send(r)
    BY <1>2, WonStep
  <2>2. Send(r) => Heard(On[r])
    BY <1>2 DEF Send, Heard
  <2>3. Heard(On[r])
    BY <1>2, <2>1, <2>2 DEF AnswerInv
  <2>4. On[r] \in Turns
    BY <1>0, <1>2
  <2>5. ASSUME NEW t \in Turns, t = On[r] PROVE Heard(On[r])'
    BY <1>1, <2>3, <2>5 DEF Heard
  <2> QED BY <2>4, <2>5
<1>3. ASSUME NEW r \in Requests, Won(r)' PROVE Op[r] = "resolve" /\ (Won(r) \/ Confirms(r))
  BY <1>3, WonStep DEF Won
<1>4. \A r \in Requests : Won(r) => Op[r] = "resolve" /\ channel[On[r]] = Says[r] /\ On[r] \in Turns
                                    /\ Says[r] \in {"yes", "no"} /\ Accepted(r)
  BY <1>0 DEF AnswerInv, Won
<1>5. \A r \in Requests : Accepted(r) => Accepted(r)'
  BY WonStep DEF Accepted
<1>6. ASSUME NEW q \in Requests, Confirms(q)
      PROVE  /\ On[q] \in Turns /\ Says[q] \in {"yes", "no"} /\ Accepted(q)'
             /\ channel[On[q]] = "empty"
             /\ \A t \in Turns : channel'[t] = IF t = On[q] THEN Says[q] ELSE channel[t]
             /\ \A r \in Requests : Confirms(r) => r = q
  <2>1. On[q] \in Turns /\ Says[q] \in {"yes", "no"} /\ Accepted(q)'
    BY <1>0, <1>6, WonStep DEF Confirms
  <2>2. channel[On[q]] = "empty"
    BY <1>0, <1>6, <2>1 DEF Confirms, QuestionInv
  <2>3. \A t \in Turns : channel'[t] = IF t = On[q] THEN Says[q] ELSE channel[t]
    BY <1>0, <1>6 DEF Confirms
  <2>4. \A r \in Requests : Confirms(r) => r = q
    BY <1>0, <1>6 DEF Confirms, Stage
  <2> QED BY <2>1, <2>2, <2>3, <2>4
<1>7. ASSUME NEW t \in Turns, channel[t] # "empty" PROVE channel'[t] = channel[t]
  BY <1>6, <1>7, ConfirmStep
<1>8. ASSUME NEW r \in Requests, Won(r)' PROVE Accepted(r)' /\ channel'[On[r]] = Says[r]
  <2>1. CASE Won(r)
    <3>1. On[r] \in Turns /\ channel[On[r]] = Says[r] /\ channel[On[r]] # "empty" /\ Accepted(r)
      BY <1>4, <2>1
    <3> QED BY <1>5, <1>7, <3>1
  <2>2. CASE Confirms(r)
    BY <1>6, <2>2
  <2> QED BY <1>3, <1>8, <2>1, <2>2
<1>9. ASSUME NEW q \in Requests, NEW r \in Requests, Won(q)', Won(r)', On[q] = On[r] PROVE q = r
  <2>1. ASSUME NEW x \in Requests, NEW y \in Requests, Confirms(x), Won(y), On[x] = On[y] PROVE FALSE
    BY <1>4, <1>6, <2>1
  <2>2. CASE Won(q) /\ Won(r)
    BY <1>9, <2>2 DEF AnswerInv
  <2>3. CASE Confirms(q) /\ Confirms(r)
    BY <1>6, <2>3
  <2> QED BY <1>3, <1>9, <2>1, <2>2, <2>3
<1>10. ASSUME NEW t \in Turns, channel'[t] = "yes"
       PROVE  \E r \in Requests : Accepted(r)' /\ On[r] = t /\ Says[r] = "yes"
  <2>1. CASE channel[t] = "yes"
    <3>1. PICK r \in Requests : Accepted(r) /\ On[r] = t /\ Says[r] = "yes"
      BY <2>1 DEF AnswerInv
    <3> QED BY <1>5, <3>1
  <2>2. CASE channel[t] # "yes"
    <3>1. PICK q \in Requests : Confirms(q)
      BY <1>10, <2>2, ConfirmStep
    <3> QED BY <1>6, <1>10, <2>2, <3>1
  <2> QED BY <2>1, <2>2
<1> QED BY <1>2, <1>8, <1>9, <1>10 DEF AnswerInv

-----------------------------------------------------------------------------
(* The theorems *)

LEMMA InitIInv == Init => IInv
<1> SUFFICES ASSUME Init PROVE IInv
  OBVIOUS
<1>1. Busy = {} /\ IsFiniteSet(Busy) /\ Cardinality(Busy) = 0
  <2>1. Busy = {}
    BY DEF Init, Busy, Holding
  <2> QED BY <2>1, FS_EmptySet
<1>2. script.permits \in Nat /\ script.greeted \in BOOLEAN
  BY RpcAssumption DEF Init
<1>3. PermitInv
  BY <1>1, <1>2 DEF Init, PermitInv
<1>4. permits + Cardinality({r \in Requests : task[r] \in Holding}) = script.permits
  BY <1>3 DEF PermitInv, Busy
<1>5. TypeOK
  <2>1. /\ script \in Scripts /\ inbox \in Seq(Requests) /\ outbound \in Seq(Messages)
        /\ Len(outbound) <= Capacity /\ lock \in [Opens -> Seq(Requests)]
    BY RpcAssumption DEF Init
  <2>2. closed \in BOOLEAN /\ initialized \in BOOLEAN /\ writer \in {"writing", "dead"}
    BY <1>2 DEF Init
  <2>3. /\ known \subseteq {<<k, t>> : k \in {"asked", "event"}, t \in Turns}
        /\ reader \in Readers /\ current \in Requests \cup {Nobody}
        /\ runs \subseteq Turns /\ cancelled \subseteq runs
        /\ approvals \subseteq Turns /\ listening \subseteq Turns
    BY DEF Init, Readers
  <2>4. /\ task \in [Requests -> Stages]
        /\ sessions \in [Sessions -> Opens \cup {Nobody}]
        /\ object \in [Requests -> Opens \cup {Nobody}]
        /\ channel \in [Turns -> {"empty", "yes", "no"}]
        /\ outcome \in [Turns -> {"none", "yes", "no", "expired", "dropped"}]
        /\ forward \in [Turns -> {"none", "first", "follow", "ended"}]
        /\ told \in [Requests -> {"none", "ok", "error"}] /\ replies \in [Requests -> 0 .. 1]
    BY DEF Init, Stages
  <2> QED BY <1>4, <2>1, <2>2, <2>3, <2>4 DEF TypeOK
<1>6. QueueInv /\ (\A x : ~Queued(x)) /\ (\A x : ~Sent(x))
  BY DEF Init, QueueInv, Queued, Sent, Once, OncePerRequest, Inside
<1>7. LockInv
  BY DEF Init, LockInv, OnSession, InTurn, Inside, Once
<1>8. ReaderInv
  BY DEF Init, ReaderInv
<1>9. \A r \in Requests : StageInv(r) /\ PlaceInv(r)
  BY <1>6, RpcAssumption DEF Init, StageInv, PlaceInv, Reply, InTurn, Holding
<1>10. \A t \in Turns : QuestionInv(t)
  BY <1>6 DEF Init, QuestionInv, Waits, Asked, Heard, Turns
<1>11. AnswerInv
  BY <1>6, RpcAssumption DEF Init, AnswerInv, Won, Accepted, Turns
<1> QED BY <1>3, <1>5, <1>6, <1>7, <1>8, <1>9, <1>10, <1>11 DEF IInv

LEMMA StepIInv == IInv /\ [Next]_vars => IInv'
<1> SUFFICES ASSUME IInv, [Next]_vars PROVE IInv'
  OBVIOUS
<1>1. Parts /\ PermitInv /\ LockInv /\ AnswerInv /\ \A t \in Turns : QuestionInv(t)
  BY DEF IInv, Parts
<1>2. TypeOK /\ ReaderInv /\ \A r \in Requests : StageInv(r) /\ PlaceInv(r)
  BY <1>1 DEF Parts
<1>3. PermitInv'
  BY <1>1, <1>2, PermitStep
<1>4. /\ LockInv' /\ \A r \in Requests : StageInv(r)'
      /\ lock' \in [Opens -> Seq(Requests)] /\ task' \in [Requests -> Stages]
  BY <1>1, <1>2, LockStep
<1>5. /\ QueueInv' /\ \A r \in Requests : PlaceInv(r)'
      /\ inbox' \in Seq(Requests) /\ outbound' \in Seq(Messages) /\ Len(outbound') <= Capacity
      /\ replies' \in [Requests -> 0 .. 1]
  BY <1>1, PlaceStep
<1>6. ReaderInv' /\ RestTyped' /\ AnswerInv' /\ \A t \in Turns : QuestionInv(t)'
  BY <1>1, ReaderStep, TypeStep, AnswerStep, QuestionStep
<1>7. TypeOK'
  BY <1>3, <1>4, <1>5, <1>6 DEF TypeOK, RestTyped, PermitInv, Busy
<1> QED BY <1>3, <1>4, <1>5, <1>6, <1>7 DEF IInv

\* For any requests in any order, any number of permits and any capacity: the inductive invariant.
THEOREM ServerCorrect == Spec => []IInv
<1> QED BY InitIInv, StepIInv, PTL DEF Spec

\* Every variable keeps its type; a permit is free or held by a task.
THEOREM TypeCorrect == Spec => []TypeOK
<1>1. IInv => TypeOK
  BY DEF IInv
<1> QED BY <1>1, ServerCorrect, PTL

\* Each request that was taken over is answered exactly once before the server returns, and what
\* an answer to a question was told is true (server.rs, run and resolve_approval).
THEOREM RepliesCorrect == Spec => []RepliesAreTrue
<1>1. ASSUME IInv PROVE OneReply
  <2>0. /\ replies \in [Requests -> 0 .. 1] /\ \A r \in Requests : PlaceInv(r)
        /\ task \in [Requests -> Stages]
    BY <1>1 DEF IInv, TypeOK
  <2>1. \A r \in Requests : replies[r] <= 1
    BY <2>0
  <2>2. ASSUME reader = "returned", NEW r \in Taken PROVE replies[r] = 1
    <3>1. r \in Requests /\ task[r] = "done" /\ writer # "dead" /\ outbound = <<>>
      BY <1>1, <2>2 DEF IInv, ReaderInv, Taken
    <3>2. ~Reply(r)
      BY <3>1 DEF Reply, Sent, Inside
    <3> QED BY <2>0, <3>1, <3>2 DEF PlaceInv
  <2> QED BY <2>1, <2>2 DEF OneReply
<1>2. ASSUME IInv PROVE AnswersCount
  <2> SUFFICES ASSUME NEW t \in Turns
               PROVE  LET confirmed == {r \in Requests : Op[r] = "resolve" /\ On[r] = t
                                                        /\ (told[r] = "ok" \/ task[r] = "ok")}
                      IN /\ Cardinality(confirmed) <= 1
                         /\ outcome[t] = "yes" =>
                              \E r \in Requests : Op[r] = "resolve" /\ On[r] = t /\ Says[r] = "yes"
                                                  /\ task[r] \in {"ok", "done"}
                         /\ \A r \in confirmed : outcome[t] \in {"none", Says[r], "expired", "dropped"}
    BY DEF AnswersCount
  <2> DEFINE confirmed == {r \in Requests : Op[r] = "resolve" /\ On[r] = t
                                             /\ (told[r] = "ok" \/ task[r] = "ok")}
  <2>0. /\ AnswerInv /\ QuestionInv(t)
        /\ outcome[t] \in {"none", "yes", "no", "expired", "dropped"}
    BY <1>2 DEF IInv, TypeOK
  <2>1. \A r \in confirmed : r \in Requests /\ On[r] = t /\ Op[r] = "resolve" /\ Won(r)
    BY DEF Won
  <2>2. Cardinality(confirmed) <= 1
    <3>1. CASE confirmed = {}
      BY <3>1, FS_EmptySet
    <3>2. ASSUME NEW q \in confirmed PROVE Cardinality(confirmed) <= 1
      <4>1. confirmed = {q}
        BY <2>0, <2>1, <3>2 DEF AnswerInv
      <4>2. Cardinality({q}) = 1
        BY FS_Singleton
      <4> QED BY <4>1, <4>2
    <3> HIDE DEF confirmed
    <3> QED BY <3>1, <3>2
  <2>3. outcome[t] = "yes" => \E r \in Requests : Op[r] = "resolve" /\ On[r] = t /\ Says[r] = "yes"
                                                    /\ task[r] \in {"ok", "done"}
    BY <2>0 DEF QuestionInv, AnswerInv, Accepted
  <2>4. ASSUME NEW r \in confirmed PROVE outcome[t] \in {"none", Says[r], "expired", "dropped"}
    <3>1. channel[t] = Says[r] /\ Accepted(r) /\ Heard(t)
      BY <2>0, <2>1, <2>4 DEF AnswerInv, Accepted
    <3> QED BY <2>0, <3>1 DEF QuestionInv, Asked
  <2> QED BY <2>2, <2>3, <2>4
<1>3. IInv => RepliesAreTrue
  BY <1>1, <1>2 DEF RepliesAreTrue
<1> QED BY <1>3, ServerCorrect, PTL

\* A session runs one turn at a time: the tasks that work on one object are one task (the Mutex
\* of SessionEntry, held over the whole of a turn).
OneTurnEach ==
    \A q, r \in Requests :
        task[q] \in InTurn /\ task[r] \in InTurn /\ object[q] = object[r] => q = r

\* For any requests, no two turns work on one session object.
THEOREM TurnsExclude == Spec => []OneTurnEach
<1>1. IInv => OneTurnEach
  BY DEF IInv, LockInv, OneTurnEach, OnSession
<1> QED BY <1>1, ServerCorrect, PTL

=============================================================================
