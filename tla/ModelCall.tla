------------------------------ MODULE ModelCall ------------------------------
(***************************************************************************)
(* Calls of a model with retries, other accounts of a provider, and other  *)
(* providers (harness/binding.rs: chat_with_fallback_inner, try_accounts,  *)
(* stream_with_fallback_inner), for several calls that share the budget of *)
(* provider attempts of their run tree.                                    *)
(*                                                                         *)
(* A call streams its reply, or asks for it in one piece; it may belong to *)
(* the run tree; its candidate content may be displayed as it comes.  What *)
(* a provider answers is any outcome of ProviderStream, or a refusal.      *)
(***************************************************************************)
EXTENDS Binding, ProviderStream, FiniteSetsExt, Functions

CONSTANTS
    Calls,          \* the calls
    Tasks,          \* tasks by name: a setting, what is asked, and the style of the call
    Plans,          \* set of [Calls -> DOMAIN Tasks]: which calls are made together
    Accounts,       \* the accounts of a provider that has several; the others have one
    TreeLimit       \* provider attempts of the run tree

ASSUME ModelCallAssumption ==
    /\ TreeLimit \in Nat
    /\ \A i \in DOMAIN Tasks :
         LET t == Tasks[i]
             known == DOMAIN t.cfg.usable
         IN /\ Setting(t.cfg) /\ t.ask.provider \in known \cup {NoProvider}
            /\ t.chain \in Seq(Range(t.chain)) /\ \A k \in DOMAIN t.chain : t.chain[k].provider \in known
            /\ t.style \in [stream : BOOLEAN, inRun : BOOLEAN, visible : BOOLEAN]
    /\ Plans \subseteq [Calls -> DOMAIN Tasks]
    /\ \A p \in DOMAIN Accounts : IsFiniteSet(Accounts[p])

VARIABLES
    task,           \* what the call is started with, its name in Tasks
    order,          \* its candidates, in order
    pc,             \* where it is
    at,             \* index of the candidate it is at
    accounts,       \* accounts of that candidate it has not tried
    attempt,        \* retries on the current account
    used,           \* attempts of the call: local_used
    treeUsed,       \* attempts of the tree
    emitted,        \* something was displayed
    inner,          \* last error on the accounts of this candidate (calls without stream)
    primaryErr, lastErr,
    error,          \* the error being handled
    result,         \* what the call returned
    asked           \* history: the candidate and the error of each attempt, in order

vars == <<task, order, pc, at, accounts, attempt, used, treeUsed, emitted, inner, primaryErr, lastErr,
          error, result, asked>>

local == <<task, order, at, accounts, attempt, used, treeUsed, emitted, inner, primaryErr, lastErr, asked>>

NoError == "none"

\* What fails before any body, in the classes the failure actions tell apart: a status of 401, 403
\* or 429; one of 5xx, a timeout or no connection; any other status.
Refusals == {"refused", "server", "client"}
Retryable == {"server", "transport", "protocol"}
ProviderErrors == Refusals \cup {"transport", "protocol", "toobig"}
LimitError == "attempt limit"
Unavailable == "no provider"
Errors == ProviderErrors \cup {LimitError, Unavailable}

NoResult == [kind |-> "none", error |-> NoError, sound |-> TRUE]
Failed(e) == [kind |-> "error", error |-> e, sound |-> TRUE]

----------------------------------------------------------------------------
(***************************************************************************)
(* Helpers                                                                 *)
(***************************************************************************)
Task(c) == Tasks[task[c]]

Candidate(c) == order[c][at[c]]

\* The primary is known by its provider's name: a chain may name it twice.
OnPrimary(c) == Candidate(c).provider = order[c][1].provider

\* Seeded fault: the first candidate may use up all attempts.
ReservedNever(c) == 0

\* reserve_for_secondary: the first of several candidates leaves one attempt to the others.
Reserved(c) == IF at[c] = 1 /\ Len(order[c]) > 1 THEN 1 ELSE 0

\* ProviderAttemptGate::can_dispatch
CanDispatch(c) == used[c] < ComboMaxHops - Reserved(c)
Exhausted(c) == ~CanDispatch(c) /\ Reserved(c) = 0

\* ProviderAttemptGate::claim and RunContext::claim_provider_attempt
MayClaim(c) == used[c] < ComboMaxHops /\ (Task(c).style.inRun => treeUsed < TreeLimit)

\* Seeded fault: the limit hides the error that was seen.
LimitFirst(p, l) == LimitError

\* attempt_limit_or_observed: an error that was seen is the cause, not the limit.
LimitOrObserved(p, l) == IF p # NoError THEN p ELSE IF l # NoError THEN l ELSE LimitError

Return(c, r) ==
    /\ result' = [result EXCEPT ![c] = r]
    /\ pc' = [pc EXCEPT ![c] = "done"]

GoTo(c, l) == pc' = [pc EXCEPT ![c] = l] /\ UNCHANGED result

\* promote_primary_error
PromotedPrimary(c, last) == IF last # NoError /\ OnPrimary(c) /\ primaryErr[c] = NoError THEN last ELSE primaryErr[c]
PromotedLast(c, last) == IF last # NoError /\ OnPrimary(c) /\ primaryErr[c] = NoError THEN NoError ELSE last

\* Seeded fault: after the last candidate the first is tried again.
AfterWraps(c) == IF at[c] = Len(order[c]) THEN 1 ELSE at[c] + 1

After(c) == at[c] + 1

\* The streaming loop leaves a candidate.
LeaveStream(c, last) ==
    /\ primaryErr' = [primaryErr EXCEPT ![c] = PromotedPrimary(c, last)]
    /\ lastErr' = [lastErr EXCEPT ![c] = PromotedLast(c, last)]
    /\ at' = [at EXCEPT ![c] = After(c)]
    /\ GoTo(c, "candidate")
    /\ UNCHANGED inner

\* try_accounts returns e to the loop over candidates.
LeaveAccounts(c, e) ==
    /\ inner' = [inner EXCEPT ![c] = NoError]
    /\ IF e = LimitError
       THEN /\ Return(c, Failed(LimitOrObserved(primaryErr[c], lastErr[c])))
            /\ UNCHANGED <<at, primaryErr, lastErr>>
       ELSE /\ primaryErr' = [primaryErr EXCEPT ![c] = PromotedPrimary(c, e)]
            /\ lastErr' = [lastErr EXCEPT ![c] = IF OnPrimary(c) /\ primaryErr[c] = NoError THEN @ ELSE e]
            /\ at' = [at EXCEPT ![c] = After(c)]
            /\ GoTo(c, "candidate")

\* No attempt is left: the stream returns, a call without stream leaves by way of its accounts.
OutOfAttempts(c) ==
    IF Task(c).style.stream
    THEN /\ Return(c, Failed(LimitOrObserved(primaryErr[c], lastErr[c])))
         /\ UNCHANGED <<at, inner, primaryErr, lastErr>>
    ELSE LeaveAccounts(c, IF inner[c] # NoError THEN inner[c] ELSE LimitError)

LeaveCandidate(c) ==
    IF Task(c).style.stream THEN LeaveStream(c, lastErr[c])
    ELSE LeaveAccounts(c, IF inner[c] # NoError THEN inner[c] ELSE Unavailable)

----------------------------------------------------------------------------
(***************************************************************************)
(* Actions                                                                 *)
(***************************************************************************)
\* The candidates are fixed when the call starts; a task that binds to nothing makes no call.
Begin(c) ==
    /\ pc[c] = "idle"
    /\ \E b \in Bind(Task(c).cfg, Task(c).hard, Task(c).ask) :
         LET chain == BindCombo(Task(c).cfg, Task(c).chain)
         IN /\ ~b.failed
            /\ Task(c).chain # <<>> => chain # <<>>
            /\ order' = [order EXCEPT ![c] = IF chain # <<>> THEN chain ELSE CandidatesOf(Task(c).cfg, b)]
    /\ GoTo(c, "candidate")
    /\ UNCHANGED <<task, at, accounts, attempt, used, treeUsed, emitted, inner, primaryErr, lastErr, error, asked>>

\* account_ids_for: in any order, which depends on the usage table.
StartCandidate(c) ==
    /\ pc[c] = "candidate"
    /\ at[c] <= Len(order[c])
    /\ \E ids \in SetToSeqs(IF Candidate(c).provider \in DOMAIN Accounts THEN Accounts[Candidate(c).provider] ELSE {"own"}) :
         accounts' = [accounts EXCEPT ![c] = ids]
    /\ GoTo(c, "account")
    /\ UNCHANGED <<task, order, at, attempt, used, treeUsed, emitted, inner, primaryErr, lastErr, error, asked>>

\* The candidate lost its login since the order was made.  A combo does not look.
SkipCandidate(c) ==
    /\ pc[c] = "candidate"
    /\ at[c] <= Len(order[c])
    /\ Task(c).chain = <<>>
    /\ at' = [at EXCEPT ![c] = After(c)]
    /\ UNCHANGED <<task, order, pc, accounts, attempt, used, treeUsed, emitted, inner, primaryErr, lastErr, error, result, asked>>

NoCandidateLeft(c) ==
    /\ pc[c] = "candidate"
    /\ at[c] > Len(order[c])
    /\ Return(c, Failed(IF primaryErr[c] # NoError THEN primaryErr[c]
                        ELSE IF lastErr[c] # NoError THEN lastErr[c] ELSE Unavailable))
    /\ UNCHANGED <<local, error>>

NextAccount(c) == accounts' = [accounts EXCEPT ![c] = Tail(@)]

\* An account in cooldown for more than 20 s, or whose client cannot be built, is passed over.
SkipAccount(c) ==
    /\ pc[c] = "account"
    /\ accounts[c] # <<>>
    /\ CanDispatch(c)
    /\ NextAccount(c)
    /\ UNCHANGED <<task, order, pc, at, attempt, used, treeUsed, emitted, inner, primaryErr, lastErr, error, result, asked>>

\* A shorter cooldown is waited for.
UseAccount(c) ==
    /\ pc[c] = "account"
    /\ accounts[c] # <<>>
    /\ CanDispatch(c)
    /\ NextAccount(c)
    /\ attempt' = [attempt EXCEPT ![c] = 0]
    /\ GoTo(c, "claim")
    /\ UNCHANGED <<task, order, at, used, treeUsed, emitted, inner, primaryErr, lastErr, error, asked>>

\* No account is left, or the rest of the attempts is reserved for other candidates.
NoAccountLeft(c) ==
    /\ pc[c] = "account"
    /\ accounts[c] = <<>> \/ (~CanDispatch(c) /\ ~Exhausted(c))
    /\ LeaveCandidate(c)
    /\ UNCHANGED <<task, order, accounts, attempt, used, treeUsed, emitted, error, asked>>

NoAttemptLeft(c) ==
    /\ pc[c] = "account"
    /\ accounts[c] # <<>>
    /\ Exhausted(c)
    /\ OutOfAttempts(c)
    /\ UNCHANGED <<task, order, accounts, attempt, used, treeUsed, emitted, error, asked>>

Claim(c) ==
    /\ pc[c] = "claim"
    /\ MayClaim(c)
    /\ used' = [used EXCEPT ![c] = @ + 1]
    /\ treeUsed' = IF Task(c).style.inRun THEN treeUsed + 1 ELSE treeUsed
    /\ asked' = [asked EXCEPT ![c] = Append(@, [at |-> at[c], error |-> NoError])]
    /\ GoTo(c, "request")
    /\ UNCHANGED <<task, order, at, accounts, attempt, emitted, inner, primaryErr, lastErr, error>>

ClaimRefused(c) ==
    /\ pc[c] = "claim"
    /\ ~MayClaim(c)
    /\ OutOfAttempts(c)
    /\ UNCHANGED <<task, order, accounts, attempt, used, treeUsed, emitted, error, asked>>

\* Reasoning is always displayed, the answer only if its candidates are visible.
Displayed(c, o) == Task(c).style.stream /\ (o.shown \/ (o.candidate /\ Task(c).style.visible))

Replies(c) == IF Task(c).style.stream THEN StreamOutcomes ELSE BodyOutcomes

Answered(c) ==
    /\ pc[c] = "request"
    /\ \E o \in Replies(c) :
         /\ o.end = "ok"
         /\ emitted' = [emitted EXCEPT ![c] = @ \/ Displayed(c, o)]
         /\ Return(c, [kind |-> "ok", error |-> NoError, sound |-> o.sound])
    /\ UNCHANGED <<task, order, at, accounts, attempt, used, treeUsed, inner, primaryErr, lastErr, error, asked>>

\* The last error is noted before it is acted on.
Note(c, e) ==
    /\ error' = [error EXCEPT ![c] = e]
    /\ asked' = [asked EXCEPT ![c][used[c]].error = e]
    /\ IF Task(c).style.stream
       THEN lastErr' = [lastErr EXCEPT ![c] = e] /\ UNCHANGED inner
       ELSE inner' = [inner EXCEPT ![c] = e] /\ UNCHANGED lastErr
    /\ GoTo(c, "act")

Refused(c) ==
    /\ pc[c] = "request"
    /\ \E e \in Refusals : Note(c, e)
    /\ UNCHANGED <<task, order, at, accounts, attempt, used, treeUsed, emitted, primaryErr>>

Broken(c) ==
    /\ pc[c] = "request"
    /\ \E o \in Replies(c) :
         /\ o.end # "ok"
         /\ emitted' = [emitted EXCEPT ![c] = @ \/ Displayed(c, o)]
         /\ Note(c, o.end)
    /\ UNCHANGED <<task, order, at, accounts, attempt, used, treeUsed, primaryErr>>

----------------------------------------------------------------------------
(***************************************************************************)
(* What a failure leads to: stream_failure_action, and                     *)
(* nonstream_failure_action for a call without stream.                     *)
(***************************************************************************)
\* Seeded fault: what was displayed does not stop the next attempt.
AbortsNever(c) == Task(c).style.stream /\ FALSE

Aborts(c) == Task(c).style.stream /\ emitted[c]

RetriesAccount(c) == Task(c).style.stream /\ ~emitted[c] /\ error[c] \in Retryable /\ attempt[c] = 0

TriesAccounts(c) ==
    \/ ~Aborts(c) /\ error[c] = "refused"
    \/ ~Task(c).style.stream /\ error[c] \in Retryable

AbortAfterEmission(c) ==
    /\ pc[c] = "act"
    /\ Aborts(c)
    /\ Return(c, Failed(error[c]))
    /\ UNCHANGED <<local, error>>

\* After 0.8 s.  The attempt reserved for the next candidate is not spent on a retry.
RetrySameAccount(c) ==
    /\ pc[c] = "act"
    /\ RetriesAccount(c)
    /\ CanDispatch(c)
    /\ attempt' = [attempt EXCEPT ![c] = @ + 1]
    /\ GoTo(c, "claim")
    /\ UNCHANGED <<task, order, at, accounts, used, treeUsed, emitted, inner, primaryErr, lastErr, error, asked>>

RetryRefused(c) ==
    /\ pc[c] = "act"
    /\ RetriesAccount(c)
    /\ ~CanDispatch(c)
    /\ IF Exhausted(c) THEN OutOfAttempts(c)
       ELSE GoTo(c, "account") /\ UNCHANGED <<at, inner, primaryErr, lastErr>>
    /\ UNCHANGED <<task, order, accounts, attempt, used, treeUsed, emitted, error, asked>>

TryNextAccount(c) ==
    /\ pc[c] = "act"
    /\ TriesAccounts(c)
    /\ GoTo(c, "account")
    /\ UNCHANGED <<local, error>>

TryNextCandidate(c) ==
    /\ pc[c] = "act"
    /\ ~Aborts(c) /\ ~RetriesAccount(c) /\ ~TriesAccounts(c)
    /\ LeaveCandidate(c)
    /\ UNCHANGED <<task, order, accounts, attempt, used, treeUsed, emitted, error, asked>>

----------------------------------------------------------------------------
Init ==
    /\ task \in Plans
    /\ order = [c \in Calls |-> <<>>]
    /\ pc = [c \in Calls |-> "idle"]
    /\ at = [c \in Calls |-> 1]
    /\ accounts = [c \in Calls |-> <<>>]
    /\ attempt = [c \in Calls |-> 0]
    /\ used = [c \in Calls |-> 0]
    /\ treeUsed = 0
    /\ emitted = [c \in Calls |-> FALSE]
    /\ inner = [c \in Calls |-> NoError]
    /\ primaryErr = [c \in Calls |-> NoError]
    /\ lastErr = [c \in Calls |-> NoError]
    /\ error = [c \in Calls |-> NoError]
    /\ result = [c \in Calls |-> NoResult]
    /\ asked = [c \in Calls |-> <<>>]

CallStep(c) ==
    \/ StartCandidate(c) \/ SkipCandidate(c) \/ NoCandidateLeft(c)
    \/ SkipAccount(c) \/ UseAccount(c) \/ NoAccountLeft(c) \/ NoAttemptLeft(c)
    \/ Claim(c) \/ ClaimRefused(c)
    \/ Answered(c) \/ Refused(c) \/ Broken(c)
    \/ AbortAfterEmission(c) \/ RetrySameAccount(c) \/ RetryRefused(c)
    \/ TryNextAccount(c) \/ TryNextCandidate(c)

Next == \E c \in Calls : Begin(c) \/ CallStep(c)

Spec == Init /\ [][Next]_vars

\* A started call goes on: clients have a timeout, and cooldowns waited for are short.
FairSpec == Spec /\ \A c \in Calls : WF_vars(CallStep(c))

----------------------------------------------------------------------------
(***************************************************************************)
(* Properties                                                              *)
(***************************************************************************)
TypeOK ==
    /\ task \in Plans
    /\ pc \in [Calls -> {"idle", "candidate", "account", "claim", "request", "act", "done"}]
    /\ \A c \in Calls : at[c] \in 1 .. Len(order[c]) + 1
    /\ attempt \in [Calls -> 0 .. 1]
    /\ used \in [Calls -> 0 .. ComboMaxHops]
    /\ emitted \in [Calls -> BOOLEAN]
    /\ {primaryErr[c] : c \in Calls} \cup {lastErr[c] : c \in Calls} \cup {error[c] : c \in Calls} \subseteq Errors \cup {NoError}

InRun == {c \in Calls : Task(c).style.inRun}

\* No more than three attempts for a call, nor more than the tree's limit for all of its calls
\* together, of which none is lost; candidates are tried in order, and the first never gets the
\* attempt that is reserved for the others.
BudgetKept ==
    /\ \A c \in Calls : Len(asked[c]) = used[c] /\ used[c] <= ComboMaxHops
    /\ treeUsed = Cardinality({t \in InRun \X (1 .. ComboMaxHops) : t[2] <= Len(asked[t[1]])})
    /\ treeUsed <= TreeLimit
    /\ \A c \in Calls : \A i, j \in DOMAIN asked[c] : i <= j => asked[c][i].at <= asked[c][j].at
    /\ \A c \in Calls : Len(order[c]) > 1 => Cardinality({i \in DOMAIN asked[c] : asked[c][i].at = 1}) < ComboMaxHops

\* Nothing is sent again once a piece of a reply was displayed: what the user reads comes from one reply.
ShownOnce == [][\A c \in Calls : emitted[c] => asked'[c] = asked[c] \/ pc[c] = "request"]_vars

FirstAsked(c) == asked[c][1].at
LastErrorAt(c, k) ==
    LET I == {i \in DOMAIN asked[c] : asked[c][i].at = k} IN asked[c][CHOOSE i \in I : \A j \in I : j <= i].error

\* The cause a reader of all attempts would name: what broke a reply that was being displayed, else
\* the last failure on the primary provider, else the last failure.
Cause(c) ==
    LET first == FirstAsked(c)
    IN IF ~emitted[c] /\ order[c][first].provider = order[c][1].provider
       THEN LastErrorAt(c, first)
       ELSE asked[c][Len(asked[c])].error

\* "No provider" may also stand for a candidate none of whose accounts could be used (calls without stream).
ErrorFounded(c) ==
    LET e == result[c].error
    IN \/ asked[c] = <<>> /\ e \in {LimitError, Unavailable}
       \/ asked[c] # <<>> /\ e = Cause(c)
       \/ asked[c] # <<>> /\ ~Task(c).style.stream /\ FirstAsked(c) # 1 /\ e = Unavailable

\* Who may be asked: usable providers, each once, and only the pin if the engine insists on it and
\* the user asked for nobody.
AskedWhereAllowed(c) ==
    /\ \A i \in DOMAIN asked[c] : Task(c).cfg.usable[order[c][asked[c][i].at].provider]
    /\ Task(c).chain = <<>> => IsInjective([i \in DOMAIN order[c] |-> order[c][i].provider])
    /\ Task(c).chain = <<>> /\ Task(c).cfg.strict /\ Task(c).ask = None =>
          \A i \in DOMAIN order[c] : order[c][i].provider = Task(c).cfg.pin => Len(order[c]) = 1

\* A reply that is returned is a whole one, from somebody who may be asked; an error is the cause of
\* the failure, not a later one, and the limit only if nothing was asked.
ResultFounded ==
    \A c \in Calls :
        /\ result[c].kind = "ok" => result[c].sound
        /\ result[c].kind = "error" => ErrorFounded(c)
        /\ AskedWhereAllowed(c)

\* What a call may still try, the most significant first: candidates, accounts of the one it is at, and
\* the retry; then how far it is with an attempt.
Stage(c) == CASE pc[c] = "idle" -> 2 [] pc[c] = "done" -> 0 [] OTHER -> 1

Point(c) == CASE pc[c] = "claim" -> 3 [] pc[c] = "request" -> 2 [] pc[c] = "act" -> 1 [] OTHER -> 0

ToTry(c) ==
    << Stage(c), Len(order[c]) + 1 - at[c], IF pc[c] = "candidate" THEN 1 ELSE 0, Len(accounts[c]),
       1 - attempt[c], Point(c) >>

Fewer(x, y) == \E i \in 1 .. 6 : x[i] < y[i] /\ \A j \in 1 .. 6 : j < i => x[j] = y[j]

\* No call goes round in circles, whatever providers answer, and no other call gives it anything to
\* try again (binding.rs: the loops over candidates, accounts and retries).
CallAdvances ==
    [][\E c \in Calls : /\ Fewer(ToTry(c)', ToTry(c))
                        /\ \A d \in Calls \ {c} : ToTry(d)' = ToTry(d)]_vars

\* Each call returns, and comes closer to its end with each step.
CallEnds == CallAdvances /\ \A c \in Calls : (pc[c] # "idle") ~> (pc[c] = "done")
=============================================================================
