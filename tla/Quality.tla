------------------------------ MODULE Quality ------------------------------
(***************************************************************************)
(* The quality gate of src/agent-harness/src/quality: the checkers that    *)
(* run as bounded commands (mod.rs), the search for the pages that load    *)
(* the changed web files, and the smoke test of each page in a browser     *)
(* (browser.rs).                                                           *)
(*                                                                         *)
(* The smoke test is four programs at once: the test itself with its       *)
(* deadlines, the page with the probe script it was given, the tasks of    *)
(* the little web server that take the probe's receipts, and the reader of *)
(* the browser's stderr.  A page error travels twice: as a receipt to the  *)
(* server and as a line in the browser's log.  Either may fail to arrive.  *)
(*                                                                         *)
(* A page error is a member of Errors.  Time is not modelled: a deadline   *)
(* may pass at any moment while the test waits for it.                     *)
(***************************************************************************)
EXTENDS Naturals, Sequences, FiniteSets

CONSTANTS
  Files,        \* the web files a workspace may hold
  Html,         \* those that are pages
  Styles,       \* those that are style sheets
  Jobs,         \* the gates to run: see JobType
  Errors,       \* the errors a page may report
  MaxErrors,    \* MAX_BROWSER_ERRORS
  MaxEntries,   \* MAX_BROWSER_ENTRIES
  NoEntry

\* What a checker turns out to be: installed; not installed, as a command of
\* the profile or as the syntax check a changed file must pass; without a file
\* to work on; or with a path outside the workspace.
CommandKinds == {"run", "missing", "absent", "nofiles", "badpath"}

\* A call of the gate on a workspace: who refers to whom, what was changed
\* and what of it no longer exists, the conventional pages to try for a file
\* in their order, the pages too large or too hidden for the walk, those with
\* the contract's meta tag and those that look like a game, whether the task
\* asks for a game, whether a script needs no package tools, whether there is
\* a browser, the checkers, and the errors the pages may raise, "404" for a
\* request of a file that is not there.
JobType ==
  [refs : SUBSET (Files \X Files), changed : SUBSET Files, gone : SUBSET Files,
   near : [Files -> Seq(Html)], unseen : SUBSET Html,
   contract : SUBSET Html, looks : SUBSET Html, game : BOOLEAN,
   free : BOOLEAN, browser : BOOLEAN, commands : Seq(CommandKinds),
   errors : SUBSET (Errors \cup {"404"})]

ASSUME JobsAssumption == /\ Html \subseteq Files /\ Styles \subseteq Files \ Html
                         /\ \A j \in Jobs : j \in JobType
ASSUME BoundsAssumption == MaxErrors \in Nat \ {0} /\ MaxEntries \in Nat
-----------------------------------------------------------------------------
(* Which pages to open: discover_entries_with_mode *)

Existing(job, f) == f \notin job.gone

\* the files a page leads to, over any number of references
Reached(job, page) ==
  LET Cited(S) == {f \in Files : \E g \in S : <<g, f>> \in job.refs}
      Within[n \in 1 .. Cardinality(Files)] ==
        IF n = 1 THEN Cited({page}) ELSE Within[n - 1] \cup Cited(Within[n - 1])
  IN Within[Cardinality(Files)]

\* a changed page is an entry and covers itself; one that was deleted covers
\* itself and is no entry
ChangedPages(job) == job.changed \cap Html

\* the first conventional page that leads to the file, if there is one
NearPage(job, f) ==
  {job.near[f][i] : i \in {k \in DOMAIN job.near[f] :
     /\ Existing(job, job.near[f][k]) /\ f \in Reached(job, job.near[f][k])
     /\ \A l \in 1 .. k - 1 : ~(/\ Existing(job, job.near[f][l])
                               /\ f \in Reached(job, job.near[f][l]))}}

NearCovered(job) ==
  ChangedPages(job) \cup {f \in job.changed \ Html : NearPage(job, f) # {}}

NearEntries(job) ==
  {p \in ChangedPages(job) : Existing(job, p)}
    \cup UNION {NearPage(job, f) : f \in job.changed \ Html}

\* the walk over the workspace, made when the task is a game or a file is not
\* covered yet
Walks(job) == job.changed # {} /\ (job.game \/ job.changed # NearCovered(job))

WalkEntries(job) ==
  {p \in Html \ job.unseen : Existing(job, p) /\ Reached(job, p) \cap job.changed # {}}

FoundEntries(job) ==
  NearEntries(job) \cup (IF Walks(job) THEN WalkEntries(job) ELSE {})

Covered(job) ==
  NearCovered(job)
    \cup (IF Walks(job) THEN job.changed \cap UNION {Reached(job, p) : p \in WalkEntries(job)}
                        ELSE {})

\* Seeded fault: changed files that no page leads to are passed over.
DiscoveryFailsAtTheLimit(job) == Cardinality(FoundEntries(job)) > MaxEntries

\* the search fails with too many pages, and when there are pages but some
\* changed file is reached from none of them
DiscoveryFails(job) ==
  \/ Cardinality(FoundEntries(job)) > MaxEntries
  \/ FoundEntries(job) # {} /\ job.changed # Covered(job)

\* a changed page or style sheet must be opened somewhere
EntryRequired(job) == \E f \in job.changed \cap (Html \cup Styles) : Existing(job, f)

\* which pages of a game task must play the contract
ContractTarget(job, page) ==
  /\ job.game
  /\ \/ Cardinality(FoundEntries(job)) <= 1
     \/ page \in job.contract \cup job.looks

\* whether the test of a page insists on the game receipt
GameNeeded(job, page) ==
  ContractTarget(job, page) \/ page \in job.contract \cup job.looks
-----------------------------------------------------------------------------
VARIABLES
  job,       \* the gate that runs
  pc,        \* where it is
  at,        \* the checker or the audit it is at
  todo,      \* pages still to open
  entry,     \* the page that is open, or the last one
  targeted,  \* game_contract_targeted
  failed,    \* some step did not pass or there is a finding
  clean,     \* pages whose test reported no error
  \* the command or browser that runs
  proc,      \* its root process: "none", "live", or how it exited
  helper,    \* a descendant of it is alive and holds its output
  status,    \* what the gate knows of its exit
  much,      \* it wrote more than the gate keeps
  orphan,    \* something outlived a cleanup that failed
  \* the smoke test
  serving,   \* the accept loop runs
  rundir,    \* the directory with the staged files and the profile exists
  page,      \* where the probe script is
  awaited,   \* the errors whose receipts the script waits for
  receipt,   \* each error's receipt
  line,      \* each error's line in the log
  played,    \* the contract was played to its end
  gameMsg,   \* the receipt of the game
  missing,   \* a request for a file that is not there
  early,     \* that request was made before the page was loaded
  sequence,  \* ProbeSequence and the ready flag
  recorded   \* server_errors

gate == <<job, pc, at, todo, entry, targeted, failed, clean>>
child == <<proc, helper, status, much, orphan>>
script == <<page, awaited, played, gameMsg, missing, early>>
traffic == <<receipt, line, sequence, recorded>>
host == <<serving, rundir>>
vars == <<gate, child, host, script, traffic>>

Fresh == [game |-> FALSE, ready |-> FALSE, errors |-> {}]

\* what the test of a page starts from
BlankPage ==
  /\ page = "none" /\ awaited = {} /\ played = FALSE /\ gameMsg = "none"
  /\ missing = "none" /\ early = FALSE
  /\ receipt = [e \in Errors |-> "none"] /\ line = [e \in Errors |-> "none"]
  /\ sequence = Fresh /\ recorded = {}

NewPage ==
  /\ page' = "none" /\ awaited' = {} /\ played' = FALSE /\ gameMsg' = "none"
  /\ missing' = "none" /\ early' = FALSE
  /\ receipt' = [e \in Errors |-> "none"] /\ line' = [e \in Errors |-> "none"]
  /\ sequence' = Fresh /\ recorded' = {}

Init ==
  /\ job \in Jobs
  /\ pc = "checkers" /\ at = 1 /\ todo = {} /\ entry = NoEntry
  /\ targeted = FALSE /\ failed = FALSE /\ clean = {}
  /\ proc = "none" /\ helper = FALSE /\ status = "none" /\ much = FALSE /\ orphan = FALSE
  /\ serving = FALSE /\ rundir = FALSE
  /\ BlankPage
-----------------------------------------------------------------------------
(* Checkers: run_step, run_bounded_command, run_dependency_audit *)

Checker == job.commands[at]

\* one that is not installed passes only when a script without package tools
\* does not need it
CheckerMissing ==
  /\ pc = "checkers" /\ at <= Len(job.commands) /\ Checker \in {"missing", "absent"}
  /\ failed' = (failed \/ ~(Checker = "missing" /\ job.free)) /\ at' = at + 1
  /\ UNCHANGED <<job, pc, todo, entry, targeted, clean, child, host, script, traffic>>

\* a changed file that is gone needs no checker, one outside the workspace
\* gets none
CheckerWithoutFile ==
  /\ pc = "checkers" /\ at <= Len(job.commands) /\ Checker \in {"nofiles", "badpath"}
  /\ failed' = (failed \/ Checker = "badpath") /\ at' = at + 1
  /\ UNCHANGED <<job, pc, todo, entry, targeted, clean, child, host, script, traffic>>

\* spawn_scoped under the deadline: it starts, or fails, or the time is over
CheckerStarted ==
  /\ pc = "checkers" /\ at <= Len(job.commands) /\ Checker = "run"
  /\ \/ /\ pc' = "waiting" /\ proc' = "live" /\ helper' \in BOOLEAN /\ much' \in BOOLEAN
        /\ status' = "none" /\ UNCHANGED <<at, failed>>
     \/ /\ failed' = TRUE /\ at' = at + 1 /\ UNCHANGED <<pc, proc, helper, status, much>>
  /\ UNCHANGED <<job, todo, entry, targeted, clean, orphan, host, script, traffic>>

\* child.wait() returns or fails, or the deadline passes.  "diff" is the exit
\* of a formatter that found a difference, or of a lint that blocks.
CheckerWaited ==
  /\ pc = "waiting"
  /\ \/ proc \in {"ok", "bad", "diff"} /\ status' = proc
     \/ status' = "timeout"
  /\ pc' = "stopping"
  /\ UNCHANGED <<job, at, todo, entry, targeted, failed, clean,
                 proc, helper, much, orphan, host, script, traffic>>

\* terminate(): when it succeeds nothing of the command is alive
\* (ProcessTree!CleanMeansGone); when it fails anything may be
Terminated(ok) ==
  IF ok
  THEN /\ proc' = (IF proc = "live" THEN "killed" ELSE proc) /\ helper' = FALSE
       /\ UNCHANGED orphan
  ELSE /\ proc' \in {proc, IF proc = "live" THEN "killed" ELSE proc}
       /\ helper' \in {helper, FALSE}
       /\ orphan' = (orphan \/ proc' = "live" \/ helper')

\* Seeded fault: a cleanup that failed is not an error.
CheckerStoppedAnyhow ==
  /\ pc = "stopping"
  /\ \E ok \in BOOLEAN :
       /\ Terminated(ok)
       /\ pc' = "collecting" /\ UNCHANGED <<at, failed, status>>
  /\ UNCHANGED <<job, todo, entry, targeted, clean, much, host, script, traffic>>

CheckerStopped ==
  /\ pc = "stopping"
  /\ \E ok \in BOOLEAN :
       /\ Terminated(ok)
       /\ IF ok \/ status = "timeout"
          THEN /\ pc' = "collecting"
               /\ status' = (IF ok THEN status ELSE "timeout")
               /\ UNCHANGED <<at, failed>>
          ELSE pc' = "checkers" /\ at' = at + 1 /\ failed' = TRUE /\ UNCHANGED status
  /\ UNCHANGED <<job, todo, entry, targeted, clean, much, host, script, traffic>>

\* the pipes close when nobody holds them
OutputEnded == proc # "live" /\ ~helper

StepPassed == status = "ok" /\ ~much

\* both readers end, or their two seconds are over
CheckerCollected ==
  /\ pc = "collecting"
  /\ \/ OutputEnded /\ failed' = (failed \/ ~StepPassed)
     \/ failed' = TRUE
  /\ pc' = "checkers" /\ at' = at + 1
  /\ UNCHANGED <<job, todo, entry, targeted, clean, child, host, script, traffic>>

\* the built-in scans may find something; then the pages are looked for,
\* which may also run out of its limits
Discover ==
  /\ pc = "checkers" /\ at > Len(job.commands)
  /\ targeted' = ~job.game
  /\ \E finding, limit \in BOOLEAN :
       LET fails == limit \/ DiscoveryFails(job)
       IN /\ todo' = (IF fails THEN {} ELSE FoundEntries(job))
          /\ failed' = (failed \/ finding \/ fails \/ (todo' = {} /\ EntryRequired(job)))
          /\ pc' = (IF fails THEN "done" ELSE "pages")
  /\ UNCHANGED <<job, at, entry, clean, child, host, script, traffic>>
-----------------------------------------------------------------------------
(* One page: smoke_test_in_workspace_with_contract *)

\* The page needs its contract and a browser; its files are staged and the
\* server starts, or one of these fails and the step with it.
OpenPage ==
  /\ pc = "pages" /\ todo # {}
  /\ \E p \in todo :
       /\ entry' = p /\ todo' = todo \ {p}
       /\ targeted' = (targeted \/ ContractTarget(job, p))
       /\ \/ /\ job.browser /\ (GameNeeded(job, p) => p \in job.contract)
             /\ pc' = "launch" /\ serving' = TRUE /\ rundir' = TRUE /\ UNCHANGED failed
          \/ failed' = TRUE /\ UNCHANGED <<pc, serving, rundir>>
  /\ proc' = "none" /\ helper' = FALSE /\ status' = "none" /\ much' = FALSE
  /\ NewPage
  /\ UNCHANGED <<job, at, clean, orphan>>

\* every page was opened: a game task needs one that plays
Finish ==
  /\ pc = "pages" /\ todo = {}
  /\ failed' = (failed \/ ~targeted) /\ pc' = "done"
  /\ UNCHANGED <<job, at, todo, entry, targeted, clean, child, host, script, traffic>>

\* The test returns: SmokeResources is dropped.  A browser that is still
\* alive may keep its directory.
Leave(ok) ==
  /\ pc' = "pages" /\ serving' = FALSE
  /\ rundir' \in (IF proc' = "live" \/ helper' THEN BOOLEAN ELSE {FALSE})
  /\ failed' = (failed \/ ~ok)
  /\ clean' = (IF ok THEN clean \cup {entry} ELSE clean)

Launch ==
  /\ pc = "launch"
  /\ \/ /\ pc' = "probing" /\ proc' = "live" /\ helper' \in BOOLEAN /\ page' = "loading"
        /\ UNCHANGED <<serving, rundir, failed, clean>>
     \/ UNCHANGED <<proc, helper, page>> /\ Leave(FALSE)
  /\ UNCHANGED <<job, at, todo, entry, targeted, status, much, orphan,
                 awaited, played, gameMsg, missing, early, traffic>>

\* Seeded fault: the loop has no deadline.
ProbedForEver ==
  /\ pc = "probing"
  /\ \/ sequence.ready /\ pc' = "settling" /\ UNCHANGED status
     \/ proc \in {"ok", "bad"} /\ status' = proc /\ pc' = "closing"
  /\ UNCHANGED <<job, at, todo, entry, targeted, failed, clean,
                 proc, helper, much, orphan, host, script, traffic>>

\* The loop of the test: it looks at the ready flag and then at the browser,
\* until the deadline.
Probed ==
  /\ pc = "probing"
  /\ \/ sequence.ready /\ pc' = "settling" /\ UNCHANGED status
     \/ proc \in {"ok", "bad"} /\ status' = proc /\ pc' = "closing"
     \/ status' = "timeout" /\ pc' = "closing"
  /\ UNCHANGED <<job, at, todo, entry, targeted, failed, clean,
                 proc, helper, much, orphan, host, script, traffic>>

\* five seconds after ready
Settled ==
  /\ pc = "settling"
  /\ status' = (IF proc = "live" THEN "ok" ELSE proc) /\ pc' = "closing"
  /\ UNCHANGED <<job, at, todo, entry, targeted, failed, clean,
                 proc, helper, much, orphan, host, script, traffic>>

CloseBrowser ==
  /\ pc = "closing"
  /\ \E ok \in BOOLEAN :
       /\ Terminated(ok)
       /\ IF ok THEN pc' = "draining" /\ UNCHANGED <<serving, rundir, failed, clean>>
                ELSE Leave(FALSE)
  /\ UNCHANGED <<job, at, todo, entry, targeted, status, much, script, traffic>>

\* everything the browser wrote has been taken out of the pipe
LogEnded == OutputEnded /\ \A e \in Errors : line[e] # "written"

\* await_stderr_reader: the reader ends, or its two seconds are over
Drained ==
  /\ pc = "draining" /\ UNCHANGED child
  /\ \/ LogEnded /\ status # "timeout" /\ pc' = "judging"
        /\ UNCHANGED <<serving, rundir, failed, clean>>
     \/ Leave(FALSE)
  /\ UNCHANGED <<job, at, todo, entry, targeted, script, traffic>>

Reported == recorded \cup {e \in Errors : line[e] = "read"}

\* evaluate_browser_output, and the step made of its answer
Judge ==
  /\ pc = "judging" /\ UNCHANGED child
  /\ Leave(/\ ~much /\ status = "ok" /\ sequence.ready
           /\ GameNeeded(job, entry) => sequence.game
           /\ Reported = {})
  /\ UNCHANGED <<job, at, todo, entry, targeted, script, traffic>>
-----------------------------------------------------------------------------
(* The browser and the page with the probe script *)

\* the root process of the scope exits by itself
Exit ==
  /\ proc = "live"
  /\ proc' \in {"ok", "bad"} \cup (IF pc = "waiting" THEN {"diff"} ELSE {})
  /\ UNCHANGED <<gate, helper, status, much, orphan, host, script, traffic>>

HelperExit ==
  /\ helper /\ helper' = FALSE
  /\ UNCHANGED <<gate, proc, status, much, orphan, host, script, traffic>>

\* (a browser that outlives its test talks to nobody)
Running == proc = "live" /\ page # "none" /\ serving

\* emit(): a line for the log and a receipt; the receipt may fail at once,
\* as when its text cannot be encoded
Emitted(e) ==
  /\ e \in job.errors /\ receipt[e] = "none"
  /\ receipt' \in {[receipt EXCEPT ![e] = r] : r \in {"sent", "failed"}}
  /\ line' = [line EXCEPT ![e] = "logged"]

\* console.error, an uncaught error, a rejected promise or a failed resource
PageError(e) ==
  /\ Running /\ Emitted(e)
  /\ UNCHANGED <<gate, child, host, script, sequence, recorded>>

\* the page asks for a file that is not staged
AskMissing ==
  /\ Running /\ "404" \in job.errors /\ missing = "none" /\ missing' = "asked" /\ early' = (page = "loading")
  /\ UNCHANGED <<gate, child, host, page, awaited, played, gameMsg, traffic>>

\* the load event comes when the resources of the page are answered
Loaded ==
  /\ Running /\ page = "loading" /\ missing # "asked" /\ page' = "playing"
  /\ UNCHANGED <<gate, child, host, awaited, played, gameMsg, missing, early, traffic>>

\* runGameContract returns at once without the meta tag, plays to the end
\* and reports it, or throws, which is one more error
Play ==
  /\ Running /\ page = "playing" /\ gameMsg = "none"
  /\ \/ /\ entry \notin job.contract /\ page' = "gathering"
        /\ UNCHANGED <<played, gameMsg, receipt, line>>
     \/ /\ entry \in job.contract /\ played' = TRUE /\ gameMsg' = "sent"
        /\ UNCHANGED <<page, receipt, line>>
     \/ /\ entry \in job.contract /\ page' = "gathering"
        /\ \E e \in Errors : Emitted(e)
        /\ UNCHANGED <<played, gameMsg>>
  /\ UNCHANGED <<gate, child, host, awaited, missing, early, sequence, recorded>>

\* the game receipt was answered; a refusal throws
Played ==
  /\ Running /\ page = "playing" /\ gameMsg \in {"taken", "refused"} /\ page' = "gathering"
  /\ \/ gameMsg = "taken" /\ UNCHANGED <<receipt, line>>
     \/ gameMsg = "refused" /\ \E e \in Errors : Emitted(e)
  /\ UNCHANGED <<gate, child, host, awaited, played, gameMsg, missing, early,
                 sequence, recorded>>

\* Promise.allSettled is called with the receipts there are
Gather ==
  /\ Running /\ page = "gathering" /\ page' = "awaiting"
  /\ awaited' = {e \in Errors : receipt[e] # "none"}
  /\ UNCHANGED <<gate, child, host, played, gameMsg, missing, early, traffic>>

Settles(e) == receipt[e] \in {"answered", "refused", "failed"}

\* Seeded fault: the script does not wait for its receipts.
SendReadyAtOnce ==
  /\ Running /\ page = "awaiting" /\ page' = "reporting"
  /\ UNCHANGED <<gate, child, host, awaited, played, gameMsg, missing, early, traffic>>

\* and when all of them are settled the script reports that it is ready
SendReady ==
  /\ Running /\ page = "awaiting" /\ (\A e \in awaited : Settles(e)) /\ page' = "reporting"
  /\ UNCHANGED <<gate, child, host, awaited, played, gameMsg, missing, early, traffic>>

\* the browser writes a line of the log to its stderr
WriteLine(e) ==
  /\ Running /\ line[e] = "logged" /\ line' = [line EXCEPT ![e] = "written"]
  /\ UNCHANGED <<gate, child, host, script, receipt, sequence, recorded>>
-----------------------------------------------------------------------------
(* The server's tasks and the reader of the log *)

\* accept_probe_receipt for an error, under the lock of the sequence
TakeError(e) ==
  /\ serving /\ receipt[e] = "sent"
  /\ IF ~sequence.ready /\ Cardinality(sequence.errors) < MaxErrors
     THEN /\ receipt' = [receipt EXCEPT ![e] = "taken"]
          /\ sequence' = [sequence EXCEPT !.errors = @ \cup {e}]
     ELSE receipt' = [receipt EXCEPT ![e] = "refused"] /\ UNCHANGED sequence
  /\ UNCHANGED <<gate, child, host, script, line, recorded>>

\* the lock is released before the error is pushed and answered; the task
\* outlives the accept loop
PushError(e) ==
  /\ receipt[e] = "taken"
  /\ receipt' = [receipt EXCEPT ![e] = "answered"]
  /\ recorded' = (IF Cardinality(recorded) < MaxErrors THEN recorded \cup {e} ELSE recorded)
  /\ UNCHANGED <<gate, child, host, script, line, sequence>>

TakeGame ==
  /\ serving /\ gameMsg = "sent"
  /\ IF ~sequence.ready /\ ~sequence.game
     THEN gameMsg' = "taken" /\ sequence' = [sequence EXCEPT !.game = TRUE]
     ELSE gameMsg' = "refused" /\ UNCHANGED sequence
  /\ UNCHANGED <<gate, child, host, page, awaited, played, missing, early,
                 receipt, line, recorded>>

TakeReady ==
  /\ serving /\ page = "reporting" /\ page' = "idle"
  /\ sequence' = [sequence EXCEPT !.ready = TRUE]
  /\ UNCHANGED <<gate, child, host, awaited, played, gameMsg, missing, early,
                 receipt, line, recorded>>

\* a request for a file that is not there is recorded, then answered
ServeMissing ==
  /\ serving /\ missing = "asked" /\ missing' = "answered"
  /\ recorded' = (IF Cardinality(recorded) < MaxErrors THEN recorded \cup {"404"} ELSE recorded)
  /\ UNCHANGED <<gate, child, host, page, awaited, played, gameMsg, early,
                 receipt, line, sequence>>

\* the reader takes a line, or has no room left for it and says so
ReadLine(e) ==
  /\ pc \in {"probing", "settling", "closing", "draining"} /\ line[e] = "written"
  /\ \/ line' = [line EXCEPT ![e] = "read"] /\ UNCHANGED much
     \/ line' = [line EXCEPT ![e] = "cut"] /\ much' = TRUE
  /\ UNCHANGED <<gate, proc, helper, status, orphan, host, script, receipt, sequence, recorded>>
-----------------------------------------------------------------------------
GateStep ==
  \/ CheckerMissing \/ CheckerWithoutFile
  \/ CheckerStarted \/ CheckerWaited \/ CheckerStopped \/ CheckerCollected
  \/ Discover \/ OpenPage \/ Finish
  \/ Launch \/ Probed \/ Settled \/ CloseBrowser \/ Drained \/ Judge

Browser ==
  \/ Exit \/ HelperExit \/ AskMissing \/ Loaded \/ Play \/ Played \/ Gather \/ SendReady
  \/ \E e \in Errors : PageError(e) \/ WriteLine(e)

Tasks ==
  \/ TakeGame \/ TakeReady \/ ServeMissing
  \/ \E e \in Errors : TakeError(e) \/ PushError(e) \/ ReadLine(e)

Rest == pc = "done" /\ UNCHANGED vars

Next == GateStep \/ Browser \/ Tasks \/ Rest

Spec == Init /\ [][Next]_vars

\* The gate is one task of the runtime and each of its waits has a deadline.
\* Nothing is assumed of the checkers, the browser, the page or the server.
FairSpec == Spec /\ WF_vars(GateStep)
-----------------------------------------------------------------------------
(* Properties *)

Points == {"checkers", "waiting", "stopping", "collecting", "pages", "launch", "probing",
           "settling", "closing", "draining", "judging", "done"}

\* Every variable keeps its type.
TypeOK ==
  /\ job \in Jobs /\ pc \in Points /\ at \in Nat /\ todo \subseteq Html
  /\ entry \in Html \cup {NoEntry} /\ clean \subseteq Html
  /\ targeted \in BOOLEAN /\ failed \in BOOLEAN /\ helper \in BOOLEAN /\ much \in BOOLEAN
  /\ orphan \in BOOLEAN /\ serving \in BOOLEAN /\ rundir \in BOOLEAN /\ played \in BOOLEAN
  /\ early \in BOOLEAN
  /\ proc \in {"none", "live", "ok", "bad", "diff", "killed"}
  /\ status \in {"none", "ok", "bad", "diff", "killed", "timeout"}
  /\ page \in {"none", "loading", "playing", "gathering", "awaiting", "reporting", "idle"}
  /\ awaited \subseteq Errors /\ recorded \subseteq Errors \cup {"404"}
  /\ receipt \in [Errors -> {"none", "sent", "failed", "taken", "refused", "answered"}]
  /\ line \in [Errors -> {"none", "logged", "written", "read", "cut"}]
  /\ gameMsg \in {"none", "sent", "taken", "refused"}
  /\ missing \in {"none", "asked", "answered"}
  /\ sequence \in [game : BOOLEAN, ready : BOOLEAN, errors : SUBSET Errors]

\* A page that is reported clean really was: its script came to its end; no
\* error that it raised before it gathered its receipts was answered by the
\* server, none was written to the log, and every file it asked for while it
\* loaded was there; and where a game was needed, it was played to its end.
\* This though receipts, log lines, the ready flag and the exit of the browser
\* reach the test apart (smoke_test_in_workspace_with_contract).
CleanIsFounded ==
  (pc = "pages" /\ entry \in clean) =>
    /\ sequence.ready /\ ~(missing # "none" /\ early)
    /\ \A e \in awaited : receipt[e] # "answered"
    /\ \A e \in Errors : line[e] \in {"none", "logged"}
    /\ GameNeeded(job, entry) => played

\* A gate that passes has run what was changed: if any page was opened, then
\* each changed web file that exists is a page that was found clean or is
\* reached from one; a changed page or style sheet always is, and a game task
\* has played some page (discover_entries_with_mode and the gate's verdict).
EveryChangeWasRun ==
  (pc = "done" /\ ~failed) =>
    /\ clean # {} \/ EntryRequired(job) =>
         \A f \in job.changed : Existing(job, f) =>
           \E p \in clean : f = p \/ f \in Reached(job, p)
    /\ job.game => \E p \in clean : p \in job.contract

\* Between two steps of the gate its server and its directory are gone, and
\* no process of an earlier step is alive, unless the gate has failed by then.
NothingLeft ==
  pc \in {"checkers", "pages", "done"} =>
    /\ ~serving
    /\ rundir \/ proc = "live" \/ helper \/ orphan => failed

\* The gate comes to its verdict, whatever the checkers, the browser and the
\* page do.
GateEnds == <>(pc = "done")
=============================================================================
