----------------------------- MODULE TerminalMC -----------------------------
(***************************************************************************)
(* The display of a turn after another; turns that are queued, asked about *)
(* and cancelled; a session that is compacted, left and restored; an       *)
(* autonomous loop that is judged, cancelled and resumed.                  *)
(***************************************************************************)
EXTENDS Terminal

CONSTANTS k1, k2, f1, f2

Quiet ==
    [prompts |-> 2, kinds |-> {"turn"}, keys |-> {}, busyDb |-> FALSE, crashes |-> FALSE, asks |-> FALSE,
     events |-> {}, reports |-> {}]

Report(finished, all, matched, verify) ==
    [finished |-> finished, all |-> all, matched |-> matched, verify |-> verify]

\* A part of the work, or all of it, with the answers of the verification.
MCReports ==
    {Report(1, FALSE, {k1}, v) : v \in {"ok", f1, f2}} \cup {Report(2, TRUE, {}, v) : v \in {"skipped", f1}}

\* No progress, or all done at once.
StuckReports == {Report(0, FALSE, {}, "skipped"), Report(2, TRUE, {}, "ok")}

ASSUME MCReports \cup StuckReports \subseteq Reports

Display == [Quiet EXCEPT !.events = {"chunk", "answer"}, !.keys = {"new", "esc"}]
Questions == [Quiet EXCEPT !.asks = TRUE, !.keys = {"esc", "ctrl-c"}]
Stored == [Quiet EXCEPT !.prompts = 3, !.kinds = {"turn", "compact"}, !.keys = {"new"}, !.busyDb = TRUE]
Restarted == [Stored EXCEPT !.prompts = 2, !.keys = {"ctrl-c"}, !.crashes = TRUE]
Loops == [Quiet EXCEPT !.prompts = 1, !.kinds = {"ulw"}, !.reports = MCReports]
LoopsCancelled == [Loops EXCEPT !.keys = {"esc"}, !.reports = StuckReports]
LoopsResumed == [Loops EXCEPT !.prompts = 2, !.kinds = {"ulw", "resume"}, !.reports = StuckReports]

MCScripts == {Display, Questions, Stored, Restarted, Loops, LoopsCancelled, LoopsResumed}
LoopScripts == {Loops}
=============================================================================
