-------------------------------- MODULE Ulw --------------------------------
(***************************************************************************)
(* The verdict of the autonomous loop (ulw.rs: UlwState::record_run).      *)
(*                                                                         *)
(* A loop's state is what state.json holds: its `status`, the criteria     *)
(* that are `met`, how many `runs` and `nudges` it had, the most todos     *)
(* `finished` so far, and the last failing verification `sig` with its     *)
(* `streak`.  A run reports how many todos are finished and whether these  *)
(* are `all`, the criteria whose closest todo is finished (`matched`), and *)
(* the verification the loop ran itself: "skipped" (nothing changed, or no *)
(* command), "ok", or a failure.                                           *)
(***************************************************************************)
EXTENDS Naturals

CONSTANTS
    Criteria,       \* the completion criteria of a goal
    Failures        \* what a failing verification may print

MaxNudges == 3
MaxLoopRuns == 1 + MaxNudges

NoFailure == "none"

UlwStart ==
    [status |-> "running", met |-> {}, runs |-> 0, nudges |-> 0, finished |-> 0, sig |-> NoFailure, streak |-> 0]

Reports ==
    [finished : 0 .. 2, all : BOOLEAN, matched : SUBSET Criteria, verify : {"skipped", "ok"} \cup Failures]

Failed(r) == r.verify \in Failures

\* A failure like the last one lengthens the streak; a pass does not end it.
Streak(u, r) == IF ~Failed(r) THEN u.streak ELSE IF r.verify = u.sig THEN u.streak + 1 ELSE 1

\* Seeded fault: a failing verification does not keep criteria from being met.
MetAnyway(u, r) == u.met \cup (IF r.all THEN Criteria ELSE r.matched)

\* A criterion stays met.  All todos finished stand for every criterion.
MetAfter(u, r) == IF Failed(r) THEN u.met ELSE u.met \cup (IF r.all THEN Criteria ELSE r.matched)

NudgesAfter(u, r) ==
    IF ~Failed(r) /\ (r.finished > u.finished \/ MetAfter(u, r) # u.met) THEN 0 ELSE u.nudges + 1

OutOfRuns(u) == u.nudges > MaxNudges \/ u.runs >= MaxLoopRuns

\* The state after a run; its status is the verdict.
RecordRun(u, r) ==
    LET v == [u EXCEPT !.runs = u.runs + 1,
                       !.finished = IF r.finished > u.finished THEN r.finished ELSE u.finished,
                       !.sig = IF Failed(r) THEN r.verify ELSE u.sig,
                       !.streak = Streak(u, r)]
        w == [v EXCEPT !.met = MetAfter(u, r)]
        x == [w EXCEPT !.nudges = NudgesAfter(u, r)]
    IN IF Failed(r) /\ v.streak >= 3 THEN [v EXCEPT !.status = "blocked"]
       ELSE IF w.met = Criteria /\ ~Failed(r) THEN [w EXCEPT !.status = "done"]
       ELSE IF OutOfRuns(x) THEN [x EXCEPT !.status = "blocked"]
       ELSE x
=============================================================================
