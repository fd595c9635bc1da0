----------------------------- MODULE RunPromise ----------------------------
(***************************************************************************)
(* What a run tree promises to the code that watches it (RPC run.status,   *)
(* the TUI, Telegram): the root is either answered or cancelled, whichever *)
(* commits first, and a token is set only for a cancel that won.           *)
(***************************************************************************)
CONSTANTS Runs, Root

VARIABLES
  phase,  \* of each run
  stop    \* the run was told to stop

vars == <<phase, stop>>

Ends == {"Succeeded", "Limited", "Failed", "Cancelled"}

Init ==
  /\ phase = [r \in Runs |-> IF r = Root THEN "open" ELSE "absent"]
  /\ stop = [r \in Runs |-> FALSE]

Move(r, from, to) ==
  /\ phase[r] = from
  /\ phase' = [phase EXCEPT ![r] = to]
  /\ UNCHANGED stop

Begin(r) == r # Root /\ Move(r, "absent", "open")

\* the two ways the root's fate is sealed; each excludes the other
RequestCancel == Move(Root, "open", "cancelling")
Answer        == Move(Root, "open", "answered")

\* Without an answer a root does not succeed, without a cancel it is not
\* cancelled; a child succeeds on its own word, and is cancelled only if
\* it was told to stop.
End(r, e) ==
  \/ phase[r] = "open" /\ r = Root /\ e \in {"Limited", "Failed"} /\ Move(r, "open", e)
  \/ r # Root /\ (e = "Cancelled" => stop[r]) /\ Move(r, "open", e)
  \/ e = "Cancelled" /\ Move(r, "cancelling", e)
  \/ e = "Succeeded" /\ Move(r, "answered", e)

\* stopping reaches the root first and then its descendants
Stop(r) ==
  /\ phase[r] # "absent"
  /\ IF r = Root THEN phase[Root] \in {"cancelling", "Cancelled"} ELSE stop[Root]
  /\ stop' = [stop EXCEPT ![r] = TRUE]
  /\ UNCHANGED phase

Next ==
  \/ RequestCancel \/ Answer
  \/ \E r \in Runs : Begin(r) \/ Stop(r) \/ \E e \in Ends : End(r, e)

Spec == Init /\ [][Next]_vars
=============================================================================
