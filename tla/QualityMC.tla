----------------------------- MODULE QualityMC -----------------------------
(***************************************************************************)
(* Quality on small workspaces: two pages, a script and what it imports.   *)
(***************************************************************************)
EXTENDS Quality

CONSTANTS index, second, app, lib, e1, e2

Plain ==
  [refs |-> {<<index, app>>, <<app, lib>>}, changed |-> {lib}, gone |-> {},
   near |-> [f \in Files |-> <<index>>], unseen |-> {}, contract |-> {}, looks |-> {},
   game |-> FALSE, free |-> FALSE, browser |-> TRUE, commands |-> <<>>, errors |-> {}]

Two == [Plain EXCEPT !.refs = {<<index, app>>, <<second, lib>>}, !.changed = {app, lib}]

MCJobs ==
  { [Plain EXCEPT !.errors = {e1, e2}], [Plain EXCEPT !.errors = {e1, "404"}], Two,
    \* one of the changed files has no page
    [Two EXCEPT !.unseen = {second}],
    \* a script alone, and a page that was deleted
    [Plain EXCEPT !.refs = {}, !.changed = {app}],
    [Two EXCEPT !.changed = {index, app}, !.gone = {index}, !.refs = {<<second, lib>>}],
    [Plain EXCEPT !.changed = {index, lib}, !.refs = {<<index, lib>>, <<lib, index>>},
                  !.browser = FALSE],
    \* a game on one of two pages, and a game without its contract
    [Two EXCEPT !.refs = @ \cup {<<second, app>>}, !.contract = {second}, !.game = TRUE,
                !.errors = {e1}],
    [Plain EXCEPT !.looks = {index}],
    [Plain EXCEPT !.refs = {}, !.game = TRUE],
    \* checkers
    [Plain EXCEPT !.changed = {}, !.commands = <<"run", "missing">>],
    [Plain EXCEPT !.changed = {}, !.commands = <<"run", "run">>],
    [Plain EXCEPT !.changed = {}, !.free = TRUE, !.commands = <<"missing", "nofiles">>],
    [Plain EXCEPT !.changed = {}, !.commands = <<"badpath">>],
    [Plain EXCEPT !.changed = {}, !.free = TRUE, !.commands = <<"absent">>] }
=============================================================================
