---------------------------- MODULE ProcessTree ----------------------------
(***************************************************************************)
(* Commands and the processes they leave behind (process_tree.rs, Linux).  *)
(*                                                                         *)
(* A command runs in a process group of its own, with a marker in its      *)
(* environment and an open marker file.  Its processes may fork, leave the *)
(* group, clear their environment, close their files and exit at any time. *)
(* When the command ends, fails, is cancelled or takes too long, its       *)
(* cleanup stops the group, looks for processes with a mark or descended   *)
(* from the root, one PID after the other, stops and later kills them,     *)
(* looks again and says whether any is left.                               *)
(*                                                                         *)
(* PIDs are reused; a process is known by its PID and its generation.  The *)
(* capture of a process (pidfd_open) fixes the generation.                 *)
(***************************************************************************)
EXTENDS Naturals, FiniteSets, Sequences, FiniteSetsExt

CONSTANTS
    Commands,
    NoCommand,      \* the command of a process that belongs to none
    Pids,           \* a set of numbers without 0
    Capacity,       \* PROCESS_DISCOVERY_PERMITS
    Scripts         \* bound: which commands run, how often their processes fork, how often one leaves
                    \* the group or loses a mark, how many processes others have, and how many
                    \* lookups and cleanups fail or take too long

ASSUME PidsAssumption == Pids \subseteq Nat \ {0}
ASSUME CommandsAssumption == NoCommand \notin Commands

VARIABLES
    script,         \* one of Scripts
    proc,           \* PID -> the process that has it
    gens,           \* generations so far
    cmd,            \* command -> its place, and what its cleanup knows
    held,           \* commands that hold a discovery reservation
    threads,        \* commands with a scan of files that was given up but still runs
    forks, shed, mishaps,
    reused          \* generations that took a PID after a lookup had listed it

procVars == <<script, proc, gens, cmd, held, threads, forks, shed, mishaps, reused>>

Free == [state |-> "free", gen |-> 0, of |-> NoCommand, parent |-> 0, group |-> 0, env |-> FALSE, fd |-> FALSE]

\* at: its place; root: PID of the child; live: the child is not reaped; target: the root as last seen
\* by active_root, or 0; round and stages: the lookups to come; todo, found: of the current lookup;
\* cand: PIDs to capture; visible, captured, fresh: what was found; begun: gens when the round
\* began; errors: a step failed.
Idle ==
    [at |-> "reserve", root |-> 0, live |-> FALSE, target |-> 0, round |-> "none", stages |-> <<>>, todo |-> {},
     found |-> {}, cand |-> {}, visible |-> {}, captured |-> {}, fresh |-> {}, errors |-> FALSE, begun |-> 0]

Identity(p) == [pid |-> p, gen |-> proc[p].gen]
Alive(p) == proc[p].state \in {"run", "stop"}
Root(c) == cmd[c].root
RootIs(c, state) == cmd[c].live /\ proc[Root(c)].state = state

\* A process whose parent is gone becomes a child of init, which reaps it; a root waits to be reaped.
Dead(ps) ==
    [p \in Pids |->
        IF p \in ps
        THEN IF \E c \in Commands : cmd[c].live /\ Root(c) = p THEN [proc[p] EXCEPT !.state = "zombie"] ELSE Free
        ELSE IF proc[p].parent \in ps THEN [proc[p] EXCEPT !.parent = 0] ELSE proc[p]]

\* A PID is not given out while it names a group.
Unused(q) == proc[q].state = "free" /\ \A p \in Pids : proc[p].group # q

\* A lookup notes PIDs with their parents.
PidsOf(found) == {entry[1] : entry \in found}

\* A lookup that has listed a PID knows nothing of the process that takes it now.
Listed(q) ==
    \E c \in Commands : cmd[c].at \in {"look", "capture"} /\ q \in PidsOf(cmd[c].found) \cup cmd[c].cand

Born(q, process) ==
    /\ Unused(q)
    /\ gens' = gens + 1
    /\ proc' = [proc EXCEPT ![q] = [process EXCEPT !.gen = gens']]
    /\ reused' = IF Listed(q) THEN reused \cup {gens'} ELSE reused

----------------------------------------------------------------------------
(***************************************************************************)
(* Processes of a command, while it is not done, and of others.            *)
(***************************************************************************)
Fork(p, q) ==
    /\ proc[p].state = "run" /\ proc[p].of # NoCommand
    /\ cmd[proc[p].of].at # "done"
    /\ forks[proc[p].of] < script.forks[proc[p].of]
    /\ forks' = [forks EXCEPT ![proc[p].of] = @ + 1]
    /\ Born(q, [proc[p] EXCEPT !.parent = p])
    /\ UNCHANGED <<cmd, held, threads, shed, mishaps>>

\* setsid, a cleared environment, closed files.
Sheds(p) ==
    {[proc[p] EXCEPT !.group = p], [proc[p] EXCEPT !.env = FALSE], [proc[p] EXCEPT !.fd = FALSE]} \ {proc[p]}

Shed(p) ==
    /\ proc[p].state = "run" /\ proc[p].of # NoCommand
    /\ cmd[proc[p].of].at # "done"
    /\ shed < script.shed
    /\ shed' = shed + 1
    /\ \E process \in Sheds(p) : proc' = [proc EXCEPT ![p] = process]
    /\ UNCHANGED <<gens, cmd, held, threads, forks, mishaps, reused>>

Exit(p) ==
    /\ proc[p].state = "run" /\ proc[p].of # NoCommand
    /\ cmd[proc[p].of].at # "done"
    /\ proc' = Dead({p})
    /\ UNCHANGED <<gens, cmd, held, threads, forks, shed, mishaps, reused>>

Stranger(q) ==
    /\ Cardinality({p \in Pids : Alive(p) /\ proc[p].of = NoCommand}) < script.strangers
    /\ \E c \in Commands : cmd[c].at \notin {"reserve", "done"}
    /\ Born(q, [Free EXCEPT !.state = "run", !.group = q])
    /\ UNCHANGED <<cmd, held, threads, forks, shed, mishaps>>

----------------------------------------------------------------------------
(***************************************************************************)
(* Start of a command.                                                     *)
(***************************************************************************)
Update(c, record) == cmd' = [cmd EXCEPT ![c] = record]

Goto(c, at) == Update(c, [cmd[c] EXCEPT !.at = at])

\* spawn_scoped waits for a reservation ...
Reserve(c) ==
    /\ cmd[c].at = "reserve"
    /\ Cardinality(held) < Capacity
    /\ held' = held \cup {c}
    /\ Goto(c, "spawn")
    /\ UNCHANGED <<proc, gens, threads, forks, shed, mishaps, reused>>

\* ... but no longer than the command may take, or until it is cancelled.
GiveUpWaiting(c) ==
    /\ cmd[c].at = "reserve"
    /\ Goto(c, "done")
    /\ UNCHANGED <<proc, gens, held, threads, forks, shed, mishaps, reused>>

Spawn(c) ==
    /\ cmd[c].at = "spawn"
    /\ \E q \in Pids :
          /\ Born(q, [Free EXCEPT !.state = "run", !.of = c, !.group = q, !.env = TRUE, !.fd = TRUE])
          /\ Update(c, [cmd[c] EXCEPT !.at = "running", !.root = q, !.live = TRUE])
    /\ UNCHANGED <<held, threads, forks, shed, mishaps>>

SpawnFails(c) ==
    /\ cmd[c].at = "spawn"
    /\ Goto(c, "done")
    /\ held' = held \ {c}
    /\ UNCHANGED <<proc, gens, threads, forks, shed, mishaps, reused>>

\* The child is waited for, and so reaped, or the wait ends early.
Reaped(c) == proc' = [proc EXCEPT ![Root(c)] = Free]

Waited(c) ==
    /\ cmd[c].at = "running"
    /\ RootIs(c, "zombie")
    /\ Reaped(c)
    /\ Update(c, [cmd[c] EXCEPT !.at = "quiesce", !.live = FALSE])
    /\ UNCHANGED <<gens, held, threads, forks, shed, mishaps, reused>>

GiveUp(c) ==
    /\ cmd[c].at = "running"
    /\ Goto(c, "quiesce")
    /\ UNCHANGED <<proc, gens, held, threads, forks, shed, mishaps, reused>>

----------------------------------------------------------------------------
(***************************************************************************)
(* Cleanup: signals.                                                       *)
(***************************************************************************)
Members(group) == {p \in Pids : Alive(p) /\ proc[p].group = group}

Stopped(ps) == [p \in Pids |-> IF p \in ps THEN [proc[p] EXCEPT !.state = "stop"] ELSE proc[p]]

\* Seeded fault: a signal goes to the PID that was captured.
HitPid(identities) == {p \in Pids : Alive(p) /\ \E i \in identities : i.pid = p}

\* A signal goes to the generation that was captured.
Hit(identities) == {p \in Pids : Alive(p) /\ Identity(p) \in identities}

\* active_root: a child that has exited is reaped and is no root any more.
LookAtRoot(c, alive, gone) ==
    IF RootIs(c, "zombie")
    THEN Reaped(c) /\ Update(c, [cmd[c] EXCEPT !.live = FALSE, !.target = 0, !.at = gone])
    ELSE Update(c, [cmd[c] EXCEPT !.target = IF cmd[c].live THEN Root(c) ELSE 0,
                                !.at = IF cmd[c].live THEN alive ELSE gone]) /\ UNCHANGED proc

\* quiesce_root_before_cleanup
Quiesce(c) ==
    /\ cmd[c].at = "quiesce"
    /\ LookAtRoot(c, "stop", "root")
    /\ UNCHANGED <<gens, held, threads, forks, shed, mishaps, reused>>

StopGroup(c) ==
    /\ cmd[c].at = "stop"
    /\ proc' = Stopped(Members(cmd[c].target))
    /\ Goto(c, "root")
    /\ UNCHANGED <<gens, held, threads, forks, shed, mishaps, reused>>

FindRoot(c) ==
    /\ cmd[c].at = "root"
    /\ LookAtRoot(c, "first", "first")
    /\ UNCHANGED <<gens, held, threads, forks, shed, mishaps, reused>>

----------------------------------------------------------------------------
(***************************************************************************)
(* Cleanup: rounds of lookups.  The marker file is looked for by a thread, *)
(* which is given up after two seconds; as long as it runs, it keeps later *)
(* rounds from looking for the file (discovery_operation).                 *)
(***************************************************************************)
Stages(c, root, round) ==
    LET files == IF c \in threads THEN <<>> ELSE <<"fd">>
        tree == IF root = 0 THEN <<>> ELSE <<"tree">>
    IN IF round = "verdict" THEN <<"env">> \o files ELSE files \o <<"env">> \o tree

\* Only the first round knows a root.
Round(c, round) ==
    LET root == IF round = "first" THEN cmd[c].target ELSE 0 IN
    [cmd[c] EXCEPT !.at = "look", !.round = round, !.target = root, !.stages = Stages(c, root, round),
                   !.todo = Pids, !.found = {}, !.cand = {}, !.visible = {}, !.fresh = {}, !.begun = gens]

BeginFirst(c) ==
    /\ cmd[c].at = "first"
    /\ Update(c, Round(c, "first"))
    /\ UNCHANGED <<proc, gens, held, threads, forks, shed, mishaps, reused>>

\* What a lookup notes of a PID.
Seen(c, p) ==
    CASE Head(cmd[c].stages) = "fd"   -> proc[p].fd /\ proc[p].of = c
      [] Head(cmd[c].stages) = "env"  -> proc[p].env /\ proc[p].of = c
      [] Head(cmd[c].stages) = "tree" -> TRUE

Noted(c, p) == IF Alive(p) /\ Seen(c, p) THEN {<<p, proc[p].parent>>} ELSE {}

\* descendant_pids: the root and everybody below it, the least set closed under "has a parent in it".
Descendants(pairs, root) ==
    {p \in Pids : \A S \in SUBSET Pids : root \in S /\ (\A e \in pairs : e[2] \in S => e[1] \in S) => p \in S}

Candidates(c, found) ==
    (IF Head(cmd[c].stages) = "tree" THEN Descendants(found, cmd[c].target) ELSE PidsOf(found))
        \ ({cmd[c].target} \cup cmd[c].visible)

\* The next PID; the last one ends the lookup.
Look(c) ==
    /\ cmd[c].at = "look"
    /\ cmd[c].todo # {}
    /\ LET p == Min(cmd[c].todo)
           found == cmd[c].found \cup Noted(c, p)
       IN Update(c, IF cmd[c].todo = {p}
                  THEN [cmd[c] EXCEPT !.at = "capture", !.todo = {}, !.found = {}, !.cand = Candidates(c, found)]
                  ELSE [cmd[c] EXCEPT !.todo = @ \ {p}, !.found = found])
    /\ UNCHANGED <<proc, gens, held, threads, forks, shed, mishaps, reused>>

\* A scan of files goes on when nobody waits for it any more.
LeftScan(c) == IF cmd[c].at = "look" /\ Head(cmd[c].stages) = "fd" THEN threads \cup {c} ELSE threads

\* ps fails, or the scan of the files takes too long and goes on alone.
LookFails(c) ==
    /\ cmd[c].at = "look"
    /\ mishaps < script.faults
    /\ mishaps' = mishaps + 1
    /\ threads' = LeftScan(c)
    /\ Update(c, [cmd[c] EXCEPT !.at = "capture", !.todo = {}, !.found = {}, !.cand = {}, !.errors = TRUE])
    /\ UNCHANGED <<proc, gens, held, forks, shed, reused>>

\* Seeded fault: the share of a scan that was given up is lost with it.
ScanKeepsShare(c) ==
    /\ c \in threads
    /\ threads' = threads \ {c}
    /\ UNCHANGED <<script, proc, gens, cmd, held, forks, shed, mishaps, reused>>

ScanEnds(c) ==
    /\ c \in threads
    /\ threads' = threads \ {c}
    /\ held' = IF cmd[c].at = "done" THEN held \ {c} ELSE held
    /\ UNCHANGED <<script, proc, gens, cmd, forks, shed, mishaps, reused>>

\* A PID that was found is captured and stopped, whoever has it now; the verdict only counts it.
Capture(c) ==
    /\ cmd[c].at = "capture"
    /\ cmd[c].cand # {}
    /\ LET p == Min(cmd[c].cand)
           seen == [cmd[c] EXCEPT !.cand = @ \ {p}, !.visible = @ \cup {p}]
       IN IF cmd[c].round = "verdict"
          THEN Update(c, [seen EXCEPT !.errors = TRUE]) /\ UNCHANGED proc
          ELSE IF Alive(p)
          THEN /\ Update(c, [seen EXCEPT !.captured = @ \cup {Identity(p)}, !.fresh = @ \cup {Identity(p)}])
               /\ proc' = Stopped({p})
          ELSE Update(c, seen) /\ UNCHANGED proc
    /\ UNCHANGED <<gens, held, threads, forks, shed, mishaps, reused>>

After(round) ==
    CASE round = "first" -> "judge" [] round = "second" -> "killfresh" [] round = "verdict" -> "finish" [] OTHER -> "killall"

EndLookup(c) ==
    /\ cmd[c].at = "capture"
    /\ cmd[c].cand = {}
    /\ LET rest == Tail(cmd[c].stages)
       IN Update(c, [cmd[c] EXCEPT !.stages = rest, !.todo = IF rest = <<>> THEN {} ELSE Pids,
                                 !.at = IF rest = <<>> THEN After(cmd[c].round) ELSE "look"])
    /\ UNCHANGED <<proc, gens, held, threads, forks, shed, mishaps, reused>>

----------------------------------------------------------------------------
(***************************************************************************)
(* Cleanup: the end.                                                       *)
(***************************************************************************)
\* Nothing to do: the root is gone and nobody was found.
Judge(c) ==
    /\ cmd[c].at = "judge"
    /\ Goto(c, IF cmd[c].target = 0 /\ cmd[c].visible = {} THEN "finish" ELSE "kill")
    /\ UNCHANGED <<proc, gens, held, threads, forks, shed, mishaps, reused>>

Kill(c) ==
    /\ cmd[c].at = "kill"
    /\ proc' = Dead(Hit(cmd[c].captured))
    /\ Goto(c, "killgroup")
    /\ UNCHANGED <<gens, held, threads, forks, shed, mishaps, reused>>

KillGroup(c) ==
    /\ cmd[c].at = "killgroup"
    /\ proc' = IF cmd[c].target = 0 THEN proc ELSE Dead(Members(cmd[c].target))
    /\ Goto(c, "reap")
    /\ UNCHANGED <<gens, held, threads, forks, shed, mishaps, reused>>

\* The root was killed with its group.
Reap(c) ==
    /\ cmd[c].at = "reap"
    /\ IF cmd[c].live THEN Reaped(c) ELSE UNCHANGED proc
    /\ Update(c, [Round(c, "second") EXCEPT !.live = FALSE])
    /\ UNCHANGED <<gens, held, threads, forks, shed, mishaps, reused>>

KillFresh(c) ==
    /\ cmd[c].at = "killfresh"
    /\ proc' = Dead(Hit(cmd[c].fresh))
    /\ Update(c, Round(c, "verdict"))
    /\ UNCHANGED <<gens, held, threads, forks, shed, mishaps, reused>>

\* The reservation is given back unless a scan still has a share in it.
EndCleanup(c) ==
    /\ cmd[c].at = "finish"
    /\ Goto(c, "done")
    /\ held' = IF c \in threads THEN held ELSE held \ {c}
    /\ UNCHANGED <<proc, gens, threads, forks, shed, mishaps, reused>>

\* Eight seconds after the first round the cleanup is given up where it waits: for the root, which was
\* killed with its group, or for a lookup.  What was captured is killed, and looked for once more.
TimesOut(c) ==
    /\ \/ cmd[c].at = "reap"
       \/ cmd[c].at = "look" /\ cmd[c].round \in {"second", "verdict"}
    /\ mishaps < script.faults
    /\ mishaps' = mishaps + 1
    /\ threads' = LeftScan(c)
    /\ proc' = Dead(Hit(cmd[c].captured))
    /\ Update(c, [cmd[c] EXCEPT !.at = "fallback", !.errors = TRUE])
    /\ UNCHANGED <<gens, held, forks, shed, reused>>

Fallback(c) ==
    /\ cmd[c].at = "fallback"
    /\ IF cmd[c].live THEN Reaped(c) ELSE UNCHANGED proc
    /\ Update(c, [Round(c, "fallback") EXCEPT !.live = FALSE])
    /\ UNCHANGED <<gens, held, threads, forks, shed, mishaps, reused>>

\* Seeded fault: the last lookup is given up together with what it captured.
FallbackGivesUp(c) ==
    /\ cmd[c].at = "look" /\ cmd[c].round = "fallback"
    /\ mishaps < script.faults
    /\ mishaps' = mishaps + 1
    /\ threads' = LeftScan(c)
    /\ Goto(c, "finish")
    /\ UNCHANGED <<proc, gens, held, forks, shed, reused>>

FallbackTimesOut(c) ==
    /\ cmd[c].at = "look" /\ cmd[c].round = "fallback"
    /\ mishaps < script.faults
    /\ mishaps' = mishaps + 1
    /\ threads' = LeftScan(c)
    /\ Goto(c, "killall")
    /\ UNCHANGED <<proc, gens, held, forks, shed, reused>>

KillAll(c) ==
    /\ cmd[c].at = "killall"
    /\ proc' = Dead(Hit(cmd[c].captured))
    /\ Goto(c, "finish")
    /\ UNCHANGED <<gens, held, threads, forks, shed, mishaps, reused>>

----------------------------------------------------------------------------
ProcInit ==
    /\ script \in Scripts
    /\ proc = [p \in Pids |-> Free]
    /\ gens = 0
    /\ cmd = [c \in Commands |-> IF c \in script.commands THEN Idle ELSE [Idle EXCEPT !.at = "done"]]
    /\ held = {} /\ threads = {}
    /\ forks = [c \in Commands |-> 0] /\ shed = 0 /\ mishaps = 0
    /\ reused = {}

Processes ==
    /\ \E p \in Pids : Shed(p) \/ Exit(p) \/ Stranger(p) \/ \E q \in Pids : Fork(p, q)
    /\ UNCHANGED script

Starting(c) ==
    /\ Reserve(c) \/ GiveUpWaiting(c) \/ Spawn(c) \/ SpawnFails(c) \/ Waited(c) \/ GiveUp(c)
    /\ UNCHANGED script

Looking(c) == BeginFirst(c) \/ Look(c) \/ Capture(c) \/ EndLookup(c)

Ending(c) ==
    \/ Quiesce(c) \/ StopGroup(c) \/ FindRoot(c) \/ Judge(c) \/ Kill(c) \/ KillGroup(c) \/ Reap(c) \/ KillFresh(c) \/ EndCleanup(c)
    \/ Fallback(c) \/ KillAll(c)

CleaningUp(c) == (Looking(c) \/ Ending(c)) /\ UNCHANGED script

Late(c) == (LookFails(c) \/ TimesOut(c) \/ FallbackTimesOut(c)) /\ UNCHANGED script

ProcNext == Processes \/ \E c \in Commands : Starting(c) \/ CleaningUp(c) \/ Late(c) \/ ScanEnds(c)

ProcSpec == ProcInit /\ [][ProcNext]_procVars

\* Commands have a deadline, the cleanup and its threads go on; processes do what they like.
ProcFairSpec ==
    ProcSpec /\ \A c \in Commands : WF_procVars(Starting(c)) /\ WF_procVars(CleaningUp(c)) /\ WF_procVars(ScanEnds(c))

----------------------------------------------------------------------------
ProcTypeOK ==
    /\ \A p \in Pids :
          /\ proc[p].state \in {"free", "run", "stop", "zombie"}
          /\ proc[p].of \in Commands \cup {NoCommand}
          /\ proc[p].parent \in Pids \cup {0}
    /\ \A c \in Commands :
          /\ cmd[c].live => proc[Root(c)].state # "free" /\ proc[Root(c)].of = c
          /\ {i.pid : i \in cmd[c].captured} \cup cmd[c].cand \cup cmd[c].visible \subseteq Pids
    /\ held \subseteq Commands /\ threads \subseteq held

Marked(p) == proc[p].env \/ proc[p].fd

\* A cleanup that reports no error left no process of its command that still has a mark, but for those
\* that were born while it looked for the last time.
CleanMeansGone ==
    \A c \in Commands : cmd[c].at = "done" /\ ~cmd[c].errors =>
        \A p \in Pids : proc[p].of = c /\ Alive(p) /\ proc[p].gen <= cmd[c].begun => ~Marked(p)

\* A process of others is neither stopped nor killed, unless it took a PID that a lookup had listed.
StrangersSpared ==
    [][\A p \in Pids : proc[p].of = NoCommand /\ Alive(p) /\ proc[p].gen \notin reused => proc'[p] = proc[p]]_procVars

\* A process that a cleanup captured, and so stopped, is dead when the cleanup is over, in whatever way
\* it ended: nothing is left stopped for ever.
CapturedAreKilled == \A c \in Commands : cmd[c].at = "done" => Hit(cmd[c].captured) = {}

\* A cleanup does what it reports, and leaves nothing stopped.
CleanupDone == CleanMeansGone /\ CapturedAreKilled

\* Every command ends and gives its reservation back.
CommandsEnd == <>[](held = {} /\ \A c \in Commands : cmd[c].at = "done")
=============================================================================
