----------------------------- MODULE ModelCallMC -----------------------------
(***************************************************************************)
(* Two calls; three providers, one of them with two accounts and one       *)
(* without tools.                                                          *)
(***************************************************************************)
EXTENDS ModelCall, TLC

CONSTANTS c1, c2, pa, pb, pc3, m1, m2, m3

MCModels == {[provider |-> pa, model |-> m1], [provider |-> pa, model |-> m2],
             [provider |-> pb, model |-> m2], [provider |-> pc3, model |-> m3]}

Base ==
    [usable |-> pa :> TRUE @@ pb :> TRUE @@ pc3 :> TRUE, tools |-> pa :> TRUE @@ pb :> TRUE @@ pc3 :> FALSE,
     models |-> MCModels, default |-> pa, main |-> pa :> m1 @@ pb :> m2 @@ pc3 :> m3,
     small |-> pa :> m2 @@ pb :> m2 @@ pc3 :> m3, auto |-> {pb}, score |-> m1 :> 2 @@ m2 :> 1 @@ m3 :> 0,
     top |-> {m1}, cheap |-> {m2}, fallback |-> <<pb, pc3>>, selection |-> "auto", strategy |-> "multi",
     manual |-> None, pin |-> NoProvider, strict |-> FALSE, home |-> pa, own |-> None, needsTools |-> TRUE,
     role |-> "main"]

Nothing == [Base EXCEPT !.usable = [p \in {pa, pb, pc3} |-> FALSE]]

\* Settings: as installed; one provider; chosen by hand; pinned; pinned strictly; a lost login;
\* a profile with its own model; nothing ranked; nothing usable; a single candidate.
Settings ==
  <<Base, [Base EXCEPT !.strategy = "single", !.fallback = <<pc3>>],
     [Base EXCEPT !.selection = "manual", !.manual = [provider |-> NoProvider, model |-> m2]],
     [Base EXCEPT !.pin = pb], [Base EXCEPT !.pin = pb, !.strict = TRUE],
     [Base EXCEPT !.usable[pa] = FALSE, !.strategy = "single"],
     [Base EXCEPT !.own = [provider |-> NoProvider, model |-> m2], !.pin = pc3],
     [Base EXCEPT !.score = [m \in {m1, m2, m3} |-> 0], !.fallback = <<>>, !.needsTools = FALSE, !.role = "small"],
    Nothing, [Base EXCEPT !.fallback = <<>>, !.strategy = "single", !.default = pb]>>

Asks == <<None, [provider |-> pb, model |-> NoModel], [provider |-> NoProvider, model |-> m3]>>

Chains == <<<<>>, <<[provider |-> pa, model |-> m1], [provider |-> pa, model |-> m2], [provider |-> pb, model |-> m2]>>>>

Styles == <<[stream |-> TRUE, inRun |-> TRUE, visible |-> FALSE], [stream |-> TRUE, inRun |-> FALSE, visible |-> TRUE],
            [stream |-> FALSE, inRun |-> TRUE, visible |-> FALSE]>>

Ids == [setting : DOMAIN Settings, ask : DOMAIN Asks, chain : DOMAIN Chains, style : DOMAIN Styles, hard : BOOLEAN]

MCTasks == [i \in Ids |-> [cfg |-> Settings[i.setting], ask |-> Asks[i.ask], chain |-> Chains[i.chain],
                           style |-> Styles[i.style], hard |-> i.hard]]

With(setting, ask, chain, style, hard) ==
    [setting |-> setting, ask |-> ask, chain |-> chain, style |-> style, hard |-> hard]

\* A call with any setting and request alone, one in any style alone, and one of two candidates next
\* to one that draws on the same tree.
Alone == With(9, 1, 1, 1, TRUE)

MCPlans ==
    {c1 :> With(s, a, 1, 1, h) @@ c2 :> Alone : s \in DOMAIN Settings, a \in DOMAIN Asks, h \in BOOLEAN}
    \cup {c1 :> With(1, 1, c, st, TRUE) @@ c2 :> Alone : c \in DOMAIN Chains, st \in DOMAIN Styles}
    \cup {c1 :> With(2, 1, 1, st, TRUE) @@ c2 :> With(10, 1, 1, 1, TRUE) : st \in {1, 3}}

MCAccounts == pa :> {"first", "second"}
=============================================================================
