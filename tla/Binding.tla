------------------------------- MODULE Binding -------------------------------
(***************************************************************************)
(* Which provider and model a task is bound to, and which providers are    *)
(* asked in which order (harness/binding.rs).  Pure operators over one     *)
(* setting and one request.                                                *)
(*                                                                         *)
(* A setting is a record of what configuration and login say: the `usable` *)
(* providers, those with `tools`, the registered `models` as pairs of      *)
(* provider and model, the `default` provider, the `main` and `small`      *)
(* model of each, the providers in `auto` (they choose among their own     *)
(* models), the ranking `score` of models (0 is unranked), those of the    *)
(* `top` tier and the `cheap` ones, the user's `fallback` sequence,        *)
(* `selection`, `strategy`, the `manual` choice, the engine's `pin` and    *)
(* whether it is `strict`, and the task's profile: its `home` provider,    *)
(* its own model `own`, whether it uses tools (`needsTools`) and its       *)
(* model's `role`.                                                         *)
(*                                                                         *)
(* A choice of a model is [provider, model]; NoProvider and NoModel stand  *)
(* for an omitted part.                                                    *)
(***************************************************************************)
EXTENDS Naturals, Sequences, SequencesExt, FiniteSets

CONSTANTS NoProvider, NoModel

None == [provider |-> NoProvider, model |-> NoModel]
Fails == [provider |-> NoProvider, model |-> NoModel, failed |-> TRUE]
Bound(p, m) == [provider |-> p, model |-> m, failed |-> FALSE]

\* What configuration and login name: providers that are known, whether they are usable or not.
Setting(cfg) ==
    LET known == DOMAIN cfg.usable
    IN /\ NoProvider \notin known
       /\ cfg.fallback \in Seq(known)
       /\ {cfg.default, cfg.home} \cup cfg.auto \subseteq known
       /\ {cfg.pin, cfg.own.provider, cfg.manual.provider} \subseteq known \cup {NoProvider}
       /\ \A r \in cfg.models : r.provider \in known

Able(cfg, p) == cfg.usable[p] /\ (cfg.needsTools => cfg.tools[p])

\* Models of usable providers only.
Registered(cfg) == {r \in cfg.models : cfg.usable[r.provider]}

ModelForRole(cfg, p) == IF cfg.role = "small" THEN cfg.small[p] ELSE cfg.main[p]

\* The registered provider of a model; several providers may list the same one.
ProvidersOf(cfg, m) == {r.provider : r \in {x \in Registered(cfg) : x.model = m}}

----------------------------------------------------------------------------
(***************************************************************************)
(* The ways to choose.  Where the code takes the first of several equal    *)
(* entries of a table in no particular order, the operator is the set of   *)
(* results.                                                                *)
(***************************************************************************)
AbleModels(cfg) == {r \in Registered(cfg) : cfg.needsTools => cfg.tools[r.provider]}

\* The cheap models of the preferred provider, or any cheap ones, or any at all; the lowest score first.
\* An unranked model counts as 50 among the cheap ones and as 999 among all.
Rank(cfg, r, unranked) == IF cfg.score[r.model] = 0 THEN unranked ELSE cfg.score[r.model]

Lowest(cfg, R, unranked) == {r \in R : \A o \in R : Rank(cfg, r, unranked) <= Rank(cfg, o, unranked)}

PickCheap(cfg, regs, preferred) ==
    LET cheap == {r \in regs : r.model \in cfg.cheap}
        home  == {r \in cheap : r.provider = preferred}
    IN IF cheap = {} THEN Lowest(cfg, regs, 999)
       ELSE IF home = {} THEN Lowest(cfg, cheap, 50)
       ELSE Lowest(cfg, home, 50)

\* Ranked models only; one of the top tier if there is any.
PickStrongest(cfg, regs) ==
    LET ranked == {r \in regs : cfg.score[r.model] > 0}
        top    == {r \in ranked : r.model \in cfg.top}
        from   == IF top = {} THEN ranked ELSE top
    IN {r \in from : \A o \in from : cfg.score[r.model] >= cfg.score[o.model]}

AsBound(R) == {Bound(r.provider, r.model) : r \in R}

PickAuto(cfg, hard) ==
    LET regs == AbleModels(cfg)
        pick == IF hard THEN PickStrongest(cfg, regs) ELSE PickCheap(cfg, regs, cfg.home)
    IN IF regs = {} THEN {Fails}
       ELSE IF pick # {} THEN AsBound(pick)
       ELSE IF Able(cfg, cfg.home) THEN {Bound(cfg.home, ModelForRole(cfg, cfg.home))}
       ELSE AsBound(regs)

\* A provider that chooses by itself picks among its own models; else its configured model is used.
PickForProvider(cfg, hard, p) ==
    LET own  == {r \in Registered(cfg) : r.provider = p}
        pick == IF hard THEN PickStrongest(cfg, own) ELSE PickCheap(cfg, own, p)
    IN IF p \in cfg.auto /\ pick # {} THEN AsBound(pick) ELSE {Bound(p, ModelForRole(cfg, p))}

PickSingle(cfg) ==
    IF Able(cfg, cfg.default) THEN {Bound(cfg.default, cfg.main[cfg.default])}
    ELSE IF AbleModels(cfg) # {} THEN AsBound(AbleModels(cfg))
    ELSE {Fails}

\* A spec with a provider is checked for it; a bare model is taken from whoever lists it.
ResolveSpec(cfg, spec) ==
    IF spec.provider # NoProvider
    THEN {IF Able(cfg, spec.provider) THEN Bound(spec.provider, spec.model) ELSE Fails}
    ELSE IF ProvidersOf(cfg, spec.model) = {} THEN {Fails}
    ELSE {Bound(p, spec.model) : p \in ProvidersOf(cfg, spec.model)}

PickManual(cfg, hard) ==
    IF cfg.manual # None THEN ResolveSpec(cfg, cfg.manual) ELSE PickAuto(cfg, hard)

\* The model a profile names for itself, on the provider given by the caller, by itself, or by a listing.
DecideProfileModel(cfg, override) ==
    IF cfg.own = None THEN {}
    ELSE LET on == IF override # NoProvider THEN {override}
                   ELSE IF cfg.own.provider # NoProvider THEN {cfg.own.provider}
                   ELSE IF ProvidersOf(cfg, cfg.own.model) # {} THEN ProvidersOf(cfg, cfg.own.model)
                   ELSE {cfg.home}
         IN {Bound(p, cfg.own.model) : p \in {q \in on : Able(cfg, q)}}

\* Both given, or the provider alone: checked.  The model alone: not checked for tools.
Overridden(cfg, hard, ask) ==
    IF ask.provider # NoProvider
    THEN IF ~Able(cfg, ask.provider) THEN {Fails}
         ELSE IF ask.model # NoModel THEN {Bound(ask.provider, ask.model)}
         ELSE PickForProvider(cfg, hard, ask.provider)
    ELSE IF ProvidersOf(cfg, ask.model) # {} THEN {Bound(p, ask.model) : p \in ProvidersOf(cfg, ask.model)}
    ELSE {Bound(cfg.home, ask.model)}

Chosen(cfg, hard, ask) ==
    LET profile == IF ask.model # NoModel THEN {} ELSE DecideProfileModel(cfg, ask.provider)
    IN IF profile # {} THEN profile
       ELSE IF ask # None THEN Overridden(cfg, hard, ask)
       ELSE IF cfg.selection = "manual" THEN PickManual(cfg, hard)
       ELSE IF cfg.strategy = "single" THEN PickSingle(cfg)
       ELSE PickAuto(cfg, hard)

\* Whatever was chosen must be usable in the end.
BindProfile(cfg, hard, ask) ==
    {IF b.failed \/ ~cfg.usable[b.provider] THEN Fails ELSE b : b \in Chosen(cfg, hard, ask)}

----------------------------------------------------------------------------
(***************************************************************************)
(* The engine's pin: an explicit choice wins, a pin that is not usable or  *)
(* lacks the tools is skipped, else the task is bound again, to the pin.   *)
(***************************************************************************)
ApplyEnginePin(cfg, hard, ask, b) ==
    IF b.failed \/ cfg.pin = NoProvider \/ b.provider = cfg.pin \/ ask # None \/ ~Able(cfg, cfg.pin)
    THEN {b}
    ELSE {IF p.failed THEN b ELSE p : p \in BindProfile(cfg, hard, [provider |-> cfg.pin, model |-> NoModel])}

Bind(cfg, hard, ask) == UNION {ApplyEnginePin(cfg, hard, ask, b) : b \in BindProfile(cfg, hard, ask)}

\* The primary, then the user's sequence; usable providers, each once.  `tools` is not asked here.
FallbackOrder(cfg, primary) ==
    LET wanted == <<primary>> \o cfg.fallback
        add(order, p) == IF cfg.usable[p] /\ ~Contains(order, p) THEN Append(order, p) ELSE order
        upTo[i \in 0 .. Len(wanted)] == IF i = 0 THEN <<>> ELSE add(upTo[i - 1], wanted[i])
    IN upTo[Len(wanted)]

Without(order, p) ==
    LET upTo[i \in 0 .. Len(order)] ==
            IF i = 0 THEN <<>> ELSE IF order[i] = p THEN upTo[i - 1] ELSE Append(upTo[i - 1], order[i])
    IN upTo[Len(order)]

\* The agent loop passes no explicit provider here: the pin comes first whenever it is in the order.
FallbackOrderPinned(cfg, primary) ==
    LET order == FallbackOrder(cfg, primary)
    IN IF cfg.pin = NoProvider \/ ~Contains(order, cfg.pin) THEN order
       ELSE IF cfg.strict THEN <<cfg.pin>>
       ELSE <<cfg.pin>> \o Without(order, cfg.pin)

\* The first candidate is asked for the bound model, the others for the one of the role.
ModelForFallback(cfg, name, first, model) == IF name = first THEN model ELSE ModelForRole(cfg, name)

CandidatesOf(cfg, b) ==
    LET order == FallbackOrderPinned(cfg, b.provider)
    IN [i \in DOMAIN order |-> [provider |-> order[i], model |-> ModelForFallback(cfg, order[i], order[1], b.model)]]

\* A combo is a chain of pairs, cut at three, each of which must resolve; nothing else is asked.
ComboMaxHops == 3

BindCombo(cfg, chain) ==
    LET hops == SubSeq(chain, 1, IF Len(chain) > ComboMaxHops THEN ComboMaxHops ELSE Len(chain))
    IN IF \A i \in DOMAIN hops : Able(cfg, hops[i].provider) THEN hops ELSE <<>>
=============================================================================
