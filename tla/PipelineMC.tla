----------------------------- MODULE PipelineMC -----------------------------
(* Pipeline with the bindings that differ in the way they take. *)
EXTENDS Pipeline

Base == [tools |-> TRUE, dev |-> FALSE, big |-> FALSE, staged |-> FALSE, graph |-> FALSE,
         plan |-> FALSE, policy |-> "off", given |-> FALSE]
Dev == [Base EXCEPT !.dev = TRUE, !.big = TRUE, !.plan = TRUE, !.policy = "strict"]

MCGraph == {[Dev EXCEPT !.graph = TRUE, !.policy = "auto", !.given = TRUE]}

Advanced == [Base EXCEPT !.big = TRUE, !.staged = TRUE, !.policy = "auto", !.given = TRUE]

MCConfigs ==
    {[Base EXCEPT !.tools = FALSE],
     Base,
     Advanced,
     [Dev EXCEPT !.staged = TRUE]} \cup MCGraph

\* One staged binding is enough: what differs between the two is the plan and the policy.
MCLossy == {Advanced}
=============================================================================
