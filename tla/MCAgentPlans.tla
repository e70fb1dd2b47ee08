----------------------------- MODULE MCAgentPlans -----------------------------
(* The processes and commands of the agent run. *)
EXTENDS AgentPlans

CONSTANTS cli, mcp, k1, k2, i1, i2, m, n, asked

MCProcs  == {cli, mcp}
MCKeys   == {k1, k2}
MCIds    == {i1, i2}
MCCalls  == {m, n}
MCAsked  == {asked}

\* n is destructive; the class of m changes.
Shows(r, x, t) == [risk |-> r, always |-> x, ai_tool |-> t]
Catalogue(c)   == [x \in MCCalls |-> IF x = m THEN c ELSE Shows("destructive", FALSE, TRUE)]
ReadAlways == Catalogue(Shows("read", TRUE, TRUE))
Write      == Catalogue(Shows("write", FALSE, TRUE))
Always     == Catalogue(Shows("write", TRUE, TRUE))
Hidden     == Catalogue(Shows("write", FALSE, FALSE))
MCDrift    == {<<ReadAlways, Write>>, <<Write, Always>>, <<Write, Hidden>>}

PlanOf(x, c, k)   == [kind |-> "plan", call |-> x, control |-> c, key |-> k]
ApplyOf(i)        == [kind |-> "apply", by |-> i]
InvokeOf(x, i, k) == [kind |-> "invoke", call |-> x, by |-> i, key |-> k]

MCCommands ==
  [p \in MCProcs |->
    IF p = cli
    THEN {Create, PlanOf(m, "confirmation", asked), ApplyOf(i1), ApplyOf(i2),
          InvokeOf(n, i1, None)}
    ELSE {Create, PlanOf(n, "four_eyes", None), InvokeOf(m, None, None)}]
===============================================================================
