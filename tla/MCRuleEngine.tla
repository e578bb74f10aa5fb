---------------------------- MODULE MCRuleEngine ----------------------------
(* Catalogs and models for TLC: an agent, an imported tool, an edge between them and an edge
   from the agent to itself; every model that leaves some of four facts open. *)
EXTENDS RuleEngine

CONSTANTS empty, absent

agent == 1
tool == 2
between == 3
loop == 4
arch == 5
kb == 6
identity == 7   \* of the agent and of the tool

MCNodes == <<agent, tool>>
MCEdges == <<between, loop>>
MCSeverities == <<"critical", "high", "medium", "low">>

Roots == {"n", "n.identity", "e", "e.from", "e.to", "g", "kb"}

\* The object each root names, seen from each element.
MCAt ==
  [x \in 1..5 |->
    [root \in Roots |->
       CASE root = "g" -> arch
         [] root = "kb" -> kb
         [] root = "n" /\ x \in {agent, tool} -> x
         [] root = "n.identity" /\ x \in {agent, tool} -> identity
         [] root = "e" /\ x \in {between, loop} -> x
         [] root = "e.from" /\ x \in {between, loop} -> agent
         [] root = "e.to" /\ x = between -> tool
         [] root = "e.to" /\ x = loop -> agent
         [] OTHER -> NoObject]]

P(root, field) == [root |-> root, field |-> field]

MCPath ==
  {P("n", f) : f \in {"type", "zone", "scopes"}}
  \cup {P("e.from", f) : f \in {"type", "zone"}} \cup {P("e.to", f) : f \in {"type", "zone", "scopes"}}
  \cup {P("g", "zone"), P("kb", "available"), P("kb", "zone"), P("n.identity", "zone")}

Is(path, words) == {[path |-> path, holds |-> words, absent |-> "error", listed |-> TRUE]}
Has(path, words) == [path |-> path, holds |-> words, absent |-> "false", listed |-> FALSE]
Reads(path, words) == [path |-> path, holds |-> words, absent |-> "error", listed |-> FALSE]

\* A model: what the agent, the tool and the architecture declare, and whether there is a
\* knowledge base (the tool's zone is declared with it, which keeps the models few).
Model(zone, scopes, tier, known) ==
  [o \in 1..7 |-> [f \in {"type", "zone", "scopes", "available"} |->
     CASE o = agent /\ f = "type" -> "agent"
       [] o = tool /\ f = "type" -> "tool"
       [] o = agent /\ f = "zone" -> zone
       [] o = tool /\ f = "zone" /\ known -> "wide"
       [] o = tool /\ f = "scopes" -> scopes
       [] o = arch /\ f = "zone" -> tier
       [] o = kb /\ known /\ f \in {"available", "zone"} -> "wide"
       [] OTHER -> absent]]

MCFacts ==
  {Model(z, s, t, k) : z \in {absent, "unknown", "wide"}, s \in {empty, "wide"},
                       t \in {absent, "narrow"}, k \in BOOLEAN}

\* A rule in the form of most of the packs' rules.
BasicRule(id, scope, condition, required, domain) ==
  [id |-> id, scope |-> scope, condition |-> condition, severity |-> "medium", overrides |-> << >>,
   message |-> {}, required |-> required, domain |-> domain]

\* On tools: `scopes` are wide, or anything in the tool's zone is.
WideTool ==
  [BasicRule(7, "node", {Is(P("n", "type"), {"tool"}), {Has(P("n", "scopes"), {"wide"})}},
             {P("n", "scopes")}, {Is(P("n", "type"), {"tool"})})
   EXCEPT !.overrides = << [when |-> {{Has(P("n", "zone"), {"wide"})}}, severity |-> "high"] >>]

\* On agents, of an undeclared zone: reads it without a default, behind its type test.
ZoneOfAgent ==
  BasicRule(2, "node", {Is(P("n", "type"), {"agent"}), {Reads(P("n", "zone"), {"wide"})}}, {}, NoDomain)

\* Where both ends are wide, from an agent.
WideHop ==
  [BasicRule(5, "edge",
     {Is(P("e.from", "type"), {"agent"}), {Has(P("e.from", "zone"), {"wide"}), Has(P("e.to", "scopes"), {"wide"})},
      {Has(P("e.to", "zone"), {"wide"})}},
     {P("e.from", "zone"), P("e.to", "scopes")}, {{Reads(P("e.to", "zone"), {"wide", "narrow", "unknown"})}})
   EXCEPT !.message = {P("e.to", "scopes")}]

\* Any kind of end, tested under a disjunction; requires the zone of one end only.
EitherEnd ==
  BasicRule(3, "edge",
     {{Has(P("e.from", "zone"), {"wide"})},
      {[path |-> P("e.from", "type"), holds |-> {"tool"}, absent |-> "error", listed |-> TRUE],
       Reads(P("e.to", "zone"), {"wide"})}},
     {P("e.from", "zone")}, {Is(P("e.from", "type"), {"agent"})})

\* Once, on the architecture, when the knowledge base says so.
Tier ==
  BasicRule(4, "graph", {{Has(P("g", "zone"), {"narrow"})}, {Has(P("kb", "zone"), {"wide"})}},
            {P("g", "zone"), P("kb", "available")}, NoDomain)

\* On any node, of the identity it runs as; the override reads a zone the agent may lack.
Owner ==
  [BasicRule(6, "node", {{Has(P("n.identity", "zone"), {"narrow"})}}, {P("n.identity", "zone")},
             {Is(P("n", "type"), {"agent", "tool"})})
   EXCEPT !.overrides = << [when |-> {{Reads(P("n", "zone"), {"narrow"})}}, severity |-> "low"],
                           [when |-> {}, severity |-> "high"] >>]

Pack(for, rules) == [regimes |-> for, rules |-> rules]

MCCatalogs ==
  [nodesFirst |-> << Pack({}, <<WideTool, ZoneOfAgent>>), Pack({"dora"}, <<EitherEnd>>) >>,
   hopsFirst |-> << Pack({"dora"}, <<WideHop>>), Pack({}, <<Tier, WideTool>>) >>,
   identities |-> << Pack({}, <<Owner, ZoneOfAgent>>) >>]

MCRegimes == {{}, {"other"}}
=============================================================================
