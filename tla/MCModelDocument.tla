-------------------------- MODULE MCModelDocument --------------------------
(***************************************************************************)
(* Documents of two nodes and at most one edge at every version, each      *)
(* following the rules of its version: an agent a, a second node b of      *)
(* every kind the migration treats, an edge whose id an identity may want. *)
(***************************************************************************)
EXTENDS ModelDocument

AgentAttrs ==
  {{}, {<<"identity", "shared">>}, {<<"identity", "shared">>, <<"kind", "waf">>},
   {<<"egress_policy", "true">>, <<"hosted_on", "b">>}, {<<"hosted_on", "a">>},
   {<<"hosted_on", "somewhere">>, <<"identity", "none">>}}

Others ==
  {<<"agent", {<<"identity", "shared">>, <<"kind", "llm">>}>>, <<"tool", {<<"egress_policy", "true">>}>>,
   <<"log_sink", {<<"purpose", "Audit">>, <<"x_purpose", "SIEM">>}>>,
   <<"log_sink", {<<"purpose", "Security">>}>>, <<"mcp_server", {<<"exposure", "unknown">>}>>,
   <<"mcp_server", {<<"exposure", "internal">>}>>, <<"app", {<<"authn", "oidc">>}>>, <<"note", {}>>}

Node(type, attrs, zone) == [type |-> type, attrs |-> attrs, notes |-> {}, zone |-> zone]

EdgeOf(id, text) ==
  [i \in {id} |-> [from |-> "a", to |-> "b", kind |-> "calls", protocol |-> text, notes |-> << >>]]

NoEdge == [i \in {} |-> {}]

MCEdges ==
  {NoEdge} \cup {EdgeOf("e", t) : t \in {"", Blank, "https", "HTTPS", "wss", "ftp"}}
    \cup {EdgeOf("ident_shared", "tds")}

Zone == [g \in {"zone"} |-> [kind |-> "zone", members |-> {"a"}, parent |-> ""]]

\* Everything has its entry, or nothing.
Entries(nodes, edges) ==
  {<<"a">>} \cup UNION {{<<i, k>> : k \in Keys(nodes[i])} : i \in {"a", "b"}}
    \cup {<<i, "protocol">> : i \in {i \in DOMAIN edges : edges[i].protocol # ""}}

Document(version, a, b, edges, claimed) ==
  LET nodes == [i \in {"a", "b"} |-> IF i = "a" THEN Node("agent", a, "zone") ELSE Node(b[1], b[2], "")]
  IN  [version |-> version, nodes |-> nodes, edges |-> edges, groups |-> Zone, identities |-> {},
       findings |-> {"f"}, provenance |-> IF claimed THEN Entries(nodes, edges) ELSE {}]

\* Those that follow the rules of their version.
MCStored ==
  {d \in {Document(v, a, b, e, c) :
             v \in Migratable \cup {Current, "2.0"}, a \in AgentAttrs, b \in Others, e \in MCEdges,
             c \in BOOLEAN} :
     FollowsItsVersion(d)}

\* One document, for the runs that are about the edits.
OneEdge == {d \in MCStored : d.edges = EdgeOf("e", "ftp") /\ d.provenance = {}}
=============================================================================
