--------------------------- MODULE ModelDocument ---------------------------
(***************************************************************************)
(* How a model document enters the engine (model/validate.go ValidateJSON):*)
(* upgraded version by version to the current schema (model/migrate), or   *)
(* read tolerantly when it is current, then held to the invariants, then   *)
(* edited and validated again.                                             *)
(*                                                                         *)
(* Attribute values are strings ("true" a boolean, "[v]" a list of one); a *)
(* document is [version, nodes, edges, groups, identities, findings,       *)
(* provenance] with elements by id, attributes as pairs and provenance as  *)
(* keys <<id>> or <<id, field>>.                                           *)
(***************************************************************************)
EXTENDS Integers, Sequences, FiniteSets

CONSTANTS
  Stored,      \* the documents of the store
  Texts,       \* the protocols an edit may write
  MaxDocEdits  \* bound: edits

VARIABLES
  docStored,   \* the document as it was stored
  docRead,     \* the document being read
  docSaved,    \* the last one accepted, or NoDocument
  docPc,       \* "reading", "checking", "accepted" or "refused"
  docWrote,    \* ghost: [edge -> the protocol its author wrote last]
  docEdits

docVars == <<docStored, docRead, docSaved, docPc, docWrote, docEdits>>

NoDocument == << >>

-----------------------------------------------------------------------------
(***************************************************************************)
(* The tolerant reading of the shapes later versions replaced (Normalize). *)
(***************************************************************************)

Protocols == {"https", "sql", "other"}

\* protocolSpellings: what a text names beside the enum's own values.
Spellings == [wss |-> "https", tds |-> "sql", HTTPS |-> "https"]

\* The text differs from its value by more than case, spacing and separators.
SameSpelling == {<<"HTTPS", "https">>}
Blank == " "

CanonicalProtocol(text) ==
  IF text \in {"", Blank} THEN ""
  ELSE IF text \in Protocols THEN text
  ELSE IF text \in DOMAIN Spellings THEN Spellings[text] ELSE "other"

Noted(text) == text # Blank /\ <<text, CanonicalProtocol(text)>> \notin SameSpelling

ValidProtocol(text) == text \in Protocols \cup {""}

\* note: an entry already recorded is not repeated.
Note(notes, entry) ==
  IF \E i \in 1..Len(notes) : notes[i] = entry THEN notes ELSE Append(notes, entry)

NormalizedEdge(e) ==
  IF ValidProtocol(e.protocol) THEN e
  ELSE [e EXCEPT !.protocol = CanonicalProtocol(e.protocol),
                 !.notes = IF Noted(e.protocol) THEN Note(@, e.protocol) ELSE @]

Purposes == {"operational", "security"}
PurposeSpellings == [Security |-> "security"]
AgentKinds == {"llm", "orchestrator"}
ListOf == [oidc |-> "[oidc]"]

\* freeKey, for two values.
FreeKey(attrs, v) ==
  IF \E p \in attrs : p[1] = "x_purpose" /\ p[2] # v THEN "x_purpose_2" ELSE "x_purpose"

\* What a value becomes that the node type no longer accepts: NormalizeNodeAttrs and authn.
Rewritten(type, attrs, k, v) ==
  CASE k = "authn" /\ v = "" -> {}
    [] k = "authn" /\ v \in DOMAIN ListOf -> {<<k, ListOf[v]>>}
    [] type = "agent" /\ k = "kind" /\ v \notin AgentKinds \cup {""} -> {}
    [] type \in {"agent", "tool"} /\ k = "egress_policy" /\ v = "true" -> {}
    [] type = "mcp_server" /\ k = "exposure" /\ v = "unknown" -> {}
    [] type = "mcp_server" /\ k = "exposure" /\ v = "internal" -> {<<k, "private_network">>}
    [] type = "log_sink" /\ k = "purpose" /\ v \in DOMAIN PurposeSpellings
         -> {<<k, PurposeSpellings[v]>>}
    [] type = "log_sink" /\ k = "purpose" /\ v = Blank -> {}
    [] type = "log_sink" /\ k = "purpose" /\ v \notin Purposes \cup {"", Blank} \cup DOMAIN PurposeSpellings
         -> {<<FreeKey(attrs, v), v>>}
    [] OTHER -> {<<k, v>>}

NormalizedNode(n) ==
  LET attrs == UNION {Rewritten(n.type, n.attrs, p[1], p[2]) : p \in n.attrs}
  IN  [n EXCEPT !.attrs = attrs,
                !.notes = @ \cup {p \in n.attrs \ attrs : p[1] # "authn"}]

Keys(n) == {p[1] : p \in n.attrs}

\* Mistakes (names with a suffix, used by no specification): the sidecar keeps the keys of what
\* was dropped, a host is dropped without a note.
DroppedKeys_None(d, nodes) == {}

\* RemovedKeys, dropProvenance: a key of the sidecar goes with the value it names.
DroppedKeys(d, nodes) ==
  {key \in d.provenance :
     /\ Len(key) = 2 /\ key[1] \in DOMAIN nodes
     /\ key[2] \in Keys(d.nodes[key[1]]) \ Keys(nodes[key[1]])}

Normalized(d) ==
  LET nodes == [i \in DOMAIN d.nodes |-> NormalizedNode(d.nodes[i])]
      edges == [i \in DOMAIN d.edges |-> NormalizedEdge(d.edges[i])]
      blanked == {<<i, "protocol">> : i \in {i \in DOMAIN edges :
                     ~ValidProtocol(d.edges[i].protocol) /\ edges[i].protocol = ""}}
  IN  [d EXCEPT !.nodes = nodes, !.edges = edges,
                !.provenance = @ \ (DroppedKeys(d, nodes) \cup blanked)]

-----------------------------------------------------------------------------
(***************************************************************************)
(* The steps of the migration, by the version they start from.             *)
(***************************************************************************)

IdentityValues == {"shared", "none"}
Prefixed(v) == "ident_" \o v

UsedIds(d) ==
  DOMAIN d.nodes \cup DOMAIN d.edges \cup DOMAIN d.groups \cup d.findings
    \cup {i.id : i \in d.identities}

FreeId(used, base) == IF base \in used THEN base \o "_2" ELSE base

\* An agent with an identity value and no identity_id of its own.
Migrates(n, v) ==
  n.type = "agent" /\ <<"identity", v>> \in n.attrs /\ "identity_id" \notin Keys(n)

\* migrateAgentIdentities: one identity per value in use; the value stays on the agent.
WithIdentities(d) ==
  LET id == [v \in IdentityValues |-> FreeId(UsedIds(d), Prefixed(v))]
      created == {v \in IdentityValues : \E i \in DOMAIN d.nodes : Migrates(d.nodes[i], v)}
  IN  [d EXCEPT
         !.identities = @ \cup {[id |-> id[v], from |-> v] : v \in created},
         !.nodes = [i \in DOMAIN d.nodes |->
            [d.nodes[i] EXCEPT !.attrs = @ \cup
               {<<"identity_id", id[v]>> : v \in {v \in created : Migrates(d.nodes[i], v)}}]]]

HostedTypes == {"agent", "agent_memory"}

Hosts(d) == {i \in DOMAIN d.nodes : d.nodes[i].type # "note"}

\* A hosted_on that names no node, the node itself or a note.
Dangling(d, i) ==
  {p \in d.nodes[i].attrs :
     /\ d.nodes[i].type \in HostedTypes
     /\ p[1] = "hosted_on" /\ p[2] # "" /\ (p[2] = i \/ p[2] \notin Hosts(d))}

WithoutDangling_Silent(d) ==
  LET nodes == [i \in DOMAIN d.nodes |-> [d.nodes[i] EXCEPT !.attrs = @ \ Dangling(d, i)]]
  IN  [d EXCEPT !.nodes = nodes, !.provenance = @ \ DroppedKeys(d, nodes)]

\* dropDanglingHosts.
WithoutDangling(d) ==
  LET nodes == [i \in DOMAIN d.nodes |->
                  [d.nodes[i] EXCEPT !.attrs = @ \ Dangling(d, i), !.notes = @ \cup Dangling(d, i)]]
  IN  [d EXCEPT !.nodes = nodes, !.provenance = @ \ DroppedKeys(d, nodes)]

Current == "1.3"
At(d, v) == [d EXCEPT !.version = v]

StepFrom(d) ==
  CASE d.version = "0.9" -> At(d, "1.0")
    [] d.version = "1.0" -> At(WithIdentities(Normalized(d)), "1.1")
    [] d.version = "1.1" -> At(WithoutDangling(Normalized(d)), "1.2")
    [] d.version = "1.2" -> At(Normalized(d), Current)

Migratable == {"0.9", "1.0", "1.1", "1.2"}

-----------------------------------------------------------------------------
(***************************************************************************)
(* Invariants, on a document at the current version.                       *)
(***************************************************************************)

IdsAreUnique(d) ==
  Cardinality(UsedIds(d)) =
    Cardinality(DOMAIN d.nodes) + Cardinality(DOMAIN d.edges) + Cardinality(DOMAIN d.groups)
      + Cardinality(d.findings) + Cardinality(d.identities)

ReferencesHold(d) ==
  /\ \A i \in DOMAIN d.nodes : \A p \in d.nodes[i].attrs :
       /\ p[1] \in {"identity_id", "kill_switch_identity"} => p[2] \in {x.id : x \in d.identities}
       /\ p[1] = "kill_switch_identity" => <<"identity_id", p[2]>> \notin d.nodes[i].attrs
  /\ \A i \in DOMAIN d.edges :
       /\ {d.edges[i].from, d.edges[i].to} \subseteq Hosts(d)
       /\ d.edges[i].from = d.edges[i].to =>
            d.nodes[d.edges[i].from].type = "agent" /\ d.edges[i].kind = "delegates"

\* A zone holds a node alone and a node's zone lists it; a parent is another group.
GroupsHold(d) ==
  LET InZone(i, g) == d.groups[g].kind = "zone" /\ i \in d.groups[g].members
  IN  /\ \A g \in DOMAIN d.groups :
           /\ d.groups[g].members \subseteq DOMAIN d.nodes
           /\ d.groups[g].parent # "" => d.groups[g].parent \in DOMAIN d.groups \ {g}
      /\ \A i \in DOMAIN d.nodes :
           /\ \A g, h \in DOMAIN d.groups : InZone(i, g) /\ InZone(i, h) => g = h
           /\ d.nodes[i].zone # "" =>
                d.nodes[i].zone \in DOMAIN d.groups /\ InZone(i, d.nodes[i].zone)

\* attrValueInvariants: no node holds a value its type does not accept.
ValuesHold(d) ==
  \A i \in DOMAIN d.nodes :
    \A p \in d.nodes[i].attrs : p \in Rewritten(d.nodes[i].type, d.nodes[i].attrs, p[1], p[2])

HostsHold(d) == \A i \in DOMAIN d.nodes : Dangling(d, i) = {}

ProvenanceResolves(d) ==
  \A key \in d.provenance :
    \/ key[1] \in DOMAIN d.nodes /\ (Len(key) = 2 => key[2] \in Keys(d.nodes[key[1]]))
    \/ key[1] \in DOMAIN d.edges /\ (Len(key) = 2 => d.edges[key[1]].protocol # "")

Invariants(d) ==
  /\ IdsAreUnique(d) /\ ReferencesHold(d) /\ GroupsHold(d) /\ ValuesHold(d) /\ HostsHold(d)
  /\ ProvenanceResolves(d)

-----------------------------------------------------------------------------
(***************************************************************************)
(* What the store holds.                                                   *)
(***************************************************************************)

\* The rules that held at the document's own version; provenance came with 1.1, the rule on hosts
\* with 1.2.
FollowsItsVersion(d) ==
  /\ IdsAreUnique(d) /\ ReferencesHold(d) /\ GroupsHold(d) /\ ProvenanceResolves(d)
  /\ d.version \in {"0.9", "1.0"} => d.provenance = {}
  /\ d.version \in {"1.2", Current} => HostsHold(d)

\* freeID counts on until a name is free; here two names suffice.
NamesSuffice(d) ==
  \A v, w \in IdentityValues :
    /\ FreeId(UsedIds(d), Prefixed(v)) \notin UsedIds(d)
    /\ v # w => FreeId(UsedIds(d), Prefixed(v)) # FreeId(UsedIds(d), Prefixed(w))

StoredNodes ==
  [type : STRING, attrs : SUBSET (STRING \X STRING), notes : SUBSET (STRING \X STRING), zone : STRING]

StoredEdges == [from : STRING, to : STRING, kind : STRING, protocol : STRING, notes : Seq(STRING)]

\* An element's key, or the key of a member; of an edge, its protocol.
StoredKeys(d) ==
  {<<i>> : i \in DOMAIN d.nodes \cup DOMAIN d.edges} \cup {<<i, "protocol">> : i \in DOMAIN d.edges}
    \cup UNION {{<<i, k>> : k \in Keys(d.nodes[i])} : i \in DOMAIN d.nodes}

\* A stored document decodes into the struct, and was validated by the build that stored it.
ASSUME StoredAssumption ==
  \A d \in Stored :
    /\ d = [f \in {"version", "nodes", "edges", "groups", "identities", "findings", "provenance"} |-> d[f]]
    /\ d.nodes \in [DOMAIN d.nodes -> StoredNodes] /\ d.edges \in [DOMAIN d.edges -> StoredEdges]
    /\ d.version \in Migratable \cup {Current} =>
         /\ IsFiniteSet(UsedIds(d)) /\ IsFiniteSet(d.identities)
         /\ FollowsItsVersion(d) /\ NamesSuffice(d)
         /\ d.provenance \subseteq StoredKeys(d)

-----------------------------------------------------------------------------
(***************************************************************************)
(* Reading and editing.                                                    *)
(***************************************************************************)

DocInit ==
  /\ docStored \in Stored /\ docRead = docStored /\ docSaved = NoDocument
  /\ docPc = "reading" /\ docEdits = 0
  /\ docWrote = [e \in DOMAIN docStored.edges |-> docStored.edges[e].protocol]

\* One step of the list; the steps run in the order of their versions.
UpgradeStep ==
  /\ docPc = "reading" /\ docRead.version \in Migratable
  /\ docRead' = StepFrom(docRead)
  /\ docPc' = IF docRead'.version = Current THEN "checking" ELSE "reading"
  /\ UNCHANGED <<docStored, docSaved, docWrote, docEdits>>

\* NormalizeJSON: a document at the current version is read tolerantly.
ReadCurrent ==
  /\ docPc = "reading" /\ docRead.version = Current
  /\ docRead' = Normalized(docRead) /\ docPc' = "checking"
  /\ UNCHANGED <<docStored, docSaved, docWrote, docEdits>>

\* A version no step starts from.
RefuseVersion ==
  /\ docPc = "reading" /\ docRead.version \notin Migratable \cup {Current}
  /\ docPc' = "refused"
  /\ UNCHANGED <<docStored, docRead, docSaved, docWrote, docEdits>>

\* What is accepted is saved; what is refused leaves the last saved document.
CheckDocument ==
  /\ docPc = "checking"
  /\ IF Invariants(docRead)
     THEN docPc' = "accepted" /\ docSaved' = docRead /\ UNCHANGED <<docRead, docWrote>>
     ELSE IF docSaved = NoDocument
     THEN docPc' = "refused" /\ UNCHANGED <<docRead, docSaved, docWrote>>
     ELSE docPc' = "accepted" /\ docRead' = docSaved /\ UNCHANGED <<docSaved, docWrote>>
  /\ UNCHANGED <<docStored, docEdits>>

Edit(d, wrote) ==
  /\ docPc = "accepted" /\ docEdits < MaxDocEdits
  /\ docRead' = d /\ docWrote' = wrote /\ docPc' = "reading" /\ docEdits' = docEdits + 1
  /\ UNCHANGED <<docStored, docSaved>>

\* An architect or an importer writes an edge's protocol, in any spelling.
WriteProtocol(e, text) ==
  /\ e \in DOMAIN docSaved.edges
  /\ Edit([docSaved EXCEPT !.edges[e].protocol = text], [docWrote EXCEPT ![e] = text])

SetAttr(i, k, v) ==
  /\ i \in DOMAIN docSaved.nodes
  /\ Edit([docSaved EXCEPT !.nodes[i].attrs = {p \in @ : p[1] # k} \cup {<<k, v>>}], docWrote)

\* A node goes; what refers to it does not.
DeleteNode(i) ==
  /\ i \in DOMAIN docSaved.nodes
  /\ Edit([docSaved EXCEPT !.nodes = [j \in DOMAIN docSaved.nodes \ {i} |-> docSaved.nodes[j]]],
          docWrote)

DocNext ==
  \/ UpgradeStep \/ ReadCurrent \/ RefuseVersion \/ CheckDocument
  \/ docPc = "accepted" /\
       \/ \E e \in DOMAIN docSaved.edges, text \in Texts : WriteProtocol(e, text)
       \/ \E i \in DOMAIN docSaved.nodes :
            \/ DeleteNode(i)
            \/ \E h \in DOMAIN docSaved.nodes : SetAttr(i, "hosted_on", h)
            \/ SetAttr(i, "egress_policy", "true")

DocSpec == DocInit /\ [][DocNext]_docVars

-----------------------------------------------------------------------------
\* ProtocolText: the first text the notes keep, else the enum's value.
ProtocolText(e) == IF e.notes # << >> THEN e.notes[1] ELSE e.protocol

\* A stored document that kept the rules of its version is never refused after an upgrade
\* (validate.go: "A stored model is never refused for it"), and what was accepted reads back as it
\* is, so reading never disturbs a stored model's hash.
StoredReadsBack ==
  /\ docPc = "refused" => docStored.version \notin Migratable \cup {Current}
  /\ docSaved # NoDocument => Normalized(docSaved) = docSaved

\* Until someone edits it, a document states everything it was stored with: every value stands, or
\* stands under its new key, or is kept in a note; and a provenance key is gone only with its value.
NothingIsLost ==
  docPc = "accepted" /\ docEdits = 0 =>
    /\ \A i \in DOMAIN docStored.nodes : \A p \in docStored.nodes[i].attrs :
         \/ p \in docSaved.nodes[i].attrs \cup docSaved.nodes[i].notes
         \/ p = <<"authn", "">>
         \/ \E v \in DOMAIN ListOf : p = <<"authn", v>> /\ <<"authn", ListOf[v]>> \in docSaved.nodes[i].attrs
    /\ \A e \in DOMAIN docStored.edges :
         LET was == docStored.edges[e].protocol
             now == docSaved.edges[e]
         IN  \/ was = Blank \/ <<was, now.protocol>> \in SameSpelling
             \/ \E i \in 1..Len(now.notes) : now.notes[i] = was
             \/ now.protocol = was
    /\ \A key \in docStored.provenance \ docSaved.provenance :
         IF key[1] \in DOMAIN docStored.nodes
         THEN \A p \in docSaved.nodes[key[1]].attrs : p[1] # key[2]
         ELSE docSaved.edges[key[1]].protocol = ""

\* validate.go ProtocolText: "the protocol as the model's author wrote it".
ProtocolTextIsAsWritten ==
  docPc = "accepted" =>
    \A e \in DOMAIN docSaved.edges :
      LET text == ProtocolText(docSaved.edges[e])
      IN  \/ text = docWrote[e] \/ <<docWrote[e], text>> \in SameSpelling
          \/ docWrote[e] = Blank /\ text = ""
=============================================================================
