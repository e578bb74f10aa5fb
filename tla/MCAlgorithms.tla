---------------------------- MODULE MCAlgorithms ----------------------------
(***************************************************************************)
(* Five machines that share no state, checked side by side: the long-term  *)
(* rule, the graph walks, the policy numbers, the sample sheet and the     *)
(* model document.  A behaviour picks one; the others stay at rest.        *)
(***************************************************************************)
EXTENDS LongTermRule, GraphWalks, PolicyTable, SampleSheet, MCModelDocument

VARIABLE subject   \* the machine this behaviour runs

-----------------------------------------------------------------------------
\* Every list of up to three receipts over two heads and two times.
MCReceipt ==
  [status : {"pass", "fail", "not_checked"}, head : 1..2, signedAt : 1..2, validNow : BOOLEAN]

MCChecked == UNION {[1..n -> MCReceipt] : n \in 0..3}

-----------------------------------------------------------------------------
\* Graphs of an agent and two more nodes, with every control the walks tell apart, and graphs of
\* every kind of edge for the data flow.
MCGraphNodes == {"a", "b", "c"}

Plain == [type |-> "agent", kind |-> "", functions |-> {}, attrs |-> {}, layer |-> "run"]
Guarded == [Plain EXCEPT !.attrs = {"safe"}]

Gateway(kind, functions) ==
  [type |-> "gateway", kind |-> kind, functions |-> functions, attrs |-> {}, layer |-> "edge"]

Controls ==
  {Gateway("", {}), Gateway("waf", {}), Gateway("waf", {"credential_brokerage"}),
   Gateway("", {"credential_brokerage", "inspect"})}

Link(from, to, kind) == [from |-> from, to |-> to, kind |-> kind]
Pairs == {<<"a", "b">>, <<"b", "c">>, <<"a", "c">>, <<"c", "b">>, <<"b", "a">>}

MCGraphs ==
  {[node |-> [n \in MCGraphNodes |-> IF n = "a" THEN Plain ELSE IF n = "b" THEN b ELSE c],
    edges |-> {Link(p[1], p[2], "writes") : p \in pairs}] :
     b \in Controls \cup {Plain, Guarded}, c \in {Plain, Guarded, Gateway("waf", {})},
     pairs \in {s \in SUBSET Pairs : Cardinality(s) \in 2..3}}
  \cup
  {[node |-> [n \in MCGraphNodes |-> IF n = "b" THEN Gateway("", {}) ELSE Plain],
    edges |-> {Link("a", "b", k), Link("b", "c", l), Link("c", "a", m)}] :
     k, l, m \in {"writes", "reads", "calls", "authenticates"}}

FromTo(ask, from, types, attr) ==
  [ask |-> ask, from |-> from, to |-> "c", types |-> types, kinds |-> {}, more |-> {}, attr |-> attr]

Upstream(ask, to, kinds, more, attr) ==
  [ask |-> ask, from |-> "", to |-> to, types |-> {"gateway"}, kinds |-> kinds, more |-> more,
   attr |-> attr]

MCQueries ==
  {FromTo(ask, "a", {"gateway"}, "") :
      ask \in {"reachable", "pathThrough", "pathAvoidingType", "dataFlows"}}
    \cup {FromTo("reachable", "b", {}, ""), FromTo("dataFlows", "gone", {}, ""),
          FromTo("pathThrough", "b", {"gateway"}, ""), FromTo("pathAvoidingAttr", "a", {}, "safe"),
          FromTo("pathAvoidingAttr", "a", {}, "credential_brokerage")}
    \cup {Upstream("upstreamAvoiding", "c", kinds, {}, "") : kinds \in {{}, {"waf"}}}
    \cup {Upstream("upstreamAvoiding", "c", {"waf"}, {"agent"}, "safe"),
          Upstream("upstreamAvoiding", "gone", {}, {}, ""),
          Upstream("upstreamAvoidingFunctions", "c", {"waf"}, {"inspect"}, ""),
          Upstream("upstreamAvoidingFunctions", "c", {}, {"inspect", "credential_brokerage"}, ""),
          Upstream("upstreamAvoidingAttr", "c", {}, {}, "safe"),
          Upstream("dataSources", "c", {}, {}, "run"), Upstream("writersInto", "", {}, {}, "")}

-----------------------------------------------------------------------------
\* Every row over a default and three regimes, one entry for a role; the empty row is a code the
\* table does not name.
MCEntryKeys == {"default", "FINMA", "AIACT_deployer", "CH-CO_retail"}
MCRows == UNION {[keys -> {0, 2, 4}] : keys \in SUBSET MCEntryKeys}
MCTenantValues == {-1, 0, 1, 3, 5}

-----------------------------------------------------------------------------
\* Three rows of two regimes, findings on two elements, a record that says nothing of its signer
\* and one that does.
MCRegimeOf == [c \in {"c1", "c2", "c3"} |-> IF c = "c1" THEN "AIACT" ELSE "ISO"]

FindingOf(clause, element, severity) ==
  [clause |-> clause, element |-> element, severity |-> severity]

MCPossible ==
  {FindingOf("c1", "a", "high"), FindingOf("c1", "b", "low"), FindingOf("c2", "a", "low")}

Source(onChain, class, signer) ==
  [onChain |-> onChain, class |-> class, signer |-> signer, signed |-> FALSE]

MCRecorded ==
  {[c \in cs |-> r] : cs \in {{}, {"c1", "c2"}},
                      r \in {Source(TRUE, "", "custody"), Source(FALSE, "", "none")}}

MCLosses ==
  {<<{}, {}>>, <<{"custody.json"}, {}>>, <<{"patches.json", "chain.json"}, {}>>,
   <<{}, {"patches.json"}>>}

Seeded(seed, regimes, severities, provenances, size) ==
  [method |-> "random_seeded", seed |-> seed, list |-> {}, regimes |-> regimes,
   severities |-> severities, provenances |-> provenances, size |-> size]

Listed(seed, list) == [Seeded(seed, {}, {}, {}, 0) EXCEPT !.method = "list", !.list = list]

MCParameters ==
  {Seeded("s", {}, v, {}, n) : v \in {{}, {"none", "low"}}, n \in 1..2}
    \cup {Seeded("s", {"ISO"}, {}, {}, 1), Seeded("t", {}, {}, {"imported"}, 2),
          Listed("", {"c1", "c9"}), Listed("t", {"c1"})}

MCDrawKey ==
  [s \in {"s", "t"} |-> IF s = "s" THEN [c1 |-> 1, c2 |-> 2, c3 |-> 3]
                                   ELSE [c1 |-> 3, c2 |-> 1, c3 |-> 2]]

-----------------------------------------------------------------------------
RuleRests == given = << >> /\ results = << >> /\ at = 1
WalksRest == gGraph = << >> /\ gCaches = << >> /\ gAnswer = << >> /\ gCount = 0
PolicyRests == polRow = Nowhere /\ polRegimes = {} /\ polTenant = Unset
SampleRests ==
  smOpen = {} /\ smPatches = << >> /\ smRecord = Nowhere /\ smBundle = << >> /\ smSheet = << >>
DocumentRests ==
  /\ docStored = NoDocument /\ docRead = NoDocument /\ docSaved = NoDocument
  /\ docPc = "reading" /\ docWrote = Nowhere /\ docEdits = 0

AlgorithmsInit ==
  \/ /\ subject = "long-term rule" /\ RuleInit
     /\ WalksRest /\ PolicyRests /\ SampleRests /\ DocumentRests
  \/ /\ subject = "walks" /\ WalkInit
     /\ RuleRests /\ PolicyRests /\ SampleRests /\ DocumentRests
  \/ /\ subject = "policy" /\ PolicyInit
     /\ RuleRests /\ WalksRest /\ SampleRests /\ DocumentRests
  \/ /\ subject = "sample" /\ SampleInit
     /\ RuleRests /\ WalksRest /\ PolicyRests /\ DocumentRests
  \/ /\ subject = "document" /\ DocInit
     /\ RuleRests /\ WalksRest /\ PolicyRests /\ SampleRests

AlgorithmsNext ==
  /\ \/ /\ subject = "long-term rule" /\ RuleNext
        /\ UNCHANGED <<walkVars, polVars, sampleVars, docVars>>
     \/ /\ subject = "walks" /\ WalkNext
        /\ UNCHANGED <<ruleVars, polVars, sampleVars, docVars>>
     \/ /\ subject = "policy" /\ PolicyNext
        /\ UNCHANGED <<ruleVars, walkVars, sampleVars, docVars>>
     \/ /\ subject = "sample" /\ SampleNext
        /\ UNCHANGED <<ruleVars, walkVars, polVars, docVars>>
     \/ /\ subject = "document" /\ DocNext
        /\ UNCHANGED <<ruleVars, walkVars, polVars, sampleVars>>
  /\ UNCHANGED subject
=============================================================================
