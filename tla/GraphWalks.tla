----------------------------- MODULE GraphWalks -----------------------------
(***************************************************************************)
(* The questions a condition asks of the architecture graph (rules/cel.go):*)
(* is there a walk, one through a type, one around every control, who can  *)
(* reach a node around them, whose data arrives.  One evaluation asks many *)
(* over the same graph, and each family of questions keeps its walks in a  *)
(* cache; one action is one question.                                      *)
(*                                                                         *)
(* An answer is a set of nodes: the list the code returns, or {to} for a   *)
(* true answer about a walk to a node.                                     *)
(***************************************************************************)
EXTENDS Integers, Sequences, FiniteSets

CONSTANTS
  GraphNodes,    \* the ids of the nodes
  Graphs,        \* the graphs: [node : id -> what it declares, edges : set of [from, to, kind]]
  Queries,       \* the questions: [ask, from, to, types, kinds, more, attr]
  MaxQueries     \* bound: questions of one evaluation

\* A validated model has finitely many nodes and no edge to an absent one; pathAvoidingType takes
\* one type.
ASSUME WalksAssumption ==
  /\ IsFiniteSet(GraphNodes)
  /\ \A g \in Graphs : \A e \in g.edges : e.from \in GraphNodes /\ e.to \in GraphNodes
  /\ \A q \in Queries : q.ask = "pathAvoidingType" => \E t \in q.types : q.types = {t}

VARIABLES
  gGraph,
  gCaches,   \* fwd, bwd, dataFwd, dataBwd, pathCache, avoid, upAvoid, writers
  gAnswer,   \* the latest question and its answer, << >> before the first
  gCount     \* questions asked

walkVars == <<gGraph, gCaches, gAnswer, gCount>>

Nowhere == [x \in {} |-> {}]

-----------------------------------------------------------------------------
\* outAdj, inAdj.
Out == [n \in GraphNodes |-> {e.to : e \in {e \in gGraph.edges : e.from = n}}]
In == [n \in GraphNodes |-> {e.from : e \in {e \in gGraph.edges : e.to = n}}]

\* addData: a reader pulls, a call answers, an identity assertion carries no data.
DataPairs ==
  {<<e.from, e.to>> : e \in {e \in gGraph.edges : e.kind \notin {"reads", "subscribes", "authenticates"}}}
    \cup {<<e.to, e.from>> : e \in {e \in gGraph.edges : e.kind \in {"reads", "subscribes", "calls"}}}

DataOut == [n \in GraphNodes |-> {p[2] : p \in {p \in DataPairs : p[1] = n}}]
DataIn == [n \in GraphNodes |-> {p[1] : p \in {p \in DataPairs : p[2] = n}}]

\* bfs: what a queue that starts with one node comes to hold.
Spread(start, neighbours) ==
  LET seen[s \in SUBSET GraphNodes] ==
        LET t == s \cup UNION {neighbours[n] : n \in s} IN IF t = s THEN s ELSE seen[t]
  IN  seen[{start}]

\* declaredFunctions, derivedAttrs: a node that declares credential brokerage has the attribute.
Attributes(n) ==
  gGraph.node[n].attrs \cup (gGraph.node[n].functions \cap {"credential_brokerage"})

OfType(n, types) == gGraph.node[n].type \in types

\* A blocking kind: any when the rule names none.
OfKind(n, kinds) == kinds = {} \/ gGraph.node[n].kind \in kinds

\* The nodes a question walks around.
BlockedByControl(n, q) ==
  \/ q.attr \in Attributes(n) /\ OfType(n, q.more)
  \/ OfType(n, q.types) /\ OfKind(n, q.kinds)

BlockedByFunctions(n, q) ==
  LET declared == gGraph.node[n].functions IN
  /\ OfType(n, q.types)
  /\ IF declared # {} THEN q.more \subseteq declared ELSE OfKind(n, q.kinds)

Blocked(n, q) ==
  CASE q.ask = "pathAvoidingType" -> OfType(n, q.types)
    [] q.ask \in {"pathAvoidingAttr", "upstreamAvoidingAttr"} -> q.attr \in Attributes(n)
    [] q.ask = "upstreamAvoiding" -> BlockedByControl(n, q)
    [] q.ask = "upstreamAvoidingFunctions" -> BlockedByFunctions(n, q)
    [] OTHER -> FALSE

-----------------------------------------------------------------------------
\* The forward walk of avoidingWalk: the start is not checked, whatever follows is.
AvoidingWalk(q) == Spread(q.from, [n \in GraphNodes |-> {m \in Out[n] : ~Blocked(m, q)}])

\* Mistakes (names with a suffix, used by no specification): a blocked target is walked from; the
\* two forms of upstreamAvoiding share their entries.
UpstreamWalk_Unchecked(q) ==
  LET open == Spread(q.to, [n \in GraphNodes |-> {p \in In[n] : ~Blocked(p, q)}])
  IN  {q.to} \cup UNION {In[n] : n \in open}

\* upstreamWalk: what precedes an open node is a source, open itself unless it is blocked.
UpstreamWalk(q) ==
  LET open == IF Blocked(q.to, q) THEN {}
              ELSE Spread(q.to, [n \in GraphNodes |-> {p \in In[n] : ~Blocked(p, q)}])
  IN  {q.to} \cup UNION {In[n] : n \in open}

AvoidKey(q) ==
  IF q.ask = "pathAvoidingType" THEN <<q.from, "type", CHOOSE t \in q.types : TRUE>>
  ELSE <<q.from, "attr", q.attr>>

UpstreamKey_Shared(q) == [to |-> q.to, types |-> q.types, kinds |-> q.kinds]

UpstreamKey(q) ==
  [to |-> q.to, types |-> q.types, kinds |-> q.kinds, more |-> q.more, attr |-> q.attr,
   form |-> q.ask]

\* A cache that answers what it was asked before.
Kept(cache, key, walk) ==
  [k \in DOMAIN cache \cup {key} |-> IF k \in DOMAIN cache THEN cache[k] ELSE walk]

Known(q, side) == q[side] \in GraphNodes

Answer(q, nodes) ==
  /\ gAnswer' = <<q, nodes>>
  /\ gCount' = gCount + 1
  /\ UNCHANGED gGraph

Ifto(q, walk) == IF q.to \in walk THEN {q.to} ELSE {}

Nothing(q) ==
  /\ UNCHANGED gCaches
  /\ Answer(q, {})

WalkInit ==
  /\ gGraph \in Graphs
  /\ gCaches = [fwd |-> Nowhere, bwd |-> Nowhere, dataFwd |-> Nowhere, dataBwd |-> Nowhere,
                path |-> Nowhere, avoid |-> Nowhere, upAvoid |-> Nowhere, writers |-> Nowhere]
  /\ gAnswer = << >>
  /\ gCount = 0

Reachable(q) ==
  /\ q.ask = "reachable"
  /\ IF ~Known(q, "from") THEN Nothing(q)
     ELSE LET fwd == Kept(gCaches.fwd, q.from, Spread(q.from, Out)) IN
          /\ gCaches' = [gCaches EXCEPT !.fwd = fwd]
          /\ Answer(q, Ifto(q, fwd[q.from]))

\* pathThrough: some node of the type lies between, the ends counted.
PathThrough(q) ==
  LET key == <<q.from, q.to, q.types>>
      fwd == IF Known(q, "from") THEN Kept(gCaches.fwd, q.from, Spread(q.from, Out)) ELSE gCaches.fwd
      met == Known(q, "from") /\ q.to \in fwd[q.from]
      bwd == IF met THEN Kept(gCaches.bwd, q.to, Spread(q.to, In)) ELSE gCaches.bwd
      through == IF met /\ \E n \in fwd[q.from] \cap bwd[q.to] : OfType(n, q.types) THEN {q.to} ELSE {}
  IN  /\ q.ask = "pathThrough"
      /\ IF key \in DOMAIN gCaches.path
         THEN gCaches' = gCaches /\ Answer(q, gCaches.path[key])
         ELSE /\ gCaches' = [gCaches EXCEPT !.fwd = fwd, !.bwd = bwd, !.path = Kept(@, key, through)]
              /\ Answer(q, through)

PathAvoiding(q) ==
  /\ q.ask \in {"pathAvoidingType", "pathAvoidingAttr"}
  /\ IF ~Known(q, "from") THEN Nothing(q)
     ELSE LET avoid == Kept(gCaches.avoid, AvoidKey(q), AvoidingWalk(q)) IN
          /\ gCaches' = [gCaches EXCEPT !.avoid = avoid]
          /\ Answer(q, Ifto(q, avoid[AvoidKey(q)]))

UpstreamAvoidingAttr(q) ==
  /\ q.ask = "upstreamAvoidingAttr"
  /\ IF ~Known(q, "to") THEN Nothing(q)
     ELSE gCaches' = gCaches /\ Answer(q, UpstreamWalk(q))

\* Both forms of upstreamAvoiding share the cache.
UpstreamAvoiding(q) ==
  /\ q.ask \in {"upstreamAvoiding", "upstreamAvoidingFunctions"}
  /\ IF ~Known(q, "to") THEN Nothing(q)
     ELSE LET up == Kept(gCaches.upAvoid, UpstreamKey(q), UpstreamWalk(q)) IN
          /\ gCaches' = [gCaches EXCEPT !.upAvoid = up]
          /\ Answer(q, up[UpstreamKey(q)])

DataFlows(q) ==
  /\ q.ask = "dataFlows"
  /\ IF ~Known(q, "from") THEN Nothing(q)
     ELSE LET fwd == Kept(gCaches.dataFwd, q.from, Spread(q.from, DataOut)) IN
          /\ gCaches' = [gCaches EXCEPT !.dataFwd = fwd]
          /\ Answer(q, Ifto(q, fwd[q.from]))

\* dataSources: of one layer, or of any ("").
DataSources(q) ==
  /\ q.ask = "dataSources"
  /\ IF ~Known(q, "to") THEN Nothing(q)
     ELSE LET bwd == Kept(gCaches.dataBwd, q.to, Spread(q.to, DataIn)) IN
          /\ gCaches' = [gCaches EXCEPT !.dataBwd = bwd]
          /\ Answer(q, {n \in bwd[q.to] \ {q.to} : q.attr \in {"", gGraph.node[n].layer}})

WritersInto(q) ==
  LET into == {e \in gGraph.edges : e.kind \in {"writes", "executes"} /\ OfType(e.to, q.types)}
      writers == Kept(gCaches.writers, q.types, {e.from : e \in into})
  IN  /\ q.ask = "writersInto"
      /\ gCaches' = [gCaches EXCEPT !.writers = writers]
      /\ Answer(q, writers[q.types])

Ask(q) ==
  \/ Reachable(q) \/ PathThrough(q) \/ PathAvoiding(q) \/ UpstreamAvoidingAttr(q)
  \/ UpstreamAvoiding(q) \/ DataFlows(q) \/ DataSources(q) \/ WritersInto(q)

WalkNext == gCount < MaxQueries /\ \E q \in Queries : Ask(q)

WalkSpec == WalkInit /\ [][WalkNext]_walkVars

-----------------------------------------------------------------------------
\* A walk, node by node, each step along a pair.
IsWalk(s, Pair(_, _)) == \A i \in 1..(Len(s) - 1) : Pair(s[i], s[i + 1])

Along(n, m) == m \in Out[n]
DataAlong(n, m) == <<n, m>> \in DataPairs

\* Every sequence of nodes long enough to hold a walk between any two, through any third.
NodeSeqs == UNION {[1..k -> GraphNodes] : k \in 1..(2 * Cardinality(GraphNodes) - 1)}

SomeWalk(from, to, Pair(_, _), Fits(_)) ==
  \E s \in NodeSeqs : s[1] = from /\ s[Len(s)] = to /\ IsWalk(s, Pair) /\ Fits(s)

Around(from, to, q) ==
  SomeWalk(from, to, Along, LAMBDA s : \A i \in 2..Len(s) : ~Blocked(s[i], q))

\* What the comments promise of each question.
Promised(q) ==
  CASE q.ask \in {"upstreamAvoidingAttr", "upstreamAvoiding", "upstreamAvoidingFunctions"} ->
         {n \in GraphNodes : n = q.to \/ Around(n, q.to, q)}
    [] q.ask = "dataSources" ->
         {n \in GraphNodes \ {q.to} : /\ q.attr \in {"", gGraph.node[n].layer}
                                      /\ SomeWalk(n, q.to, DataAlong, LAMBDA s : TRUE)}
    [] q.ask = "reachable" -> {n \in {q.to} : SomeWalk(q.from, n, Along, LAMBDA s : TRUE)}
    [] q.ask = "pathThrough" ->
         {n \in {q.to} : SomeWalk(q.from, n, Along, LAMBDA s : \E i \in 1..Len(s) : OfType(s[i], q.types))}
    [] q.ask = "dataFlows" -> {n \in {q.to} : SomeWalk(q.from, n, DataAlong, LAMBDA s : TRUE)}
    [] OTHER -> {n \in {q.to} : Around(q.from, n, q)}

\* Whatever an evaluation asked before, and whichever walks its caches kept, a question about
\* the graph is answered as if it were the first: a node is reached, avoided or listed exactly
\* when the walk the question describes exists.
AnswersAreWalks ==
  (gAnswer # << >> /\ gAnswer[1].ask # "writersInto") => gAnswer[2] = Promised(gAnswer[1])
=============================================================================
