------------------------------- MODULE Sidecar -------------------------------
(***************************************************************************)
(* The provenance sidecar of a model (model/provenance.go) and what an     *)
(* accepted patch may change (model/patch.go): operators on architectures. *)
(*                                                                         *)
(* An architecture is [has, source, ends, prov]: the pointers it holds a   *)
(* value at, the source member of each node, the nodes each edge goes from *)
(* and to, and the sidecar, a function from pointers to entries.  A        *)
(* pointer is its sequence of tokens.  Other values are left out: a patch  *)
(* says which of them it alters.  declared_at is left out too: no          *)
(* comparison reads it.                                                    *)
(***************************************************************************)
EXTENDS Integers, Sequences, FiniteSets, SequencesExt

CONSTANTS
  Nodes, Edges, \* element ids
  Ends,         \* [Edges -> Nodes \X Nodes], from and to as sources state them
  Members,      \* pointers of members and attributes, below an element or the root's
  Layout,       \* of Members, those that only place an element on the canvas
  ExternalRef,  \* [Nodes -> identifiers], "" where a node states none
  Cadence,      \* cadence_days of every import, in clock units
  Skew,         \* MaxSourceClockSkew
  KeyLimit,     \* provenanceKeyLimit
  KeyOrder      \* all pointers, deepest first, then in string order

NodeAt(n) == <<"nodes", n>>
EdgeAt(e) == <<"edges", e>>
EndAt(e, i) == <<"edges", e, IF i = 1 THEN "from" ELSE "to">>
Elements == {NodeAt(n) : n \in Nodes} \cup {EdgeAt(e) : e \in Edges}
Pointers == Elements \cup Members
Facts == Pointers \ Layout

ElementOf(p) == SubSeq(p, 1, 2)
Under(p, q) == IsPrefix(q, p)

\* A pointer that belongs to no element: a root attribute.
IsRoot(p) == p[1] = "attrs"

EndMembers == {EndAt(e, i) : e \in Edges, i \in {1, 2}}

Tokens == {"nodes", "edges", "attrs", "from", "to"} \cup Nodes \cup Edges \cup UNION {{p[i] : i \in DOMAIN p} : p \in Members}

\* What a change is named by is a member or an attribute, never a value inside one, so no member
\* lies below another (ChangedPointers).
ASSUME PointerAssumption ==
  /\ Members \subseteq Seq(Tokens) /\ Members \cap Elements = {} /\ Layout \subseteq Members
  /\ \A p \in Members : Len(p) >= 2 /\ IF IsRoot(p) THEN Len(p) = 2 ELSE ElementOf(p) \in Elements
  /\ \A p, q \in Members : Under(p, q) => p = q
  /\ EndMembers \subseteq Facts

\* The limit leaves room for a key of every element (MaxProvenanceKeys), and the second pass of
\* a compaction goes over every key there can be.
ASSUME LimitAssumption ==
  /\ IsFiniteSet(Elements) /\ Cardinality(Elements) <= KeyLimit /\ KeyLimit \in Nat
  /\ KeyOrder \in Seq(Facts) /\ \A k \in Facts : \E i \in 1..Len(KeyOrder) : KeyOrder[i] = k

ASSUME ModelAssumption == Ends \in [Edges -> Nodes \X Nodes] /\ Cadence \in Nat /\ Skew \in Nat

Without(f, gone) == [k \in DOMAIN f \ gone |-> f[k]]
Put(f, k, v) == [j \in DOMAIN f \cup {k} |-> IF j = k THEN v ELSE f[j]]
NoEntries == Without(<<>>, {})

-----------------------------------------------------------------------------
\* Kinds and sources.

ProvenanceKinds == <<"declared", "imported", "observed">>
Rank(kind) == CHOOSE i \in 1..3 : ProvenanceKinds[i] = kind
Weaker(x, y) == IF Rank(x) <= Rank(y) THEN x ELSE y

Sources == {"design", "declared", "observed"}
SourceToKind == [design |-> "declared", declared |-> "imported", observed |-> "observed"]
KindToSource == [declared |-> "design", imported |-> "declared", observed |-> "observed"]

PreV11Import == "pre-1.1 import"

\* An entry that names no import, no date and nobody.
Claim(kind, id) ==
  [kind |-> kind, id |-> id, seen |-> 0, importedAt |-> 0, fetched |-> 0, by |-> ""]

UpgradeEntry(n, source) ==
  LET kind == SourceToKind[source]
  IN  Claim(kind, IF kind # "imported" THEN ""
                  ELSE IF ExternalRef[n] # "" THEN ExternalRef[n] ELSE PreV11Import)

-----------------------------------------------------------------------------
\* Reading.

Resolves(a, k) == k \in a.has \ Layout
Deepest(keys) == CHOOSE k \in keys : \A j \in keys : Len(j) <= Len(k)
StoredAbove(a, p) == {k \in DOMAIN a.prov : Under(p, k)}

NodeEntry(a, n) ==
  IF NodeAt(n) \in DOMAIN a.prov THEN a.prov[NodeAt(n)] ELSE UpgradeEntry(n, a.source[n])

\* An edge without an entry is what the weaker of its endpoints is, as it is drawn now.
EdgeEntry(a, e) ==
  LET from == NodeEntry(a, a.ends[e][1])
      to   == NodeEntry(a, a.ends[e][2])
      weak == IF Weaker(from.kind, to.kind) = from.kind THEN from ELSE to
  IN  Claim(weak.kind, weak.id)

ProvenanceOf(a, p) ==
  IF StoredAbove(a, p) # {} THEN a.prov[Deepest(StoredAbove(a, p))]
  ELSE IF p[1] = "nodes" /\ ElementOf(p) \in a.has THEN NodeEntry(a, p[2])
  ELSE IF p[1] = "edges" /\ ElementOf(p) \in a.has THEN EdgeEntry(a, p[2])
  ELSE Claim("declared", "")

KindOf(a, p) == ProvenanceOf(a, p).kind

Expired(e, asOf) ==
  e.kind = "imported" /\ Cadence > 0 /\ e.fetched # 0 /\ asOf - e.fetched > Cadence

Newer_ByFetched(x, y) == x.fetched > y.fetched

\* newerImport: by acceptance, then by the source's own date, then by value.
Newer(x, y) ==
  \/ x.importedAt > y.importedAt
  \/ x.importedAt = y.importedAt /\ x.fetched > y.fetched
  \/ x.importedAt = y.importedAt /\ x.fetched = y.fetched /\ x.seen > y.seen

\* The entries LatestImports reads, and DriftedAgainst judges, of one identifier.
ImportKeys(a, id) ==
  {k \in DOMAIN a.prov : /\ a.prov[k].kind # "declared"
                         /\ a.prov[k].id = id /\ a.prov[k].seen # 0}

LatestImport(a, id) ==
  LET best == CHOOSE k \in ImportKeys(a, id) :
                \A j \in ImportKeys(a, id) : ~Newer(a.prov[j], a.prov[k])
  IN  a.prov[best].seen

DriftedElements(a, id) ==
  {k \in ImportKeys(a, id) \cap Elements : a.prov[k].seen # LatestImport(a, id)}

-----------------------------------------------------------------------------
\* Size.

Redundant_BySamePerson(prov, k) ==
  LET above == {j \in DOMAIN prov : j # k /\ Under(k, j)}
  IN  above # {} /\ prov[Deepest(above)].by = prov[k].by

\* compactProvenance, first pass.  Keys go deepest first, so a key is compared with the
\* entry above it before that one is compared with its own.
Redundant(prov, k) ==
  LET above == {j \in DOMAIN prov : j # k /\ Under(k, j)}
  IN  above # {} /\ prov[Deepest(above)] = prov[k]

Thinned(a) == [a EXCEPT !.prov = Without(@, {k \in DOMAIN a.prov : Redundant(a.prov, k)})]

FoldKey_Stronger(a, k) ==
  IF k \notin DOMAIN a.prov \/ Len(k) <= 2 \/ IsRoot(k) THEN a
  ELSE [a EXCEPT !.prov =
         Without(Put(@, ElementOf(k), ProvenanceOf(a, ElementOf(k))), {k})]

\* Second pass: a key below an element goes into the element's, the weaker claim winning.
FoldKey(a, k) ==
  IF k \notin DOMAIN a.prov \/ Len(k) <= 2 \/ IsRoot(k) THEN a
  ELSE LET cur  == ProvenanceOf(a, ElementOf(k))
           kept == IF Rank(a.prov[k].kind) < Rank(cur.kind) THEN a.prov[k] ELSE cur
       IN  [a EXCEPT !.prov = Without(Put(@, ElementOf(k), kept), {k})]

Fits(a) == Cardinality(DOMAIN a.prov) <= KeyLimit

Compacted(a) ==
  LET thin   == Thinned(a)
      folded == FoldLeft(FoldKey, thin, KeyOrder)
  IN  IF Fits(thin) THEN thin
      ELSE IF Fits(folded) THEN folded
      ELSE [folded EXCEPT !.prov = Without(@, {k \in DOMAIN folded.prov : IsRoot(k)})]

-----------------------------------------------------------------------------
\* Writing.

SyncSources(a) ==
  [a EXCEPT !.source = [n \in Nodes |-> IF NodeAt(n) \in DOMAIN a.prov
                                        THEN KindToSource[a.prov[NodeAt(n)].kind] ELSE @[n]]]

Pruned_Kept(a) == a

\* pruneProvenanceDoc and pruneUnresolved.
Pruned(a) == [a EXCEPT !.prov = Without(@, {k \in DOMAIN a.prov : ~Resolves(a, k)})]

Materialized_AsEdited(a, sources) ==
  [a EXCEPT !.prov =
    [k \in DOMAIN @ \cup {NodeAt(n) : n \in {m \in Nodes : NodeAt(m) \in a.has}} |->
      IF k \in DOMAIN @ THEN @[k] ELSE UpgradeEntry(k[2], a.source[k[2]])]]

\* The upgrade mapping stored for every node without an entry, by the given sources.
Materialized(a, sources) ==
  [a EXCEPT !.prov =
    [k \in DOMAIN @ \cup {NodeAt(n) : n \in {m \in Nodes : NodeAt(m) \in a.has}} |->
      IF k \in DOMAIN @ THEN @[k] ELSE UpgradeEntry(k[2], sources[k[2]])]]

BoundedDate_AsStated(date, at, now) == IF date = 0 THEN at ELSE date

\* The fetch date of an import: the source's own, if it states one that is believed,
\* bounded by the acceptance.  A preview has no acceptance yet (at = 0).
BoundedDate(date, at, now) ==
  IF date = 0 \/ (at = 0 /\ date > now + Skew) THEN at
  ELSE IF at # 0 /\ date > at THEN at
  ELSE date

ImportEntry(snap, date, actor, at, now) ==
  [kind |-> snap.kind, id |-> snap.id, seen |-> snap.hash, importedAt |-> at,
   fetched |-> BoundedDate(date, at, now), by |-> actor]

Merged_Whole(a, entry, carried, rewritten) ==
  [a EXCEPT !.prov = [k \in {j \in DOMAIN @ : \A p \in carried : ~Under(j, p)} \cup carried |->
                        IF k \in carried THEN entry ELSE @[k]]]

\* MergeImport up to compaction: the carried elements are imported as of now; below them the
\* keys of what was rewritten go.
Merged(a, entry, carried, rewritten) ==
  LET gone == {k \in DOMAIN a.prov \ carried :
                 (\E p \in carried : Under(k, p)) /\ \E r \in rewritten : Under(k, r)}
  IN  [a EXCEPT !.prov = [k \in (DOMAIN @ \ gone) \cup carried |->
                            IF k \in carried THEN entry ELSE @[k]]]

RecordImport(a, entry, carried) == SyncSources(Compacted(Merged(a, entry, carried, carried)))

DropUnder(prov, tops) == Without(prov, {k \in DOMAIN prov : \E p \in tops : k # p /\ Under(k, p)})

Declared(a, entry, pointers) ==
  [a EXCEPT !.prov = [k \in DOMAIN DropUnder(@, pointers) \cup pointers |->
                        IF k \in pointers THEN entry ELSE @[k]]]

RecordDeclared(a, id, pointers) == SyncSources(Declared(a, Claim("declared", id), pointers))

\* StampAccepted on one entry.
Stamped(e, actor, at) ==
  IF e.kind = "declared" THEN [e EXCEPT !.by = actor]
  ELSE IF e.id = "" THEN e
  ELSE [e EXCEPT !.by = actor, !.importedAt = at,
                 !.fetched = IF @ = 0 \/ @ > at THEN at ELSE @]

\* StampAccepted up to compaction.
Accepted(a, actor, at) ==
  IF DOMAIN a.prov = {} THEN a
  ELSE LET p == Pruned(a)
       IN  Materialized([p EXCEPT !.prov = [k \in DOMAIN @ |-> Stamped(@[k], actor, at)]],
                        a.source)

DistrustProvenance(a) == [a EXCEPT !.prov = NoEntries, !.source = [n \in Nodes |-> "design"]]

-----------------------------------------------------------------------------
\* Patches.

\* Two nodes are the same: source, members and their values.
SameNode(prev, next, altered, n) ==
  /\ prev.source[n] = next.source[n]
  /\ \A p \in Members : Under(p, NodeAt(n)) => (p \in prev.has <=> p \in next.has) /\ p \notin altered

\* The nodes an edge goes from and to.
EndNodes(ends, e) == {NodeAt(ends[e][1]), NodeAt(ends[e][2])}

\* Apply: every edge names its ends and has them, observed nodes are read-only.
Allowed(prev, next, altered) ==
  /\ \A e \in Edges : EdgeAt(e) \in next.has =>
       EndNodes(next.ends, e) \cup {EndAt(e, 1), EndAt(e, 2)} \subseteq next.has
  /\ \A n \in Nodes :
       /\ NodeAt(n) \in next.has /\ next.source[n] = "observed"
            => NodeAt(n) \in prev.has /\ SameNode(prev, next, altered, n)
       /\ NodeAt(n) \in prev.has /\ prev.source[n] = "observed" => NodeAt(n) \in next.has

\* The ends two models state differently of an edge both hold.
OtherEnds(prev, next) ==
  {p \in EndMembers : /\ EdgeAt(p[2]) \in prev.has \cap next.has
                      /\ \E i \in {1, 2} : /\ p = EndAt(p[2], i)
                                          /\ prev.ends[p[2]][i] # next.ends[p[2]][i]}

\* ChangedPointers: what was added, whole elements as one, and what was altered.
Changed(prev, next, altered) ==
  (altered \cup OtherEnds(prev, next) \cup {p \in next.has \ prev.has :
                   p \in Elements \/ IsRoot(p) \/ ElementOf(p) \in prev.has}) \ Layout

\* The sources a change may not raise: those before it, design for what it added.
SourcesBefore(prev) ==
  [n \in Nodes |-> IF NodeAt(n) \in prev.has THEN prev.source[n] ELSE "design"]

Touches_OnlyFacts(prev, next, changed) == \E p \in changed : KindOf(prev, p) # "declared"

\* touchesNonDeclared.
Touches(prev, next, changed) ==
  \/ \E p \in changed : KindOf(prev, p) # "declared"
  \/ \E n \in Nodes : /\ NodeAt(n) \in next.has
                      /\ SourceToKind[next.source[n]] # SourceToKind[SourcesBefore(prev)[n]]

\* StampPatch up to compaction.
StampPatch(prev, next, changed, actor) ==
  IF DOMAIN next.prov = {} /\ ~Touches(prev, next, changed) THEN next
  ELSE Declared(Materialized(Pruned(next), SourcesBefore(prev)),
                [Claim("declared", "") EXCEPT !.by = actor], changed)

\* DriftRemovalOps: what is left when the drifted elements of an identifier are removed, and
\* the edges that touch them.
WithoutDrifted(a, id) ==
  LET nodes == DriftedElements(a, id)
      edges == {EdgeAt(e) : e \in {x \in Edges : EndNodes(a.ends, x) \cap nodes # {}}}
  IN  {p \in a.has : \A q \in nodes \cup edges : ~Under(p, q)}
=============================================================================
