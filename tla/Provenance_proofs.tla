------------------------- MODULE Provenance_proofs --------------------------
(***************************************************************************)
(* The sidecar of a model over its life, for every model, every source and *)
(* every history of imports and patches; then how a stored document is     *)
(* read, for every store of documents.                                     *)
(***************************************************************************)
EXTENDS Provenance, ModelDocument, FiniteSetTheorems, SequenceTheorems, TLAPS

\* The second pass of a compaction is a fold.
FO == INSTANCE FoldTheorems WITH Op <- FoldKey

-----------------------------------------------------------------------------
\* Pointers.

\* An element's pointer is its own element, of two tokens, and a node's is no edge's.
LEMMA ElementPointers ==
  /\ \A p \in Elements : ElementOf(p) = p /\ Len(p) = 2 /\ ~IsRoot(p) /\ p \notin Members
  /\ \A n \in Nodes : NodeAt(n) \in Elements /\ NodeAt(n)[1] = "nodes" /\ NodeAt(n)[2] = n
  /\ \A e \in Edges : EdgeAt(e) \in Elements /\ EdgeAt(e)[1] = "edges" /\ EdgeAt(e)[2] = e
<1>1. \A x : \A c : <<c, x>>[1] = c /\ <<c, x>>[2] = x /\ Len(<<c, x>>) = 2
  OBVIOUS
<1>2. ASSUME NEW x, NEW c PROVE SubSeq(<<c, x>>, 1, 2) = <<c, x>>
  <2> DEFINE t == <<c, x>>
  <2>1. t \in Seq({c, x}) /\ Len(t) = 2
    OBVIOUS
  <2> HIDE DEF t
  <2>2. SubSeq(t, 1, 2) = t
    BY <2>1
  <2> QED BY <2>2 DEF t
<1>3. \A p \in Elements : \E c \in {"nodes", "edges"}, x \in Nodes \cup Edges : p = <<c, x>>
  BY DEF Elements, NodeAt, EdgeAt
<1> QED BY <1>1, <1>2, <1>3, PointerAssumption DEF Elements, NodeAt, EdgeAt, ElementOf, IsRoot

\* What governs a pointer lies at it or at its element.
LEMMA PointersAbove ==
  /\ \A p \in Pointers : /\ ElementOf(p) \in Pointers /\ ElementOf(ElementOf(p)) = ElementOf(p)
                         /\ Len(p) \in Nat /\ Len(p) >= 2 /\ Len(ElementOf(p)) = 2
                         /\ Len(p) = 2 <=> ElementOf(p) = p
                         /\ p \in Elements <=> ElementOf(p) = p /\ ~IsRoot(p)
                         /\ IsRoot(p) => ElementOf(p) = p
                         /\ ElementOf(p)[1] = p[1] /\ ElementOf(p)[2] = p[2]
  /\ \A p, q \in Pointers : Under(p, q) <=> q \in {p, ElementOf(p)}
<1>1. ASSUME NEW p \in Pointers
      PROVE  /\ ElementOf(p) \in Pointers /\ ElementOf(ElementOf(p)) = ElementOf(p)
             /\ Len(p) \in Nat /\ Len(p) >= 2 /\ Len(ElementOf(p)) = 2
             /\ Len(p) = 2 <=> ElementOf(p) = p
             /\ p \in Elements <=> ElementOf(p) = p /\ ~IsRoot(p)
             /\ IsRoot(p) => ElementOf(p) = p
             /\ ElementOf(p)[1] = p[1] /\ ElementOf(p)[2] = p[2]
  <2>1. CASE p \in Elements
    BY <2>1, ElementPointers DEF Pointers
  <2>2. CASE p \in Members /\ IsRoot(p)
    <3>1. p \in Seq(Tokens) /\ Len(p) = 2
      BY <2>2, PointerAssumption
    <3>2. SubSeq(p, 1, 2) = p
      BY <3>1
    <3>3. ElementOf(p) = p /\ p \notin Elements
      BY <2>2, <3>2, PointerAssumption DEF ElementOf
    <3> QED BY <2>2, <3>1, <3>3
  <2>3. CASE p \in Members /\ ~IsRoot(p)
    <3>1. p \in Seq(Tokens) /\ Len(p) >= 2 /\ ElementOf(p) \in Elements /\ p \notin Elements
      BY <2>3, PointerAssumption
    <3>2. SubSeq(p, 1, 2)[1] = p[1] /\ SubSeq(p, 1, 2)[2] = p[2] /\ (Len(p) = 2 => SubSeq(p, 1, 2) = p)
      BY <3>1
    <3>3. ElementOf(p)[1] = p[1] /\ ElementOf(p)[2] = p[2] /\ (Len(p) = 2 => ElementOf(p) = p)
      BY <3>2 DEF ElementOf
    <3>4. Len(p) \in Nat /\ ElementOf(p) # p /\ ElementOf(p) \in Pointers
      BY <3>1 DEF Pointers
    <3>5. ElementOf(ElementOf(p)) = ElementOf(p) /\ Len(ElementOf(p)) = 2
      BY <3>1, ElementPointers
    <3> QED BY <2>3, <3>1, <3>3, <3>4, <3>5
  <2> QED BY <2>1, <2>2, <2>3 DEF Pointers
<1>2. ASSUME NEW p \in Pointers, NEW q \in Pointers
      PROVE  Under(p, q) <=> q \in {p, ElementOf(p)}
  <2>1. \E S : p \in Seq(S) /\ q \in Seq(S)
    <3>1. ASSUME NEW r \in Elements PROVE r \in Seq(Tokens)
      <4>1. PICK c \in Tokens, x \in Tokens : r = <<c, x>>
        BY DEF Elements, Tokens, NodeAt, EdgeAt
      <4> QED BY <4>1
    <3> QED BY <3>1, PointerAssumption DEF Pointers
  <2>2. PICK S : p \in Seq(S) /\ q \in Seq(S)
    BY <2>1
  <2>3. Under(p, p)
    <3>1. SubSeq(p, 1, Len(p)) = SubSeq(p, 1, Len(p)) /\ Len(p) <= Len(p)
      BY <2>2
    <3> QED BY <3>1 DEF Under, IsPrefix
  <2>4. Under(p, ElementOf(p))
    <3>1. Len(p) >= 2 /\ Len(ElementOf(p)) = 2 /\ ElementOf(p) = SubSeq(p, 1, 2)
      BY <1>1 DEF ElementOf
    <3>2. SubSeq(SubSeq(p, 1, 2), 1, 2) = SubSeq(p, 1, 2)
      BY <3>1, <2>2
    <3> QED BY <3>1, <3>2 DEF Under, IsPrefix
  <2>5. ASSUME Under(p, q) PROVE q \in {p, ElementOf(p)}
    <3>1. Len(q) <= Len(p) /\ SubSeq(q, 1, Len(q)) = SubSeq(p, 1, Len(q))
      BY <2>5 DEF Under, IsPrefix
    <3>2. SubSeq(q, 1, Len(q)) = q
      BY <2>2
    <3>3. CASE Len(q) = 2
      BY <3>1, <3>2, <3>3 DEF ElementOf
    <3>4. CASE Len(q) # 2
      <4>1. q \in Members /\ Len(p) # 2
        <5>1. Len(q) >= 2 /\ Len(q) \in Nat /\ Len(p) \in Nat
          BY <1>1
        <5>2. q \notin Elements
          BY <3>4, ElementPointers
        <5>3. q \in Members
          BY <5>2 DEF Pointers
        <5>4. Len(q) <= Len(p)
          BY <3>1
        <5>5. Len(p) # 2
          BY <5>1, <5>4, <3>4
        <5> QED BY <5>3, <5>5
      <4>2. p \in Members
        BY <4>1, ElementPointers DEF Pointers
      <4> QED BY <2>5, <4>1, <4>2, PointerAssumption
    <3> QED BY <3>3, <3>4
  <2> QED BY <2>3, <2>4, <2>5
<1> QED BY <1>1, <1>2

\* A pointer is a root attribute's, or below a node, or below an edge.
LEMMA PointerCases ==
  ASSUME NEW p \in Pointers
  PROVE  \/ IsRoot(p) /\ p \in Members /\ p[1] = "attrs" /\ p[1] # "nodes" /\ p[1] # "edges"
         \/ ~IsRoot(p) /\ p[1] = "nodes" /\ p[1] # "edges" /\ p[2] \in Nodes /\ ElementOf(p) = NodeAt(p[2])
         \/ ~IsRoot(p) /\ p[1] = "edges" /\ p[1] # "nodes" /\ p[2] \in Edges /\ ElementOf(p) = EdgeAt(p[2])
<1>1. CASE IsRoot(p)
  <2>1. p \in Members
    BY <1>1, ElementPointers DEF Pointers
  <2> QED BY <1>1, <2>1 DEF IsRoot
<1>2. CASE ~IsRoot(p)
  <2>1. ElementOf(p) \in Elements /\ ElementOf(p)[1] = p[1] /\ ElementOf(p)[2] = p[2]
    <3>1. ElementOf(p)[1] = p[1] /\ ElementOf(p)[2] = p[2] /\ ElementOf(p) \in Pointers
          /\ ElementOf(ElementOf(p)) = ElementOf(p)
      BY PointersAbove
    <3>2. ~IsRoot(ElementOf(p))
      BY <1>2, <3>1 DEF IsRoot
    <3> QED BY <3>1, <3>2, PointersAbove
  <2>2. CASE \E n \in Nodes : ElementOf(p) = NodeAt(n)
    <3>1. PICK n \in Nodes : ElementOf(p) = NodeAt(n)
      BY <2>2
    <3> QED BY <1>2, <2>1, <3>1, ElementPointers
  <2>3. CASE \E e \in Edges : ElementOf(p) = EdgeAt(e)
    <3>1. PICK e \in Edges : ElementOf(p) = EdgeAt(e)
      BY <2>3
    <3> QED BY <1>2, <2>1, <3>1, ElementPointers
  <2> QED BY <2>1, <2>2, <2>3 DEF Elements
<1> QED BY <1>1, <1>2

-----------------------------------------------------------------------------
\* Architectures and what their entries say.

Kinds == {"declared", "imported", "observed"}
Ids == Identifiers \cup {"", "drawing", PreV11Import} \cup {ExternalRef[n] : n \in Nodes}

\* Entries that name no import: those the upgrade mapping resolves.
Bare == {Claim(kind, id) : kind \in Kinds, id \in Ids}

\* A set of entries a sidecar may hold.
Suits(E) == Bare \subseteq E /\ \A e \in E : e.kind \in Kinds /\ e.id \in Ids

Sidecars(E) == UNION {[D -> E] : D \in SUBSET Facts}
Architectures(E) ==
  [has : Shapes, source : [Nodes -> Sources], ends : [Edges -> Nodes \X Nodes], prov : Sidecars(E)]

\* Edges have their ends, every key names a fact the model holds, and only elements are imported.
Sound(a, E) ==
  /\ a \in Architectures(E) /\ a.ends \in EndsOf(a.has)
  /\ DOMAIN a.prov \subseteq a.has
  /\ \A k \in DOMAIN a.prov : k \in Members => a.prov[k].kind = "declared"

\* The keys of a sidecar are facts, its entries are of the set.
LEMMA SidecarParts ==
  ASSUME NEW E, NEW f, f = [k \in DOMAIN f |-> f[k]]
  PROVE  f \in Sidecars(E) <=> DOMAIN f \subseteq Facts /\ \A k \in DOMAIN f : f[k] \in E
<1>1. ASSUME f \in Sidecars(E) PROVE DOMAIN f \subseteq Facts /\ \A k \in DOMAIN f : f[k] \in E
  <2>1. PICK D \in SUBSET Facts : f \in [D -> E]
    BY <1>1 DEF Sidecars
  <2> QED BY <2>1
<1>2. ASSUME DOMAIN f \subseteq Facts, \A k \in DOMAIN f : f[k] \in E PROVE f \in Sidecars(E)
  <2>1. f \in [DOMAIN f -> E]
    BY <1>2
  <2> QED BY <1>2, <2>1 DEF Sidecars
<1> QED BY <1>1, <1>2

\* The parts of an architecture.
LEMMA ArchParts ==
  ASSUME NEW E, NEW a \in Architectures(E)
  PROVE  /\ a.has \in Shapes /\ a.has \subseteq Pointers /\ a.source \in [Nodes -> Sources]
         /\ a.ends \in [Edges -> Nodes \X Nodes]
         /\ a.prov = [k \in DOMAIN a.prov |-> a.prov[k]]
         /\ DOMAIN a.prov \subseteq Facts /\ DOMAIN a.prov \subseteq Pointers
         /\ \A k \in DOMAIN a.prov : a.prov[k] \in E
         /\ \A x : [a EXCEPT !.prov = x] = [has |-> a.has, source |-> a.source, ends |-> a.ends, prov |-> x]
         /\ \A x : [a EXCEPT !.source = x] = [has |-> a.has, source |-> x, ends |-> a.ends, prov |-> a.prov]
         /\ \A x : [a EXCEPT !.has = x] = [has |-> x, source |-> a.source, ends |-> a.ends, prov |-> a.prov]
<1>1. a.has \in Shapes /\ a.source \in [Nodes -> Sources] /\ a.ends \in [Edges -> Nodes \X Nodes] /\ a.prov \in Sidecars(E)
      /\ a = [has |-> a.has, source |-> a.source, ends |-> a.ends, prov |-> a.prov]
  BY DEF Architectures
<1>2. PICK D \in SUBSET Facts : a.prov \in [D -> E]
  BY <1>1 DEF Sidecars
<1>3. a.has \subseteq Pointers
  BY <1>1 DEF Shapes
<1>4. \A x : [a EXCEPT !.prov = x] = [has |-> a.has, source |-> a.source, ends |-> a.ends, prov |-> x]
  BY <1>1
<1>5. \A x : [a EXCEPT !.source = x] = [has |-> a.has, source |-> x, ends |-> a.ends, prov |-> a.prov]
  BY <1>1
<1>6. \A x : [a EXCEPT !.has = x] = [has |-> x, source |-> a.source, ends |-> a.ends, prov |-> a.prov]
  BY <1>1
<1> QED BY <1>1, <1>2, <1>3, <1>4, <1>5, <1>6 DEF Facts

\* What a model holds: elements of its members, members that name the ends of its edges.
LEMMA ShapeParts ==
  ASSUME NEW has \in Shapes
  PROVE  /\ has \subseteq Pointers
         /\ \A p \in has : ElementOf(p) \in has
         /\ \A e \in Edges : EdgeAt(e) \in has => EndAt(e, 1) \in has /\ EndAt(e, 2) \in has
<1>1. has \subseteq Pointers /\ \A p \in has : IsRoot(p) \/ ElementOf(p) \in has
  BY DEF Shapes
<1>2. \A p \in has : IsRoot(p) => ElementOf(p) = p
  BY <1>1, PointersAbove
<1> QED BY <1>1, <1>2 DEF Shapes

\* An edge's ends are nodes, and nodes the model holds where it holds the edge.
LEMMA EndsParts ==
  ASSUME NEW has, NEW ends \in EndsOf(has), NEW e \in Edges
  PROVE  /\ ends \in [Edges -> Nodes \X Nodes] /\ ends[e][1] \in Nodes /\ ends[e][2] \in Nodes
         /\ EdgeAt(e) \in has => NodeAt(ends[e][1]) \in has /\ NodeAt(ends[e][2]) \in has
         /\ EdgeAt(e) \notin has => ends[e] = Ends[e]
<1>1. ends \in [Edges -> Nodes \X Nodes]
      /\ IF EdgeAt(e) \in has THEN EndNodes(ends, e) \subseteq has ELSE ends[e] = Ends[e]
  BY DEF EndsOf
<1>2. ends[e] \in Nodes \X Nodes
  BY <1>1
<1> QED BY <1>1, <1>2 DEF EndNodes

-----------------------------------------------------------------------------
\* Kinds are ranked.
LEMMA Ranks ==
  /\ Rank("declared") = 1 /\ Rank("imported") = 2 /\ Rank("observed") = 3
  /\ \A x \in Kinds : Rank(x) \in 1..3
  /\ \A x, y \in Kinds : Rank(x) = Rank(y) => x = y
  /\ \A x \in Kinds : Rank(x) <= 1 => x = "declared"
  /\ \A x, y \in Kinds : Weaker(x, y) \in {x, y} /\ Rank(Weaker(x, y)) <= Rank(x) /\ Rank(Weaker(x, y)) <= Rank(y)
<1>1. ProvenanceKinds[1] = "declared" /\ ProvenanceKinds[2] = "imported" /\ ProvenanceKinds[3] = "observed"
  BY DEF ProvenanceKinds
<1>2. 1 \in 1..3 /\ 2 \in 1..3 /\ 3 \in 1..3 /\ \A i \in 1..3 : i = 1 \/ i = 2 \/ i = 3
  OBVIOUS
<1>3. Rank("declared") = 1
  BY <1>1, <1>2 DEF Rank
<1>4. Rank("imported") = 2
  BY <1>1, <1>2 DEF Rank
<1>5. Rank("observed") = 3
  BY <1>1, <1>2 DEF Rank
<1>6. \A x \in Kinds : Rank(x) \in 1..3
  BY <1>3, <1>4, <1>5 DEF Kinds
<1>7. \A x, y \in Kinds : Rank(x) = Rank(y) => x = y
  BY <1>3, <1>4, <1>5 DEF Kinds
<1>8. \A x \in Kinds : Rank(x) <= 1 => x = "declared"
  BY <1>3, <1>4, <1>5 DEF Kinds
<1>9. \A x, y \in Kinds : Weaker(x, y) \in {x, y} /\ Rank(Weaker(x, y)) <= Rank(x) /\ Rank(Weaker(x, y)) <= Rank(y)
  BY <1>6 DEF Weaker
<1> QED BY <1>3, <1>4, <1>5, <1>6, <1>7, <1>8, <1>9

\* The weaker of two kinds falls with both.
LEMMA WeakerFalls ==
  ASSUME NEW x \in Kinds, NEW y \in Kinds, NEW u \in Kinds, NEW v \in Kinds,
         Rank(u) <= Rank(x), Rank(v) <= Rank(y)
  PROVE  Rank(Weaker(u, v)) <= Rank(Weaker(x, y))
<1>1. Rank(x) \in 1..3 /\ Rank(y) \in 1..3 /\ Rank(u) \in 1..3 /\ Rank(v) \in 1..3
  BY Ranks
<1> QED BY <1>1 DEF Weaker

\* What governs a pointer without a stored entry: the upgrade mapping.
Unstored(a, p) ==
  IF p[1] = "nodes" /\ ElementOf(p) \in a.has THEN NodeEntry(a, p[2])
  ELSE IF p[1] = "edges" /\ ElementOf(p) \in a.has THEN EdgeEntry(a, p[2])
  ELSE Claim("declared", "")

\* The entry of a pointer, else its element's, else the upgrade mapping.
LEMMA Governs ==
  ASSUME NEW a, DOMAIN a.prov \subseteq Pointers, NEW p \in Pointers
  PROVE  /\ StoredAbove(a, p) = DOMAIN a.prov \cap {p, ElementOf(p)}
         /\ p \in DOMAIN a.prov => ProvenanceOf(a, p) = a.prov[p]
         /\ p \notin DOMAIN a.prov /\ ElementOf(p) \in DOMAIN a.prov
              => ProvenanceOf(a, p) = a.prov[ElementOf(p)]
         /\ p \notin DOMAIN a.prov /\ ElementOf(p) \notin DOMAIN a.prov
              => ProvenanceOf(a, p) = Unstored(a, p)
<1>1. StoredAbove(a, p) = DOMAIN a.prov \cap {p, ElementOf(p)}
  BY PointersAbove DEF StoredAbove
<1>2. Len(p) \in Nat /\ Len(ElementOf(p)) = 2 /\ Len(p) >= 2 /\ (Len(p) = 2 <=> ElementOf(p) = p)
  BY PointersAbove
<1>3. ASSUME p \in DOMAIN a.prov PROVE Deepest(StoredAbove(a, p)) = p
  <2>1. p \in StoredAbove(a, p) /\ \A j \in StoredAbove(a, p) : Len(j) <= Len(p)
    <3>1. p \in StoredAbove(a, p) /\ \A j \in StoredAbove(a, p) : j = p \/ j = ElementOf(p)
      BY <1>1, <1>3
    <3>2. Len(p) <= Len(p) /\ Len(ElementOf(p)) <= Len(p)
      BY <1>2
    <3> QED BY <3>1, <3>2
  <2>2. ASSUME NEW k \in StoredAbove(a, p), \A j \in StoredAbove(a, p) : Len(j) <= Len(k) PROVE k = p
    <3>1. Len(p) <= Len(k) /\ (k = p \/ k = ElementOf(p))
      BY <1>1, <2>1, <2>2
    <3>2. Len(p) <= Len(ElementOf(p)) => ElementOf(p) = p
      <4>1. PICK l \in Nat : l = Len(p)
        BY <1>2
      <4>2. l >= 2 /\ (l <= 2 => l = 2)
        BY <1>2, <4>1
      <4> QED BY <1>2, <4>1, <4>2
    <3> QED BY <3>1, <3>2
  <2> QED BY <2>1, <2>2 DEF Deepest
<1>4. ASSUME p \notin DOMAIN a.prov, ElementOf(p) \in DOMAIN a.prov
      PROVE  Deepest(StoredAbove(a, p)) = ElementOf(p)
  <2>1. StoredAbove(a, p) = {ElementOf(p)}
    BY <1>1, <1>4
  <2> QED BY <1>2, <2>1 DEF Deepest
<1> QED BY <1>1, <1>3, <1>4 DEF ProvenanceOf, Unstored

\* A node the model holds resolves to its entry, else to what its source maps to.
LEMMA NodeResolves ==
  ASSUME NEW a, DOMAIN a.prov \subseteq Pointers, NEW n \in Nodes, NodeAt(n) \in a.has
  PROVE  /\ NodeEntry(a, n) = ProvenanceOf(a, NodeAt(n))
         /\ NodeAt(n) \notin DOMAIN a.prov => ProvenanceOf(a, NodeAt(n)) = UpgradeEntry(n, a.source[n])
<1>1. NodeAt(n) \in Pointers /\ ElementOf(NodeAt(n)) = NodeAt(n)
      /\ NodeAt(n)[1] = "nodes" /\ NodeAt(n)[2] = n
  BY ElementPointers DEF Pointers
<1>2. CASE NodeAt(n) \in DOMAIN a.prov
  BY <1>1, <1>2, Governs DEF NodeEntry
<1>3. CASE NodeAt(n) \notin DOMAIN a.prov
  <2>1. ProvenanceOf(a, NodeAt(n)) = NodeEntry(a, n)
    BY <1>1, <1>3, Governs DEF Unstored
  <2> QED BY <1>3, <2>1 DEF NodeEntry
<1> QED BY <1>2, <1>3

\* An edge without an entry resolves to the weaker of its ends.
LEMMA EdgeResolves ==
  ASSUME NEW a, DOMAIN a.prov \subseteq Pointers, a.ends \in EndsOf(a.has),
         NEW e \in Edges, EdgeAt(e) \in a.has, EdgeAt(e) \notin DOMAIN a.prov
  PROVE  LET from == ProvenanceOf(a, NodeAt(a.ends[e][1]))
             to   == ProvenanceOf(a, NodeAt(a.ends[e][2]))
             weak == IF Weaker(from.kind, to.kind) = from.kind THEN from ELSE to
         IN  ProvenanceOf(a, EdgeAt(e)) = Claim(weak.kind, weak.id)
<1>1. EdgeAt(e) \in Pointers /\ ElementOf(EdgeAt(e)) = EdgeAt(e)
      /\ EdgeAt(e)[1] = "edges" /\ EdgeAt(e)[1] # "nodes" /\ EdgeAt(e)[2] = e
  BY ElementPointers DEF Pointers
<1>2. ProvenanceOf(a, EdgeAt(e)) = EdgeEntry(a, e)
  <2>1. ProvenanceOf(a, EdgeAt(e)) = Unstored(a, EdgeAt(e))
    BY <1>1, Governs
  <2>2. Unstored(a, EdgeAt(e)) = EdgeEntry(a, EdgeAt(e)[2])
    BY <1>1 DEF Unstored
  <2> QED BY <1>1, <2>1, <2>2
<1>3. PICK n \in Nodes, m \in Nodes : n = a.ends[e][1] /\ m = a.ends[e][2] /\ NodeAt(n) \in a.has /\ NodeAt(m) \in a.has
  BY EndsParts
<1>4. NodeEntry(a, n) = ProvenanceOf(a, NodeAt(n)) /\ NodeEntry(a, m) = ProvenanceOf(a, NodeAt(m))
  BY <1>3, NodeResolves
<1> QED BY <1>2, <1>3, <1>4 DEF EdgeEntry

\* A fact without an entry of its own resolves to what its element does; a root attribute is declared.
LEMMA MemberResolves ==
  ASSUME NEW a, DOMAIN a.prov \subseteq Pointers, NEW p \in Pointers, p \notin DOMAIN a.prov
  PROVE  /\ ~IsRoot(p) => ProvenanceOf(a, p) = ProvenanceOf(a, ElementOf(p))
         /\ IsRoot(p) => ProvenanceOf(a, p) = Claim("declared", "")
<1> DEFINE q == ElementOf(p)
<1>1. q \in Pointers /\ ElementOf(q) = q /\ q[1] = p[1] /\ q[2] = p[2]
  BY PointersAbove
<1>2. Unstored(a, p) = Unstored(a, q)
  BY <1>1 DEF Unstored
<1>3. ASSUME ~IsRoot(p) PROVE ProvenanceOf(a, p) = ProvenanceOf(a, q)
  <2>1. CASE q \in DOMAIN a.prov
    BY <1>1, <2>1, Governs
  <2>2. CASE q \notin DOMAIN a.prov
    BY <1>1, <1>2, <2>2, Governs
  <2> QED BY <2>1, <2>2
<1>4. ASSUME IsRoot(p) PROVE ProvenanceOf(a, p) = Claim("declared", "")
  <2>1. q = p /\ p[1] # "nodes" /\ p[1] # "edges"
    BY <1>4, PointersAbove, PointerCases
  <2> QED BY <2>1, Governs DEF Unstored
<1> QED BY <1>3, <1>4

\* An entry that names no import has its kind and identifier.
LEMMA ClaimFields ==
  ASSUME NEW kind, NEW id
  PROVE  Claim(kind, id).kind = kind /\ Claim(kind, id).id = id /\ Claim(kind, id).seen = 0
BY DEF Claim

\* A claim that names no import is an entry.
LEMMA BareClaims ==
  ASSUME NEW kind \in Kinds, NEW id \in Ids
  PROVE  /\ Claim(kind, id) \in Bare /\ Claim(kind, id).kind = kind
         /\ Claim(kind, id).id = id /\ Claim(kind, id).seen = 0
<1>1. Claim(kind, id) \in Bare
  BY DEF Bare
<1> QED BY <1>1, ClaimFields

\* The upgrade mapping is a matter of the nodes.
LEMMA UnstoredByNodes ==
  ASSUME NEW a, NEW b, b.has = a.has, b.ends = a.ends, a.ends \in EndsOf(a.has),
         \A n \in Nodes : NodeEntry(b, n) = NodeEntry(a, n), NEW p \in Pointers
  PROVE  Unstored(b, p) = Unstored(a, p)
<1>1. p[1] = "nodes" => p[2] \in Nodes
  BY PointerCases
<1>2. p[1] = "edges" /\ p[1] # "nodes" => p[2] \in Edges /\ a.ends[p[2]][1] \in Nodes /\ a.ends[p[2]][2] \in Nodes
  BY PointerCases, EndsParts
<1>3. p[1] = "edges" /\ p[1] # "nodes" => EdgeEntry(b, p[2]) = EdgeEntry(a, p[2])
  BY <1>2 DEF EdgeEntry
<1>4. CASE p[1] = "nodes" /\ ElementOf(p) \in a.has
  BY <1>1, <1>4 DEF Unstored
<1>5. CASE p[1] = "edges" /\ p[1] # "nodes" /\ ElementOf(p) \in a.has
  BY <1>3, <1>5 DEF Unstored
<1>6. CASE ~(p[1] = "nodes" /\ ElementOf(p) \in a.has) /\ ~(p[1] = "edges" /\ ElementOf(p) \in a.has)
  BY <1>6 DEF Unstored
<1> QED BY <1>4, <1>5, <1>6

\* An entry of the upgrade mapping has the kind of the source, and names no import.
LEMMA UpgradeIsBare ==
  ASSUME NEW n \in Nodes, NEW s \in Sources
  PROVE  /\ SourceToKind[s] \in Kinds /\ UpgradeEntry(n, s).kind = SourceToKind[s]
         /\ UpgradeEntry(n, s) \in Bare /\ UpgradeEntry(n, s).seen = 0
<1>1. SourceToKind[s] \in Kinds
  BY DEF Sources, SourceToKind, Kinds
<1> DEFINE id == IF SourceToKind[s] # "imported" THEN ""
                 ELSE IF ExternalRef[n] # "" THEN ExternalRef[n] ELSE PreV11Import
<1>2. id \in Ids
  BY DEF Ids
<1>3. UpgradeEntry(n, s) = Claim(SourceToKind[s], id)
  BY DEF UpgradeEntry
<1> HIDE DEF id
<1> QED BY <1>1, <1>2, <1>3, BareClaims

\* Whatever resolves is an entry, of the kinds there are.
LEMMA ResolvesToEntry ==
  ASSUME NEW E, Suits(E), NEW a, Sound(a, E), NEW p \in Pointers
  PROVE  ProvenanceOf(a, p) \in E /\ KindOf(a, p) \in Kinds /\ ProvenanceOf(a, p).id \in Ids
<1>1. /\ DOMAIN a.prov \subseteq Pointers /\ a.has \in Shapes /\ a.source \in [Nodes -> Sources]
      /\ \A k \in DOMAIN a.prov : a.prov[k] \in E
  BY ArchParts DEF Sound
<1>2. ASSUME NEW n \in Nodes, NodeAt(n) \in a.has PROVE ProvenanceOf(a, NodeAt(n)) \in E
  <2>1. CASE NodeAt(n) \in DOMAIN a.prov
    BY <1>1, <2>1, ElementPointers, Governs DEF Pointers
  <2>2. CASE NodeAt(n) \notin DOMAIN a.prov
    <3>1. ProvenanceOf(a, NodeAt(n)) = UpgradeEntry(n, a.source[n]) /\ a.source[n] \in Sources
      BY <1>1, <1>2, <2>2, NodeResolves
    <3> QED BY <3>1, UpgradeIsBare DEF Suits
  <2> QED BY <2>1, <2>2
<1>3. ASSUME NEW e \in Edges, EdgeAt(e) \in a.has PROVE ProvenanceOf(a, EdgeAt(e)) \in E
  <2>1. CASE EdgeAt(e) \in DOMAIN a.prov
    BY <1>1, <2>1, ElementPointers, Governs DEF Pointers
  <2>2. CASE EdgeAt(e) \notin DOMAIN a.prov
    <3>1. ProvenanceOf(a, NodeAt(a.ends[e][1])) \in E /\ ProvenanceOf(a, NodeAt(a.ends[e][2])) \in E
      BY <1>1, <1>2, <1>3, EndsParts DEF Sound
    <3>2. \A w \in E : Claim(w.kind, w.id) \in E
      BY BareClaims DEF Suits
    <3> QED BY <1>1, <1>3, <2>2, <3>1, <3>2, EdgeResolves DEF Sound
  <2> QED BY <2>1, <2>2
<1>4. Claim("declared", "") \in E
  <2>1. "declared" \in Kinds /\ "" \in Ids
    BY DEF Kinds, Ids
  <2> QED BY <2>1, BareClaims DEF Suits
<1>5. ASSUME NEW q \in Elements PROVE ProvenanceOf(a, q) \in E
  <2>1. q \in Pointers /\ ElementOf(q) = q
    BY <1>5, ElementPointers DEF Pointers
  <2>2. CASE q \in a.has
    BY <1>2, <1>3, <1>5, <2>2 DEF Elements
  <2>3. CASE q \notin a.has
    <3>1. q \notin DOMAIN a.prov
      BY <2>3 DEF Sound
    <3>2. ProvenanceOf(a, q) = Unstored(a, q)
      BY <1>1, <2>1, <3>1, Governs
    <3>3. Unstored(a, q) = Claim("declared", "")
      BY <2>1, <2>3 DEF Unstored
    <3> QED BY <1>4, <3>2, <3>3
  <2> QED BY <2>2, <2>3
<1>6. ProvenanceOf(a, p) \in E
  <2>1. CASE p \in DOMAIN a.prov
    BY <1>1, <2>1, Governs
  <2>2. CASE p \notin DOMAIN a.prov /\ IsRoot(p)
    BY <1>1, <1>4, <2>2, MemberResolves
  <2>3. CASE p \notin DOMAIN a.prov /\ ~IsRoot(p)
    <3>1. ElementOf(p) \in Elements
      BY <2>3, PointerCases, ElementPointers
    <3> QED BY <1>1, <1>5, <2>3, <3>1, MemberResolves
  <2> QED BY <2>1, <2>2, <2>3
<1> QED BY <1>6 DEF Suits, KindOf

\* Where the ends stay, no fact follows new ones.
LEMMA SameEnds ==
  ASSUME NEW a, NEW b, b.ends = a.ends
  PROVE  \A p : ~FollowsNewEnds(a, b, p)
BY DEF FollowsNewEnds

\* If the nodes resolve no stronger and every other fact with an entry resolves as before or
\* declared, nothing resolves stronger that does not follow new ends.
LEMMA NothingRises ==
  ASSUME NEW E, Suits(E), NEW a, Sound(a, E), NEW b, Sound(b, E),
         \A n \in Nodes : NodeAt(n) \in a.has \cap b.has
            => Rank(KindOf(b, NodeAt(n))) <= Rank(KindOf(a, NodeAt(n))),
         \A p \in a.has \cap b.has : (\A n \in Nodes : p # NodeAt(n)) =>
            \/ KindOf(b, p) = "declared" \/ KindOf(b, p) = KindOf(a, p)
            \/ p \notin DOMAIN a.prov /\ p \notin DOMAIN b.prov
  PROVE  \A p \in a.has \cap b.has : ~FollowsNewEnds(a, b, p) => Rank(KindOf(b, p)) <= Rank(KindOf(a, p))
<1>1. /\ DOMAIN a.prov \subseteq Pointers /\ a.has \in Shapes /\ a.has \subseteq Pointers
      /\ DOMAIN b.prov \subseteq Pointers /\ b.has \in Shapes /\ b.has \subseteq Pointers
  BY ArchParts DEF Sound
<1>2. \A p \in Pointers : KindOf(a, p) \in Kinds /\ KindOf(b, p) \in Kinds
  BY ResolvesToEntry
<1>3. \A p \in Pointers : KindOf(b, p) = "declared" \/ KindOf(b, p) = KindOf(a, p)
                            => Rank(KindOf(b, p)) <= Rank(KindOf(a, p))
  BY <1>2, Ranks
<1>4. ASSUME NEW e \in Edges, EdgeAt(e) \in a.has \cap b.has, ~FollowsNewEnds(a, b, EdgeAt(e))
      PROVE  Rank(KindOf(b, EdgeAt(e))) <= Rank(KindOf(a, EdgeAt(e)))
  <2>1. EdgeAt(e) \in Pointers /\ \A n \in Nodes : EdgeAt(e) # NodeAt(n)
    BY <1>1, <1>4, ElementPointers
  <2>2. CASE EdgeAt(e) \notin DOMAIN a.prov /\ EdgeAt(e) \notin DOMAIN b.prov
    <3>0. b.ends[e] = a.ends[e]
      <4>1. StoredAbove(b, EdgeAt(e)) = {}
        BY <1>1, <2>1, <2>2, ElementPointers, Governs
      <4> QED BY <1>4, <4>1, ElementPointers DEF FollowsNewEnds
    <3> DEFINE p == NodeAt(a.ends[e][1])  q == NodeAt(a.ends[e][2])
    <3>1. p \in a.has \cap b.has /\ q \in a.has \cap b.has /\ a.ends[e][1] \in Nodes /\ a.ends[e][2] \in Nodes
      BY <1>4, <3>0, EndsParts DEF Sound
    <3>2. Rank(KindOf(b, p)) <= Rank(KindOf(a, p)) /\ Rank(KindOf(b, q)) <= Rank(KindOf(a, q))
      BY <3>1
    <3>3. p \in Pointers /\ q \in Pointers
      BY <1>1, <3>1
    <3> HIDE DEF p, q
    <3>4. KindOf(a, EdgeAt(e)) = Weaker(KindOf(a, p), KindOf(a, q))
      <4>1. Weaker(KindOf(a, p), KindOf(a, q)) \in {KindOf(a, p), KindOf(a, q)}
        BY <1>2, <3>3, Ranks
      <4>2. LET weak == IF Weaker(KindOf(a, p), KindOf(a, q)) = KindOf(a, p) THEN ProvenanceOf(a, p) ELSE ProvenanceOf(a, q)
            IN  ProvenanceOf(a, EdgeAt(e)) = Claim(weak.kind, weak.id)
        BY <1>1, <1>4, <2>2, <3>0, EdgeResolves DEF KindOf, p, q, Sound
      <4> QED BY <4>1, <4>2, ClaimFields DEF KindOf
    <3>5. KindOf(b, EdgeAt(e)) = Weaker(KindOf(b, p), KindOf(b, q))
      <4>1. Weaker(KindOf(b, p), KindOf(b, q)) \in {KindOf(b, p), KindOf(b, q)}
        BY <1>2, <3>3, Ranks
      <4>2. LET weak == IF Weaker(KindOf(b, p), KindOf(b, q)) = KindOf(b, p) THEN ProvenanceOf(b, p) ELSE ProvenanceOf(b, q)
            IN  ProvenanceOf(b, EdgeAt(e)) = Claim(weak.kind, weak.id)
        BY <1>1, <1>4, <2>2, <3>0, EdgeResolves DEF KindOf, p, q, Sound
      <4> QED BY <4>1, <4>2, ClaimFields DEF KindOf
    <3> QED BY <1>2, <3>2, <3>3, <3>4, <3>5, WeakerFalls
  <2> QED BY <1>3, <1>4, <2>1, <2>2
<1>5. ASSUME NEW p \in Elements, p \in a.has \cap b.has, ~FollowsNewEnds(a, b, p)
      PROVE  Rank(KindOf(b, p)) <= Rank(KindOf(a, p))
  BY <1>4, <1>5 DEF Elements
<1>6. ASSUME NEW p \in a.has \cap b.has, ~FollowsNewEnds(a, b, p)
      PROVE  Rank(KindOf(b, p)) <= Rank(KindOf(a, p))
  <2>1. p \in Pointers
    BY <1>1
  <2>2. CASE p \in Elements
    BY <1>5, <1>6, <2>2
  <2>3. CASE p \notin Elements /\ (p \in DOMAIN a.prov \/ p \in DOMAIN b.prov)
    <3>1. \A n \in Nodes : p # NodeAt(n)
      BY <2>3, ElementPointers
    <3> QED BY <1>3, <2>1, <2>3, <3>1
  <2>4. CASE p \notin Elements /\ p \notin DOMAIN a.prov /\ p \notin DOMAIN b.prov
    <3>1. CASE IsRoot(p)
      <4>1. KindOf(b, p) = "declared"
        <5>1. ProvenanceOf(b, p) = Claim("declared", "")
          BY <1>1, <2>1, <2>4, <3>1, MemberResolves
        <5>2. Claim("declared", "").kind = "declared"
          BY ClaimFields
        <5> QED BY <5>1, <5>2 DEF KindOf
      <4> QED BY <1>3, <2>1, <4>1
    <3>2. CASE ~IsRoot(p)
      <4>1. KindOf(a, p) = KindOf(a, ElementOf(p)) /\ KindOf(b, p) = KindOf(b, ElementOf(p))
        BY <1>1, <2>1, <2>4, <3>2, MemberResolves DEF KindOf
      <4>2. ElementOf(p) \in Elements /\ ElementOf(p) \in a.has \cap b.has
        BY <1>1, <2>1, <3>2, PointerCases, ElementPointers, ShapeParts
      <4>3. ~FollowsNewEnds(a, b, ElementOf(p))
        <5>1. StoredAbove(b, p) = StoredAbove(b, ElementOf(p))
          <6>1. StoredAbove(b, p) = DOMAIN b.prov \cap {p, ElementOf(p)}
            BY <1>1, <2>1, Governs
          <6>2. StoredAbove(b, ElementOf(p)) = DOMAIN b.prov \cap {ElementOf(p)}
            BY <1>1, <2>1, PointersAbove, Governs
          <6> QED BY <2>4, <6>1, <6>2
        <5> QED BY <1>6, <2>1, <5>1, PointersAbove DEF FollowsNewEnds
      <4> QED BY <1>5, <4>1, <4>2, <4>3
    <3> QED BY <3>1, <3>2
  <2> QED BY <2>2, <2>3, <2>4
<1> QED BY <1>6

-----------------------------------------------------------------------------
\* Compaction.

\* c says of the same model no more than a: what it stores a stored, or it is declared for an
\* element as a whole.
Understates(a, c) ==
  /\ c.has = a.has /\ c.source = a.source /\ c.ends = a.ends
  /\ DOMAIN a.prov \cap Elements \subseteq DOMAIN c.prov
  /\ \A k \in DOMAIN c.prov : \/ k \in DOMAIN a.prov /\ c.prov[k] = a.prov[k]
                              \/ k \in Elements /\ c.prov[k].kind = "declared"
  /\ \A p \in a.has : Rank(KindOf(c, p)) <= Rank(KindOf(a, p))

\* Understating goes on from one save to the next.
LEMMA UnderstatesTwice ==
  ASSUME NEW E, Suits(E), NEW a, Sound(a, E), NEW b, Sound(b, E), NEW c, Sound(c, E),
         Understates(a, b), Understates(b, c)
  PROVE  Understates(a, c)
<1>1. c.has = a.has /\ c.source = a.source /\ c.ends = a.ends /\ DOMAIN a.prov \cap Elements \subseteq DOMAIN c.prov
  BY DEF Understates
<1>2. ASSUME NEW k \in DOMAIN c.prov
      PROVE  \/ k \in DOMAIN a.prov /\ c.prov[k] = a.prov[k]
             \/ k \in Elements /\ c.prov[k].kind = "declared"
  BY <1>2 DEF Understates
<1>3. ASSUME NEW p \in a.has PROVE Rank(KindOf(c, p)) <= Rank(KindOf(a, p))
  <2>1. p \in Pointers /\ p \in b.has
    BY ArchParts DEF Sound, Understates
  <2>2. Rank(KindOf(a, p)) \in 1..3 /\ Rank(KindOf(b, p)) \in 1..3 /\ Rank(KindOf(c, p)) \in 1..3
    BY <2>1, ResolvesToEntry, Ranks
  <2> QED BY <2>1, <2>2 DEF Understates
<1> QED BY <1>1, <1>2, <1>3 DEF Understates

\* The entry of an architecture whose sidecar is replaced by one of the same kind.
LEMMA SoundWith ==
  ASSUME NEW E, NEW a, Sound(a, E), NEW f, f = [k \in DOMAIN f |-> f[k]],
         DOMAIN f \subseteq Facts \cap a.has, \A k \in DOMAIN f : f[k] \in E,
         \A k \in DOMAIN f : k \in Members => f[k].kind = "declared",
         NEW b, b = [has |-> a.has, source |-> a.source, ends |-> a.ends, prov |-> f]
  PROVE  Sound(b, E) /\ b.has = a.has /\ b.source = a.source /\ b.ends = a.ends /\ b.prov = f
<1>1. b.has = a.has /\ b.source = a.source /\ b.ends = a.ends /\ b.prov = f
  OBVIOUS
<1>2. f \in Sidecars(E)
  BY SidecarParts
<1>3. a.has \in Shapes /\ a.source \in [Nodes -> Sources] /\ a.ends \in [Edges -> Nodes \X Nodes]
  BY ArchParts DEF Sound
<1>4. b \in Architectures(E)
  BY <1>2, <1>3 DEF Architectures
<1> QED BY <1>1, <1>4 DEF Sound

\* Without removes entries and leaves the others.
LEMMA WithoutParts ==
  ASSUME NEW f, NEW gone
  PROVE  /\ DOMAIN Without(f, gone) = DOMAIN f \ gone
         /\ \A j \in DOMAIN Without(f, gone) : Without(f, gone)[j] = f[j]
         /\ Without(f, gone) = [j \in DOMAIN Without(f, gone) |-> Without(f, gone)[j]]
BY DEF Without

\* Put writes one entry and leaves the others.
LEMMA PutDomain ==
  ASSUME NEW f, NEW k, NEW v
  PROVE  DOMAIN Put(f, k, v) = DOMAIN f \cup {k}
BY DEF Put

\* An entry put at a key is there.
LEMMA PutAt ==
  ASSUME NEW f, NEW k, NEW v
  PROVE  Put(f, k, v)[k] = v
BY DEF Put

\* The other entries stay.
LEMMA PutElsewhere ==
  ASSUME NEW f, NEW k, NEW v
  PROVE  \A j \in DOMAIN f \ {k} : Put(f, k, v)[j] = f[j]
BY DEF Put

\* An entry is redundant only below an element that makes the same claim.
LEMMA RedundantBelow ==
  ASSUME NEW f, DOMAIN f \subseteq Pointers, NEW k \in DOMAIN f, Redundant(f, k)
  PROVE  ElementOf(k) # k /\ ElementOf(k) \in DOMAIN f /\ f[ElementOf(k)] = f[k] /\ ~IsRoot(k)
<1> DEFINE above == {j \in DOMAIN f : j # k /\ Under(k, j)}
<1>1. above # {} /\ f[Deepest(above)] = f[k]
  BY DEF Redundant
<1>2. \A j \in above : j = ElementOf(k) /\ j # k
  BY PointersAbove
<1>3. above = {ElementOf(k)} /\ ElementOf(k) # k /\ ElementOf(k) \in DOMAIN f
  <2>1. PICK j \in above : TRUE
    BY <1>1
  <2>2. j = ElementOf(k) /\ j # k /\ j \in DOMAIN f
    BY <1>2, <2>1
  <2> QED BY <1>2, <2>2
<1>4. Deepest(above) = ElementOf(k)
  <2>1. Len(ElementOf(k)) = 2
    BY PointersAbove
  <2> QED BY <1>3, <2>1 DEF Deepest
<1> QED BY <1>1, <1>3, <1>4, PointersAbove

\* The first pass changes what nothing resolves to.
LEMMA ThinnedKeeps ==
  ASSUME NEW E, Suits(E), NEW a, Sound(a, E)
  PROVE  /\ Sound(Thinned(a), E) /\ Understates(a, Thinned(a))
         /\ \A p \in Pointers : ProvenanceOf(Thinned(a), p) = ProvenanceOf(a, p)
<1> DEFINE gone == {k \in DOMAIN a.prov : Redundant(a.prov, k)}
           f == Without(a.prov, gone)
           t == Thinned(a)
<1>1. DOMAIN a.prov \subseteq Pointers /\ DOMAIN a.prov \subseteq Facts /\ DOMAIN a.prov \subseteq a.has
      /\ (\A k \in DOMAIN a.prov : a.prov[k] \in E) /\ a.has \in Shapes /\ a.has \subseteq Pointers
  BY ArchParts DEF Sound
<1>2. \A k \in gone : ElementOf(k) # k /\ ElementOf(k) \in DOMAIN a.prov /\ a.prov[ElementOf(k)] = a.prov[k]
  BY <1>1, RedundantBelow
<1>3. t = [has |-> a.has, source |-> a.source, ends |-> a.ends, prov |-> f]
  BY ArchParts DEF Thinned, Sound
<1>4. DOMAIN f = DOMAIN a.prov \ gone /\ (\A j \in DOMAIN f : f[j] = a.prov[j]) /\ f = [j \in DOMAIN f |-> f[j]]
  BY WithoutParts
<1> HIDE DEF gone, f, t
<1>5. Sound(t, E) /\ t.has = a.has /\ t.source = a.source /\ t.ends = a.ends /\ t.prov = f
  <2>1. DOMAIN f \subseteq Facts \cap a.has /\ (\A k \in DOMAIN f : f[k] \in E)
        /\ \A k \in DOMAIN f : k \in Members => f[k].kind = "declared"
    BY <1>1, <1>4 DEF Sound
  <2> QED BY <1>3, <1>4, <2>1, SoundWith
<1>6. \A q \in Pointers : ElementOf(q) = q => (q \in DOMAIN f <=> q \in DOMAIN a.prov)
  BY <1>2, <1>4
<1>7. \A n \in Nodes : NodeEntry(t, n) = NodeEntry(a, n)
  <2>1. \A n \in Nodes : NodeAt(n) \in Pointers /\ ElementOf(NodeAt(n)) = NodeAt(n)
    BY ElementPointers DEF Pointers
  <2> QED BY <1>4, <1>5, <1>6, <2>1 DEF NodeEntry
<1>8. ASSUME NEW p \in Pointers PROVE ProvenanceOf(t, p) = ProvenanceOf(a, p)
  <2>1. DOMAIN t.prov \subseteq Pointers
    BY <1>1, <1>4, <1>5
  <2>2. CASE p \in DOMAIN f
    <3>1. p \in DOMAIN a.prov /\ f[p] = a.prov[p]
      BY <1>4, <2>2
    <3> QED BY <1>1, <1>5, <2>1, <2>2, <3>1, Governs
  <2>3. CASE p \in DOMAIN a.prov /\ p \notin DOMAIN f
    <3>1. p \in gone
      BY <1>4, <2>3
    <3>2. ElementOf(p) \in DOMAIN a.prov /\ a.prov[ElementOf(p)] = a.prov[p]
          /\ ElementOf(ElementOf(p)) = ElementOf(p) /\ ElementOf(p) \in Pointers
      BY <1>1, <1>2, <3>1, PointersAbove
    <3>3. ElementOf(p) \in DOMAIN f /\ f[ElementOf(p)] = a.prov[p]
      BY <1>4, <1>6, <3>2
    <3>4. ProvenanceOf(t, p) = f[ElementOf(p)]
      BY <1>5, <2>1, <2>3, <3>3, Governs
    <3>5. ProvenanceOf(a, p) = a.prov[p]
      BY <1>1, <2>3, Governs
    <3> QED BY <3>3, <3>4, <3>5
  <2>4. CASE p \notin DOMAIN a.prov /\ ElementOf(p) \in DOMAIN a.prov
    <3>1. ElementOf(ElementOf(p)) = ElementOf(p) /\ ElementOf(p) \in Pointers
      BY PointersAbove
    <3>2. p \notin DOMAIN f /\ ElementOf(p) \in DOMAIN f /\ f[ElementOf(p)] = a.prov[ElementOf(p)]
      BY <1>4, <1>6, <2>4, <3>1
    <3>3. ProvenanceOf(t, p) = f[ElementOf(p)]
      BY <1>5, <2>1, <3>2, Governs
    <3>4. ProvenanceOf(a, p) = a.prov[ElementOf(p)]
      BY <1>1, <2>4, Governs
    <3> QED BY <3>2, <3>3, <3>4
  <2>5. CASE p \notin DOMAIN a.prov /\ ElementOf(p) \notin DOMAIN a.prov
    <3>1. p \notin DOMAIN f /\ ElementOf(p) \notin DOMAIN f
      BY <1>4, <2>5
    <3>2. ProvenanceOf(t, p) = Unstored(t, p) /\ ProvenanceOf(a, p) = Unstored(a, p)
      BY <1>1, <1>5, <2>1, <2>5, <3>1, Governs
    <3>6. Unstored(t, p) = Unstored(a, p)
      <4>1. a.ends \in EndsOf(a.has)
        BY DEF Sound
      <4> QED BY <1>5, <1>7, <4>1, UnstoredByNodes
    <3> QED BY <3>2, <3>6
  <2> QED BY <2>2, <2>3, <2>4, <2>5
<1>9. Understates(a, t)
  <2>1. DOMAIN a.prov \cap Elements \subseteq DOMAIN t.prov
    BY <1>5, <1>6, ElementPointers DEF Pointers
  <2>2. \A k \in DOMAIN t.prov : k \in DOMAIN a.prov /\ t.prov[k] = a.prov[k]
    BY <1>4, <1>5
  <2>3. ASSUME NEW p \in a.has PROVE Rank(KindOf(t, p)) <= Rank(KindOf(a, p))
    <3>1. KindOf(t, p) = KindOf(a, p) /\ KindOf(a, p) \in Kinds
      BY <1>1, <1>8, ResolvesToEntry DEF KindOf
    <3>2. Rank(KindOf(a, p)) \in 1..3
      BY <3>1, Ranks
    <3> QED BY <3>1, <3>2
  <2> QED BY <1>5, <2>1, <2>2, <2>3 DEF Understates
<1> QED BY <1>5, <1>8, <1>9 DEF t

\* A sidecar understates itself.
LEMMA UnderstatesItself ==
  ASSUME NEW E, Suits(E), NEW a, Sound(a, E)
  PROVE  Understates(a, a)
<1>1. \A p \in a.has : Rank(KindOf(a, p)) \in 1..3
  BY ArchParts, ResolvesToEntry, Ranks DEF Sound
<1>2. \A p \in a.has : Rank(KindOf(a, p)) <= Rank(KindOf(a, p))
  BY <1>1
<1> QED BY <1>2 DEF Understates

\* Facts are the elements and the members that are no layout.
LEMMA FactCases ==
  /\ Elements \subseteq Facts /\ Facts \subseteq Pointers
  /\ \A p \in Facts : p \in Elements \/ p \in Members
BY PointerAssumption DEF Facts, Pointers

\* A stored node whose entry stays resolves as before; so does a node that has none.
LEMMA NodeStays ==
  ASSUME NEW E, NEW a, Sound(a, E), NEW b, Sound(b, E), b.has = a.has, b.source = a.source,
         NEW n \in Nodes, NodeAt(n) \in a.has,
         \/ NodeAt(n) \notin DOMAIN a.prov /\ NodeAt(n) \notin DOMAIN b.prov
         \/ /\ NodeAt(n) \in DOMAIN a.prov /\ NodeAt(n) \in DOMAIN b.prov
            /\ b.prov[NodeAt(n)].kind = a.prov[NodeAt(n)].kind
  PROVE  KindOf(b, NodeAt(n)) = KindOf(a, NodeAt(n))
<1>1. DOMAIN a.prov \subseteq Pointers /\ DOMAIN b.prov \subseteq Pointers /\ NodeAt(n) \in Pointers
  BY ArchParts DEF Sound
<1>2. CASE NodeAt(n) \notin DOMAIN a.prov /\ NodeAt(n) \notin DOMAIN b.prov
  BY <1>1, <1>2, NodeResolves DEF KindOf
<1>3. CASE /\ NodeAt(n) \in DOMAIN a.prov /\ NodeAt(n) \in DOMAIN b.prov
           /\ b.prov[NodeAt(n)].kind = a.prov[NodeAt(n)].kind
  BY <1>1, <1>3, Governs DEF KindOf
<1> QED BY <1>2, <1>3

\* One step of the second pass: the element becomes declared with its member.
LEMMA FoldKeyStep ==
  ASSUME NEW E, Suits(E), NEW b, Sound(b, E), NEW k \in Facts
  PROVE  /\ Sound(FoldKey(b, k), E) /\ Understates(b, FoldKey(b, k))
         /\ k \in DOMAIN FoldKey(b, k).prov => Len(k) = 2
<1> DEFINE e == ElementOf(k)
           cur == ProvenanceOf(b, e)
           kept == IF Rank(b.prov[k].kind) < Rank(cur.kind) THEN b.prov[k] ELSE cur
           g == Put(b.prov, e, kept)
           f == Without(g, {k})
           c == FoldKey(b, k)
<1>1. /\ k \in Pointers /\ Len(k) \in Nat /\ Len(k) >= 2 /\ (Len(k) = 2 <=> e = k) /\ (IsRoot(k) => e = k)
      /\ e \in Pointers /\ ElementOf(e) = e
  BY FactCases, PointersAbove
<1>2. /\ DOMAIN b.prov \subseteq Pointers /\ DOMAIN b.prov \subseteq Facts /\ DOMAIN b.prov \subseteq b.has
      /\ (\A j \in DOMAIN b.prov : b.prov[j] \in E) /\ b.has \in Shapes /\ b.has \subseteq Pointers
      /\ \A j \in DOMAIN b.prov : j \in Members => b.prov[j].kind = "declared"
  BY ArchParts DEF Sound
<1>3. CASE k \notin DOMAIN b.prov \/ Len(k) <= 2 \/ IsRoot(k)
  <2>1. c = b
    BY <1>3 DEF FoldKey
  <2>2. k \in DOMAIN b.prov => Len(k) = 2
    <3>1. PICK l \in Nat : l = Len(k)
      BY <1>1
    <3>2. l >= 2 /\ (l <= 2 => l = 2)
      BY <1>1, <3>1
    <3> QED BY <1>1, <1>3, <3>1, <3>2
  <2> QED BY <2>1, <2>2, UnderstatesItself
<1>4. CASE ~(k \notin DOMAIN b.prov \/ Len(k) <= 2 \/ IsRoot(k))
  <2>1. k \in DOMAIN b.prov /\ e # k /\ ~IsRoot(k) /\ k \in b.has
    <3>1. Len(k) # 2
      BY <1>1, <1>4
    <3> QED BY <1>1, <1>2, <1>4, <3>1
  <2>2. k \in Members /\ b.prov[k].kind = "declared" /\ b.prov[k] \in E
    <3>1. k \notin Elements
      BY <2>1, ElementPointers
    <3> QED BY <1>2, <2>1, <3>1, FactCases
  <2>3. e \in Elements /\ e \in Facts /\ e \in b.has
    <3>1. e \in Elements
      BY <1>1, <2>1, PointerCases, ElementPointers
    <3> QED BY <1>2, <2>1, <3>1, FactCases, ShapeParts
  <2>4. cur \in E /\ cur.kind \in Kinds
    BY <1>1, ResolvesToEntry DEF KindOf
  <2>5. kept \in E /\ kept.kind = "declared"
    <3>1. CASE Rank(b.prov[k].kind) < Rank(cur.kind)
      BY <2>2, <3>1
    <3>2. CASE ~(Rank(b.prov[k].kind) < Rank(cur.kind))
      <4>1. Rank(cur.kind) \in 1..3 /\ Rank(b.prov[k].kind) = 1
        BY <2>2, <2>4, Ranks
      <4>2. Rank(cur.kind) <= 1
        BY <3>2, <4>1
      <4>3. cur.kind = "declared"
        BY <2>4, <4>2, Ranks
      <4> QED BY <2>4, <3>2, <4>3
    <3> QED BY <3>1, <3>2
  <2>6. c = [has |-> b.has, source |-> b.source, ends |-> b.ends, prov |-> f]
    <3>1. c = [b EXCEPT !.prov = f]
      BY <1>4 DEF FoldKey
    <3> QED BY <3>1, ArchParts DEF Sound
  <2> HIDE DEF cur, kept, e
  <2>7. DOMAIN g = DOMAIN b.prov \cup {e} /\ g[e] = kept /\ \A j \in DOMAIN b.prov \ {e} : g[j] = b.prov[j]
    <3>1. DOMAIN g = DOMAIN b.prov \cup {e}
      BY PutDomain
    <3>2. g[e] = kept
      BY PutAt
    <3>3. \A j \in DOMAIN b.prov \ {e} : g[j] = b.prov[j]
      BY PutElsewhere
    <3> QED BY <3>1, <3>2, <3>3
  <2> HIDE DEF g
  <2>8. DOMAIN f = DOMAIN g \ {k} /\ (\A j \in DOMAIN f : f[j] = g[j]) /\ f = [j \in DOMAIN f |-> f[j]]
    BY WithoutParts
  <2> HIDE DEF f, c
  <2>9. /\ DOMAIN f = (DOMAIN b.prov \cup {e}) \ {k} /\ e \in DOMAIN f /\ f[e] = kept
        /\ \A j \in DOMAIN f : j # e => j \in DOMAIN b.prov /\ f[j] = b.prov[j]
    BY <2>1, <2>7, <2>8
  <2>10. Sound(c, E) /\ c.has = b.has /\ c.source = b.source /\ c.ends = b.ends /\ c.prov = f
    <3>1. DOMAIN f \subseteq Facts \cap b.has
      BY <1>2, <2>3, <2>9
    <3>2. \A j \in DOMAIN f : f[j] \in E
      BY <1>2, <2>5, <2>9
    <3>3. \A j \in DOMAIN f : j \in Members => f[j].kind = "declared"
      BY <1>2, <2>5, <2>9
    <3> QED BY <2>6, <2>8, <3>1, <3>2, <3>3, SoundWith
  <2>11. DOMAIN c.prov \subseteq Pointers
    BY <2>10, ArchParts DEF Sound
  <2>12. KindOf(c, e) = "declared"
    BY <1>1, <2>5, <2>9, <2>10, <2>11, Governs DEF KindOf
  <2>13. ASSUME NEW n \in Nodes, NodeAt(n) \in b.has
         PROVE  Rank(KindOf(c, NodeAt(n))) <= Rank(KindOf(b, NodeAt(n)))
    <3>1. NodeAt(n) \in Pointers /\ NodeAt(n) # k
      BY <1>2, <2>2, <2>13, ElementPointers
    <3>2. Rank(KindOf(b, NodeAt(n))) \in 1..3
      BY <3>1, ResolvesToEntry, Ranks
    <3>3. CASE NodeAt(n) = e
      BY <2>12, <3>2, <3>3, Ranks
    <3>4. CASE NodeAt(n) # e
      <4>1. KindOf(c, NodeAt(n)) = KindOf(b, NodeAt(n))
        BY <2>9, <2>10, <2>13, <3>1, <3>4, NodeStays
      <4> QED BY <3>2, <4>1
    <3> QED BY <3>3, <3>4
  <2>14. ASSUME NEW p \in b.has
         PROVE  \/ KindOf(c, p) = "declared" \/ KindOf(c, p) = KindOf(b, p)
                \/ p \notin DOMAIN b.prov /\ p \notin DOMAIN c.prov
    <3>1. p \in Pointers
      BY <1>2
    <3>2. CASE p = e
      BY <2>12, <3>2
    <3>3. CASE p = k
      <4>1. p \notin DOMAIN c.prov
        BY <2>9, <2>10, <3>3
      <4>2. KindOf(c, p) = KindOf(c, e)
        BY <2>1, <2>11, <3>1, <3>3, <4>1, MemberResolves DEF KindOf, e
      <4> QED BY <2>12, <4>2
    <3>4. CASE p # e /\ p # k /\ p \in DOMAIN b.prov
      <4>1. p \in DOMAIN c.prov /\ c.prov[p] = b.prov[p]
        BY <2>9, <2>10, <3>4
      <4> QED BY <1>2, <2>11, <3>1, <3>4, <4>1, Governs DEF KindOf
    <3>5. CASE p # e /\ p # k /\ p \notin DOMAIN b.prov
      BY <2>9, <2>10, <3>5
    <3> QED BY <3>2, <3>3, <3>4, <3>5
  <2>15. \A p \in b.has : Rank(KindOf(c, p)) <= Rank(KindOf(b, p))
    <3>1. \A p \in b.has \cap c.has : Rank(KindOf(c, p)) <= Rank(KindOf(b, p))
      BY <2>10, <2>13, <2>14, SameEnds, NothingRises
    <3> QED BY <2>10, <3>1
  <2>16. Understates(b, c)
    <3>1. DOMAIN b.prov \cap Elements \subseteq DOMAIN c.prov
      BY <2>2, <2>9, <2>10, PointerAssumption
    <3>2. \A j \in DOMAIN c.prov : \/ j \in DOMAIN b.prov /\ c.prov[j] = b.prov[j]
                                   \/ j \in Elements /\ c.prov[j].kind = "declared"
      BY <2>3, <2>5, <2>9, <2>10
    <3> QED BY <2>10, <2>15, <3>1, <3>2 DEF Understates
  <2> QED BY <2>9, <2>10, <2>16 DEF c
<1> QED BY <1>3, <1>4

\* Without its root attributes, which are declared anyway.
WithoutRoots(a) == [a EXCEPT !.prov = Without(@, {k \in DOMAIN a.prov : IsRoot(k)})]

\* Without the root's keys a sidecar says as much of every element.
LEMMA RootsDropped ==
  ASSUME NEW E, Suits(E), NEW b, Sound(b, E)
  PROVE  /\ Sound(WithoutRoots(b), E) /\ Understates(b, WithoutRoots(b))
         /\ DOMAIN WithoutRoots(b).prov = {k \in DOMAIN b.prov : ~IsRoot(k)}
<1> DEFINE f == Without(b.prov, {k \in DOMAIN b.prov : IsRoot(k)})
           c == WithoutRoots(b)
<1>1. DOMAIN f = DOMAIN b.prov \ {k \in DOMAIN b.prov : IsRoot(k)}
      /\ (\A j \in DOMAIN f : f[j] = b.prov[j]) /\ f = [j \in DOMAIN f |-> f[j]]
  BY WithoutParts
<1>2. c = [has |-> b.has, source |-> b.source, ends |-> b.ends, prov |-> f]
  BY ArchParts DEF WithoutRoots, Sound
<1> HIDE DEF f, c
<1>3. /\ DOMAIN b.prov \subseteq Pointers /\ DOMAIN b.prov \subseteq Facts /\ DOMAIN b.prov \subseteq b.has
      /\ (\A j \in DOMAIN b.prov : b.prov[j] \in E) /\ b.has \in Shapes /\ b.has \subseteq Pointers
      /\ \A j \in DOMAIN b.prov : j \in Members => b.prov[j].kind = "declared"
  BY ArchParts DEF Sound
<1>4. Sound(c, E) /\ c.has = b.has /\ c.source = b.source /\ c.ends = b.ends /\ c.prov = f
  <2>1. DOMAIN f \subseteq Facts \cap b.has /\ (\A k \in DOMAIN f : f[k] \in E)
        /\ \A k \in DOMAIN f : k \in Members => f[k].kind = "declared"
    BY <1>1, <1>3
  <2>2. f = [j \in DOMAIN f |-> f[j]]
    BY <1>1
  <2> QED BY <1>2, <2>1, <2>2, SoundWith
<1>5. DOMAIN c.prov \subseteq Pointers
  BY <1>4, ArchParts DEF Sound
<1>6. ASSUME NEW p \in Elements PROVE p \in DOMAIN c.prov <=> p \in DOMAIN b.prov
  BY <1>1, <1>4, <1>6, ElementPointers
<1>7. ASSUME NEW n \in Nodes, NodeAt(n) \in b.has
      PROVE  Rank(KindOf(c, NodeAt(n))) <= Rank(KindOf(b, NodeAt(n)))
  <2>1. NodeAt(n) \in Elements /\ NodeAt(n) \in Pointers
    BY <1>3, <1>7, ElementPointers
  <2>2. NodeAt(n) \in DOMAIN c.prov => c.prov[NodeAt(n)].kind = b.prov[NodeAt(n)].kind
    BY <1>1, <1>4
  <2>4. KindOf(c, NodeAt(n)) = KindOf(b, NodeAt(n))
    BY <1>4, <1>6, <1>7, <2>1, <2>2, NodeStays
  <2>3. Rank(KindOf(b, NodeAt(n))) \in 1..3
    BY <2>1, ResolvesToEntry, Ranks
  <2> QED BY <2>3, <2>4
<1>8. ASSUME NEW p \in b.has
      PROVE  \/ KindOf(c, p) = "declared" \/ KindOf(c, p) = KindOf(b, p)
             \/ p \notin DOMAIN b.prov /\ p \notin DOMAIN c.prov
  <2>1. p \in Pointers
    BY <1>3
  <2>2. CASE p \in DOMAIN b.prov /\ ~IsRoot(p)
    <3>1. p \in DOMAIN c.prov /\ c.prov[p] = b.prov[p]
      BY <1>1, <1>4, <2>2
    <3> QED BY <1>3, <1>5, <2>1, <2>2, <3>1, Governs DEF KindOf
  <2>3. CASE p \in DOMAIN b.prov /\ IsRoot(p)
    <3>1. p \notin DOMAIN c.prov
      BY <1>1, <1>4, <2>3
    <3>2. ProvenanceOf(c, p) = Claim("declared", "")
      BY <1>5, <2>1, <2>3, <3>1, MemberResolves
    <3>3. Claim("declared", "").kind = "declared"
      BY ClaimFields
    <3> QED BY <3>2, <3>3 DEF KindOf
  <2>4. CASE p \notin DOMAIN b.prov
    BY <1>1, <1>4, <2>4
  <2> QED BY <2>2, <2>3, <2>4
<1>9. \A p \in b.has : Rank(KindOf(c, p)) <= Rank(KindOf(b, p))
  <2>1. \A p \in b.has \cap c.has : Rank(KindOf(c, p)) <= Rank(KindOf(b, p))
    BY <1>4, <1>7, <1>8, SameEnds, NothingRises
  <2> QED BY <1>4, <2>1
<1>10. Understates(b, c)
  BY <1>1, <1>4, <1>6, <1>9 DEF Understates
<1> QED BY <1>1, <1>4, <1>10 DEF c

\* The second pass leaves no key below an element.
LEMMA FoldedKeeps ==
  ASSUME NEW E, Suits(E), NEW a, Sound(a, E)
  PROVE  LET folded == FoldLeft(FoldKey, a, KeyOrder)
         IN  /\ Sound(folded, E) /\ Understates(a, folded)
             /\ \A k \in DOMAIN folded.prov : k \in Elements \/ IsRoot(k)
<1> DEFINE n == Len(KeyOrder)
<1>1. n \in Nat /\ DOMAIN KeyOrder = 1..n /\ (\A i \in 1..n : KeyOrder[i] \in Facts)
      /\ \A k \in Facts : \E i \in 1..n : KeyOrder[i] = k
  BY LimitAssumption, ElementOfSeq
<1> HIDE DEF n
<1>2. FoldLeft(FoldKey, a, KeyOrder) = FO!Folded(a, KeyOrder)
  BY DEF FO!Folded, FoldLeft, MapThenFoldSet, FO!FoldLeft, FO!MapThenFoldSet,
         FO!Max, Max
<1>3. PICK h : FO!Gathers(a, KeyOrder, n, h) /\ FO!Folded(a, KeyOrder) = h[n]
  BY <1>1, FO!FoldSteps
<1>4. h[0] = a /\ \A i \in 1..n : h[i] = FoldKey(h[i - 1], KeyOrder[i])
  BY <1>3 DEF FO!Gathers
<1> DEFINE Passed(i) == \A j \in 1..i : KeyOrder[j] \in DOMAIN h[i].prov => Len(KeyOrder[j]) = 2
           T == {i \in 0..n : Sound(h[i], E) /\ Understates(a, h[i]) /\ Passed(i)}
<1>5. 0 \in T
  BY <1>1, <1>4, UnderstatesItself
<1>6. ASSUME NEW i \in 0..(n - 1), i \in T PROVE i + 1 \in T
  <2>1. i + 1 \in 1..n /\ i + 1 \in 0..n /\ (i + 1) - 1 = i /\ i \in Nat
    BY <1>1
  <2>2. h[i + 1] = FoldKey(h[i], KeyOrder[i + 1]) /\ KeyOrder[i + 1] \in Facts
    BY <1>1, <1>4, <2>1
  <2>3. Sound(h[i], E) /\ Understates(a, h[i]) /\ Passed(i)
    BY <1>6
  <2>4. /\ Sound(h[i + 1], E) /\ Understates(h[i], h[i + 1])
        /\ KeyOrder[i + 1] \in DOMAIN h[i + 1].prov => Len(KeyOrder[i + 1]) = 2
    BY <2>2, <2>3, FoldKeyStep
  <2>5. Understates(a, h[i + 1])
    BY <2>3, <2>4, UnderstatesTwice
  <2>6. ASSUME NEW j \in 1..(i + 1), KeyOrder[j] \in DOMAIN h[i + 1].prov PROVE Len(KeyOrder[j]) = 2
    <3>1. CASE j = i + 1
      BY <2>4, <2>6, <3>1
    <3>2. CASE j # i + 1
      <4>1. j \in 1..i
        BY <2>1, <3>2
      <4>2. CASE KeyOrder[j] \in DOMAIN h[i].prov
        BY <2>3, <4>1, <4>2
      <4>3. CASE KeyOrder[j] \in Elements
        BY <4>3, ElementPointers
      <4> QED BY <2>4, <2>6, <4>2, <4>3 DEF Understates
    <3> QED BY <3>1, <3>2
  <2> QED BY <2>1, <2>4, <2>5, <2>6
<1>7. n \in T
  <2> HIDE DEF T
  <2>1. 0..n \subseteq T
    BY <1>1, <1>5, <1>6, FO!UpTo
  <2> QED BY <1>1, <2>1
<1>8. Sound(h[n], E) /\ Understates(a, h[n]) /\ Passed(n)
  BY <1>7
<1>9. ASSUME NEW k \in DOMAIN h[n].prov PROVE k \in Elements \/ IsRoot(k)
  <2>1. k \in Facts /\ k \in Pointers
    BY <1>8, ArchParts DEF Sound
  <2>2. PICK j \in 1..n : KeyOrder[j] = k
    BY <1>1, <2>1
  <2>3. Len(k) = 2
    BY <1>8, <1>9, <2>2
  <2> QED BY <2>1, <2>3, PointersAbove
<1> HIDE DEF Passed, T
<1> QED BY <1>2, <1>3, <1>8, <1>9

\* A sidecar that names elements only is within the limit.
LEMMA ElementsFit ==
  ASSUME NEW a, DOMAIN a.prov \subseteq Elements
  PROVE  Fits(a)
<1>1. Cardinality(DOMAIN a.prov) <= Cardinality(Elements) /\ Cardinality(DOMAIN a.prov) \in Nat
      /\ Cardinality(Elements) \in Nat
  BY LimitAssumption, FS_Subset, FS_CardinalityType
<1> QED BY <1>1, LimitAssumption DEF Fits

\* What is saved fits, says no more than before, and the same if the first pass was enough.
LEMMA CompactedKeeps ==
  ASSUME NEW E, Suits(E), NEW a, Sound(a, E)
  PROVE  /\ Sound(Compacted(a), E) /\ Understates(a, Compacted(a)) /\ Fits(Compacted(a))
         /\ Fits(Thinned(a)) => \A p \in Pointers : ProvenanceOf(Compacted(a), p) = ProvenanceOf(a, p)
<1> DEFINE thin == Thinned(a)
           folded == FoldLeft(FoldKey, thin, KeyOrder)
           bare == WithoutRoots(folded)
<1>1. /\ Sound(thin, E) /\ Understates(a, thin)
      /\ \A p \in Pointers : ProvenanceOf(thin, p) = ProvenanceOf(a, p)
  BY ThinnedKeeps
<1>2. Compacted(a) = IF Fits(thin) THEN thin ELSE IF Fits(folded) THEN folded ELSE bare
  BY DEF Compacted, WithoutRoots
<1> HIDE DEF thin
<1>3. /\ Sound(folded, E) /\ Understates(thin, folded)
      /\ \A k \in DOMAIN folded.prov : k \in Elements \/ IsRoot(k)
  BY <1>1, FoldedKeeps
<1> HIDE DEF folded
<1>4. Understates(a, folded)
  BY <1>1, <1>3, UnderstatesTwice
<1>5. Sound(bare, E) /\ Understates(folded, bare) /\ DOMAIN bare.prov \subseteq Elements
  BY <1>3, RootsDropped
<1> HIDE DEF bare
<1>6. Understates(a, bare) /\ Fits(bare)
  BY <1>3, <1>4, <1>5, UnderstatesTwice, ElementsFit
<1>7. CASE Fits(thin)
  BY <1>1, <1>2, <1>7 DEF thin
<1>8. CASE ~Fits(thin) /\ Fits(folded)
  BY <1>2, <1>3, <1>4, <1>8 DEF thin
<1>9. CASE ~Fits(thin) /\ ~Fits(folded)
  BY <1>2, <1>5, <1>6, <1>9 DEF thin
<1> QED BY <1>7, <1>8, <1>9

-----------------------------------------------------------------------------
\* A save.

\* The source of a node with an entry is what the entry's kind maps to, whatever it was.
LEMMA SyncedKeeps ==
  ASSUME NEW E, Suits(E), NEW a, Sound(a, E)
  PROVE  LET b == SyncSources(a)
         IN  /\ Sound(b, E) /\ b.has = a.has /\ b.ends = a.ends /\ b.prov = a.prov
             /\ \A n \in Nodes : NodeAt(n) \notin DOMAIN a.prov => b.source[n] = a.source[n]
             /\ \A n \in Nodes : NodeAt(n) \in DOMAIN a.prov
                  => b.source[n] = KindToSource[KindOf(b, NodeAt(n))]
             /\ \A p \in Pointers : ProvenanceOf(b, p) = ProvenanceOf(a, p)
<1> DEFINE s == [n \in Nodes |-> IF NodeAt(n) \in DOMAIN a.prov
                                 THEN KindToSource[a.prov[NodeAt(n)].kind] ELSE a.source[n]]
           b == SyncSources(a)
<1>1. /\ DOMAIN a.prov \subseteq Pointers /\ DOMAIN a.prov \subseteq a.has /\ a.has \subseteq Pointers
      /\ (\A j \in DOMAIN a.prov : a.prov[j] \in E) /\ a.has \in Shapes /\ a.source \in [Nodes -> Sources]
      /\ a.ends \in [Edges -> Nodes \X Nodes] /\ a.ends \in EndsOf(a.has)
  BY ArchParts DEF Sound
<1>2. b = [has |-> a.has, source |-> s, ends |-> a.ends, prov |-> a.prov]
  <2>1. b = [a EXCEPT !.source = s]
    BY DEF SyncSources
  <2> QED BY <2>1, ArchParts DEF Sound
<1>3. \A n \in Nodes : s[n] = IF NodeAt(n) \in DOMAIN a.prov THEN KindToSource[a.prov[NodeAt(n)].kind] ELSE a.source[n]
  OBVIOUS
<1>4. s \in [Nodes -> Sources]
  <2>1. \A kind \in Kinds : KindToSource[kind] \in Sources
    BY DEF Kinds, KindToSource, Sources
  <2>2. \A n \in Nodes : s[n] \in Sources
    BY <1>1, <1>3, <2>1 DEF Suits
  <2> QED BY <2>2
<1> HIDE DEF s, b
<1>5. b.has = a.has /\ b.prov = a.prov /\ b.source = s /\ b.ends = a.ends
  BY <1>2
<1>6. Sound(b, E)
  <2>1. a.prov \in Sidecars(E)
    BY DEF Sound, Architectures
  <2>2. b \in Architectures(E)
    BY <1>1, <1>2, <1>4, <2>1 DEF Architectures
  <2> QED BY <1>5, <2>2 DEF Sound
<1>7. \A n \in Nodes : NodeEntry(b, n) = NodeEntry(a, n)
  BY <1>3, <1>5 DEF NodeEntry
<1>8. ASSUME NEW p \in Pointers PROVE ProvenanceOf(b, p) = ProvenanceOf(a, p)
  <2>1. CASE p \in DOMAIN a.prov \/ ElementOf(p) \in DOMAIN a.prov
    <3>1. CASE p \in DOMAIN a.prov
      BY <1>1, <1>5, <3>1, Governs
    <3>2. CASE p \notin DOMAIN a.prov
      BY <1>1, <1>5, <2>1, <3>2, Governs
    <3> QED BY <3>1, <3>2
  <2>2. CASE p \notin DOMAIN a.prov /\ ElementOf(p) \notin DOMAIN a.prov
    <3>1. ProvenanceOf(b, p) = Unstored(b, p) /\ ProvenanceOf(a, p) = Unstored(a, p)
      BY <1>1, <1>5, <2>2, Governs
    <3>2. Unstored(b, p) = Unstored(a, p)
      BY <1>1, <1>5, <1>7, UnstoredByNodes
    <3> QED BY <3>1, <3>2
  <2> QED BY <2>1, <2>2
<1>9. ASSUME NEW n \in Nodes, NodeAt(n) \in DOMAIN a.prov
      PROVE  b.source[n] = KindToSource[KindOf(b, NodeAt(n))]
  <2>1. KindOf(b, NodeAt(n)) = a.prov[NodeAt(n)].kind
    BY <1>1, <1>5, <1>9, Governs DEF KindOf
  <2> QED BY <1>3, <1>5, <1>9, <2>1
<1> QED BY <1>3, <1>5, <1>6, <1>8, <1>9 DEF b

\* What a model's own sources are once absent nodes count as design.
LEMMA TidyIsIdle ==
  ASSUME NEW E, NEW a, Sound(a, E), a.source \in SourcesOf(a.has)
  PROVE  Tidy(a) = a
<1>1. a.source \in [Nodes -> Sources] /\ \A n \in Nodes : NodeAt(n) \notin a.has => a.source[n] = "design"
  BY DEF SourcesOf
<1>2. a = [has |-> a.has, source |-> a.source, ends |-> a.ends, prov |-> a.prov]
  BY DEF Sound, Architectures
<1>3. [n \in Nodes |-> IF NodeAt(n) \in a.has THEN a.source[n] ELSE "design"] = a.source
  BY <1>1
<1>4. [e \in Edges |-> IF EdgeAt(e) \in a.has THEN a.ends[e] ELSE Ends[e]] = a.ends
  <2>1. a.ends \in [Edges -> Nodes \X Nodes] /\ a.ends \in EndsOf(a.has)
    BY DEF Sound, EndsOf
  <2>2. \A e \in Edges : EdgeAt(e) \notin a.has => a.ends[e] = Ends[e]
    BY <2>1, EndsParts
  <2> QED BY <2>1, <2>2
<1>5. Tidy(a) = [a EXCEPT !.source = a.source, !.ends = a.ends]
  BY <1>3, <1>4 DEF Tidy
<1> QED BY <1>2, <1>5

\* The entries of the states are entries of the model.
LEMMA EntriesSuit == Suits(Entries)
<1>1. 0 \in 0..(MaxImports + 1)
  BY BoundsAssumption
<1>2. ASSUME NEW kind \in Kinds, NEW id \in Ids PROVE Claim(kind, id) \in Entries
  BY <1>1 DEF Claim, Entries, Kinds, Ids
<1>3. \A e \in Entries : e.kind \in Kinds /\ e.id \in Ids
  BY DEF Entries, Kinds, Ids
<1> QED BY <1>2, <1>3 DEF Suits, Bare

\* What a save leaves of what it was given.
Saved(b, c) ==
  /\ c.has = b.has /\ c.ends = b.ends
  /\ DOMAIN b.prov \cap Elements \subseteq DOMAIN c.prov
  /\ \A k \in DOMAIN c.prov : \/ k \in DOMAIN b.prov /\ c.prov[k] = b.prov[k]
                              \/ k \in Elements /\ c.prov[k].kind = "declared"
  /\ \A p \in b.has : Rank(KindOf(c, p)) <= Rank(KindOf(b, p))

\* An architecture the server may hold.
Held(a) == Sound(a, Entries) /\ a.source \in SourcesOf(a.has)

\* What a save does with a held architecture.
LEMMA SaveKeeps ==
  ASSUME NEW b, Held(b), Save(b)
  PROVE  /\ written' = b /\ Held(arch') /\ Saved(b, arch')
         /\ SavedModelIsValid' /\ CompactionUnderstates'
<1> DEFINE c == Compacted(b)
<1>1. Sound(b, Entries) /\ b.source \in SourcesOf(b.has) /\ Suits(Entries)
  BY EntriesSuit DEF Held
<1>2. Tidy(b) = b
  BY <1>1, TidyIsIdle
<1>3. arch' = SyncSources(c) /\ written' = b
  BY <1>2 DEF Save
<1>4. /\ Sound(c, Entries) /\ Understates(b, c) /\ Fits(c)
      /\ Fits(Thinned(b)) => \A p \in Pointers : ProvenanceOf(c, p) = ProvenanceOf(b, p)
  BY <1>1, CompactedKeeps
<1> HIDE DEF c
<1>5. PICK d : d = arch'
  OBVIOUS
<1>6. /\ Sound(d, Entries) /\ d.has = c.has /\ d.ends = c.ends /\ d.prov = c.prov
      /\ \A n \in Nodes : NodeAt(n) \notin DOMAIN c.prov => d.source[n] = c.source[n]
      /\ \A n \in Nodes : NodeAt(n) \in DOMAIN c.prov => d.source[n] = KindToSource[KindOf(d, NodeAt(n))]
      /\ \A p \in Pointers : ProvenanceOf(d, p) = ProvenanceOf(c, p)
  BY <1>1, <1>3, <1>4, <1>5, SyncedKeeps
<1>7. b.has \subseteq Pointers /\ d.has = b.has /\ c.source = b.source /\ DOMAIN d.prov \subseteq d.has
      /\ DOMAIN d.prov \subseteq Facts
  BY <1>1, <1>4, <1>6, ArchParts DEF Sound, Understates
<1>8. Held(d)
  <2>1. d.source \in [Nodes -> Sources]
    BY <1>6, ArchParts DEF Sound
  <2>2. ASSUME NEW n \in Nodes, NodeAt(n) \notin d.has PROVE d.source[n] = "design"
    BY <1>1, <1>6, <1>7, <2>2 DEF SourcesOf
  <2> QED BY <1>6, <2>1, <2>2 DEF Held, SourcesOf
<1>9. Saved(b, d)
  <2>1. \A p \in b.has : KindOf(d, p) = KindOf(c, p)
    BY <1>6, <1>7 DEF KindOf
  <2>2. \A p \in b.has : Rank(KindOf(d, p)) <= Rank(KindOf(b, p))
    BY <1>4, <2>1 DEF Understates
  <2> QED BY <1>4, <1>6, <1>7, <2>2 DEF Saved, Understates
<1>10. SavedModelIsValid'
  <2>1. \A k \in DOMAIN d.prov : Resolves(d, k)
    BY <1>7 DEF Resolves, Facts
  <2>2. Cardinality(DOMAIN d.prov) <= KeyLimit
    BY <1>4, <1>6 DEF Fits
  <2> QED BY <1>5, <1>6, <2>1, <2>2 DEF SavedModelIsValid
<1>11. CompactionUnderstates'
  <2>1. ASSUME NEW p \in Facts \cap d.has
        PROVE  /\ Rank(KindOf(d, p)) <= Rank(KindOf(b, p))
               /\ Fits(Thinned(b)) /\ StoredAbove(b, p) # {} => ProvenanceOf(d, p) = ProvenanceOf(b, p)
    BY <1>4, <1>6, <1>7, <1>9, <2>1 DEF Saved
  <2> QED BY <1>3, <1>5, <2>1 DEF CompactionUnderstates
<1> QED BY <1>3, <1>5, <1>8, <1>9, <1>10, <1>11

-----------------------------------------------------------------------------
\* The inductive invariant.

\* An entry of an accepted import, as against one of the upgrade mapping.
Live(e) == e.kind # "declared" /\ e.seen # 0

\* The import an entry at k names: accepted and dated by the clock, of a source that carried k,
\* and of the latest state of its source if that one was accepted last or carries k.
Witnessed(k, e, clock, last) ==
  /\ e.importedAt \in 1..clock /\ e.fetched \in 1..e.importedAt
  /\ \E s \in Snapshots : s.id = e.id /\ s.hash = e.seen /\ k \in s.carries
  /\ e.importedAt <= last[e.id].at
  /\ e.importedAt = last[e.id].at => e.seen = last[e.id].hash
  /\ \A s \in Snapshots : s.id = e.id /\ s.hash = last[e.id].hash /\ k \in s.carries => e.seen = s.hash

AllWitnessed(a, clock, last) ==
  \A k \in DOMAIN a.prov : Live(a.prov[k]) => Witnessed(k, a.prov[k], clock, last)

\* What patches wrote is in the model; a member has an entry only since a patch wrote it.
TypedInv ==
  /\ \A p \in Facts : typed[p] # "no" => p \in arch.has
  /\ \A p \in DOMAIN arch.prov : p \in Members => typed[p] # "no"
  /\ now = 0 => \A p \in Facts : typed[p] = "no"

LatestInv ==
  /\ latest \in [Identifiers -> [hash : Nat, at : Nat]]
  /\ \A id \in Identifiers : latest[id].at <= now

CountersInv ==
  /\ now \in 0..MaxImports + 1 /\ patches \in 0..MaxPatches
  /\ typed \in [Facts -> {"no", "typed", "carried"}]

IInv ==
  /\ CountersInv /\ Held(arch) /\ LatestInv /\ TypedInv
  /\ AllWitnessed(arch, now, latest)
  /\ SavedModelIsValid /\ CompactionUnderstates /\ TypedUntilCarried

\* The invariant is strong enough for the types and for the dates.
LEMMA InvariantImplies == IInv => TypeOK /\ StaleByAcceptance
<1> SUFFICES ASSUME IInv PROVE TypeOK /\ StaleByAcceptance
  OBVIOUS
<1>1. TypeOK
  <2>1. arch.has \in Shapes /\ arch.source \in SourcesOf(arch.has) /\ arch.ends \in EndsOf(arch.has)
    BY ArchParts DEF IInv, Held, Sound
  <2>2. \A k \in DOMAIN arch.prov : k \in Facts /\ arch.prov[k] \in Entries
    BY ArchParts DEF IInv, Held, Sound
  <2> QED BY <2>1, <2>2 DEF IInv, CountersInv, TypeOK
<1>2. ASSUME NEW k \in DOMAIN arch.prov, arch.prov[k].kind = "imported", arch.prov[k].seen # 0
      PROVE  /\ arch.prov[k].importedAt > 0
             /\ Cadence > 0 => Expired(arch.prov[k], arch.prov[k].importedAt + Cadence + 1)
  <2> DEFINE e == arch.prov[k]
  <2>1. e.importedAt \in 1..now /\ e.fetched \in 1..e.importedAt
    BY <1>2 DEF IInv, AllWitnessed, Witnessed, Live
  <2>2. now \in Nat
    BY BoundsAssumption DEF IInv, CountersInv
  <2>3. e.kind = "imported"
    BY <1>2
  <2> HIDE DEF e
  <2>4. PICK i \in Nat, f \in Nat : i = e.importedAt /\ f = e.fetched /\ 1 <= f /\ f <= i
    BY <2>1, <2>2
  <2>5. i > 0 /\ f # 0 /\ (i + Cadence + 1) - f > Cadence
    BY <2>4, ModelAssumption
  <2> QED BY <2>3, <2>4, <2>5 DEF Expired, e
<1> QED BY <1>1, <1>2 DEF StaleByAcceptance

\* What is saved of imports was in what is saved.
LEMMA WitnessedStays ==
  ASSUME NEW b, NEW c, Saved(b, c), NEW clock, NEW last, AllWitnessed(b, clock, last)
  PROVE  AllWitnessed(c, clock, last)
<1> SUFFICES ASSUME NEW k \in DOMAIN c.prov, Live(c.prov[k])
             PROVE  Witnessed(k, c.prov[k], clock, last)
  BY DEF AllWitnessed
<1>1. k \in DOMAIN b.prov /\ c.prov[k] = b.prov[k]
  BY DEF Saved, Live
<1> QED BY <1>1 DEF AllWitnessed

\* An entry is seen as before as the clock goes on.
LEMMA ClockGoesOn ==
  ASSUME NEW a, NEW clock \in Nat, NEW last, AllWitnessed(a, clock, last)
  PROVE  AllWitnessed(a, clock + 1, last)
BY DEF AllWitnessed, Witnessed

\* A fact that resolves declared still does after a save, unless it is an edge's without an entry.
LEMMA DeclaredStays ==
  ASSUME NEW b, Held(b), NEW c, Held(c), Saved(b, c), NEW p \in b.has \cap Facts,
         KindOf(b, p) = "declared" \/ (p[1] = "edges" /\ StoredAbove(b, p) = {}),
         p[1] = "edges" => StoredAbove(c, p) # {}
  PROVE  KindOf(c, p) = "declared"
<1>1. /\ DOMAIN b.prov \subseteq Pointers /\ DOMAIN c.prov \subseteq Pointers /\ b.has \subseteq Pointers
      /\ Sound(b, Entries) /\ Sound(c, Entries) /\ Suits(Entries)
  BY ArchParts, EntriesSuit DEF Held, Sound
<1>2. p \in Pointers /\ KindOf(c, p) \in Kinds
  BY <1>1, ResolvesToEntry
<1>3. CASE KindOf(b, p) = "declared"
  <2>1. Rank(KindOf(c, p)) <= 1
    BY <1>3, Ranks DEF Saved
  <2> QED BY <1>2, <2>1, Ranks
<1>4. CASE p[1] = "edges" /\ StoredAbove(b, p) = {}
  <2>1. StoredAbove(c, p) = DOMAIN c.prov \cap {p, ElementOf(p)} /\ StoredAbove(c, p) # {}
        /\ DOMAIN b.prov \cap {p, ElementOf(p)} = {}
    BY <1>1, <1>2, <1>4, Governs
  <2>2. \A k \in DOMAIN c.prov \cap {p, ElementOf(p)} : c.prov[k].kind = "declared"
    BY <2>1 DEF Saved
  <2>3. CASE p \in DOMAIN c.prov
    BY <1>1, <1>2, <2>2, <2>3, Governs DEF KindOf
  <2>4. CASE p \notin DOMAIN c.prov
    <3>1. ElementOf(p) \in DOMAIN c.prov
      BY <2>1, <2>4
    <3> QED BY <1>1, <1>2, <2>2, <2>4, <3>1, Governs DEF KindOf
  <2> QED BY <2>3, <2>4
<1> QED BY <1>3, <1>4

-----------------------------------------------------------------------------
\* Imports.

\* An import's entry, of an acceptance at some time.
LEMMA ImportEntryParts ==
  ASSUME NEW s \in Snapshots, NEW date \in Dates, NEW actor \in Importers, NEW at \in 1..MaxImports + 1, NEW clock
  PROVE  LET e == ImportEntry(s, date, actor, at, clock)
         IN  /\ e \in Entries /\ e.kind = s.kind /\ e.id = s.id /\ e.seen = s.hash
             /\ e.importedAt = at /\ e.fetched \in 1..at
<1>1. at \in Nat /\ at # 0 /\ date \in Nat /\ MaxImports \in Nat
  BY BoundsAssumption
<1> DEFINE f == BoundedDate(date, at, clock)
<1>2. f \in 1..at
  <2>1. CASE date = 0 \/ date > at
    BY <1>1, <2>1 DEF BoundedDate
  <2>2. CASE ~(date = 0 \/ date > at)
    BY <1>1, <2>2 DEF BoundedDate
  <2> QED BY <2>1, <2>2
<1>3. s.kind \in {"imported", "observed"} /\ s.id \in Identifiers /\ s.hash \in {x.hash : x \in Snapshots}
  BY SourceAssumption DEF Identifiers
<1>4. ImportEntry(s, date, actor, at, clock) =
        [kind |-> s.kind, id |-> s.id, seen |-> s.hash, importedAt |-> at, fetched |-> f, by |-> actor]
  BY DEF ImportEntry
<1> HIDE DEF f
<1>5. f \in 0..MaxImports + 1 /\ at \in 0..MaxImports + 1
  BY <1>1, <1>2
<1>6. PICK e : e = ImportEntry(s, date, actor, at, clock)
  OBVIOUS
<1>7. /\ e = [kind |-> s.kind, id |-> s.id, seen |-> s.hash, importedAt |-> at, fetched |-> f, by |-> actor]
      /\ e.kind = s.kind /\ e.id = s.id /\ e.seen = s.hash /\ e.importedAt = at /\ e.fetched = f
  BY <1>4, <1>6
<1>8. e \in Entries
  <2>1. /\ s.kind \in {"declared", "imported", "observed"}
        /\ s.id \in Identifiers \cup {"", "drawing", PreV11Import} \cup {ExternalRef[n] : n \in Nodes}
        /\ s.hash \in {0} \cup {x.hash : x \in Snapshots}
        /\ actor \in Actors \cup Importers \cup {""}
    BY <1>3
  <2> QED BY <1>5, <1>7, <2>1 DEF Entries
<1> QED BY <1>2, <1>6, <1>7, <1>8

Overwritten(s, touched) == (s.carries \ arch.has) \cup touched
EndsCarried(s) == {p \in EndMembers : ElementOf(p) \in s.carries}
HeldWith(s, touched) == arch.has \cup s.carries \cup EndsCarried(s) \cup touched
EndsWith(s, touched) == EndsWritten(arch.ends, Overwritten(s, touched))
Grown(s, touched) ==
  [arch EXCEPT !.has = @ \cup s.carries \cup EndsCarried(s) \cup touched,
               !.ends = EndsWritten(@, Overwritten(s, touched))]
AfterImport(s, date, actor, touched) ==
  Merged(Grown(s, touched), ImportEntry(s, date, actor, now + 1, now + 1), s.carries, Overwritten(s, touched))

\* Touched members of what an import carries.
Touched(s) == SUBSET {p \in Facts \cap Members : ElementOf(p) \in s.carries}

\* What was rewritten below what is carried.
Cleared(k, carried, rewritten) == (\E p \in carried : Under(k, p)) /\ \E r \in rewritten : Under(k, r)

\* The keys that stay.
StaysOf(a, carried, rewritten) == {k \in DOMAIN a.prov : ~Cleared(k, carried, rewritten)}

\* An import gone into the sidecar: the carried elements have its entry, and of the others those
\* stay that are not rewritten.
MergedProv(a, e, carried, rewritten) ==
  [k \in StaysOf(a, carried, rewritten) \cup carried |-> IF k \in carried THEN e ELSE a.prov[k]]

\* A merge field by field.
LEMMA MergedParts ==
  ASSUME NEW E, NEW a \in Architectures(E), NEW e, NEW carried, NEW rewritten
  PROVE  Merged(a, e, carried, rewritten) =
           [has |-> a.has, source |-> a.source, ends |-> a.ends, prov |-> MergedProv(a, e, carried, rewritten)]
<1> DEFINE gone == {k \in DOMAIN a.prov \ carried :
                      (\E p \in carried : Under(k, p)) /\ \E r \in rewritten : Under(k, r)}
           f == [k \in (DOMAIN a.prov \ gone) \cup carried |-> IF k \in carried THEN e ELSE a.prov[k]]
<1>1. Merged(a, e, carried, rewritten) = [a EXCEPT !.prov = f]
  BY DEF Merged
<1>2. [a EXCEPT !.prov = f] = [has |-> a.has, source |-> a.source, ends |-> a.ends, prov |-> f]
  BY ArchParts
<1>3. (DOMAIN a.prov \ gone) \cup carried = StaysOf(a, carried, rewritten) \cup carried
  BY DEF Cleared, StaysOf
<1>4. f = MergedProv(a, e, carried, rewritten)
  BY <1>3 DEF MergedProv
<1> QED BY <1>1, <1>2, <1>4

\* The members that name an edge's ends are facts below the edge.
LEMMA EndPointers ==
  /\ \A p \in EndMembers : /\ p \in Facts /\ p \in Members /\ p \notin Elements /\ p \in Pointers
                           /\ \E e \in Edges : ElementOf(p) = EdgeAt(e) /\ p[1] = "edges" /\ p[2] = e
  /\ \A e \in Edges : /\ EndAt(e, 1) \in EndMembers /\ ElementOf(EndAt(e, 1)) = EdgeAt(e)
                      /\ EndAt(e, 2) \in EndMembers /\ ElementOf(EndAt(e, 2)) = EdgeAt(e)
<1>1. ASSUME NEW c, NEW x, NEW y
      PROVE  <<c, x, y>>[1] = c /\ <<c, x, y>>[2] = x /\ Len(<<c, x, y>>) = 3 /\ SubSeq(<<c, x, y>>, 1, 2) = <<c, x>>
  <2> DEFINE t == <<c, x, y>>
  <2>1. t \in Seq({c, x, y}) /\ Len(t) = 3 /\ t[1] = c /\ t[2] = x
    OBVIOUS
  <2> HIDE DEF t
  <2>2. SubSeq(t, 1, 2) \in Seq({c, x, y}) /\ Len(SubSeq(t, 1, 2)) = 2
    BY <2>1
  <2>3. SubSeq(t, 1, 2)[1] = c /\ SubSeq(t, 1, 2)[2] = x
    BY <2>1
  <2>4. SubSeq(t, 1, 2) = <<c, x>>
    <3>1. PICK u : u = SubSeq(t, 1, 2)
      OBVIOUS
    <3>2. u \in Seq({c, x, y}) /\ Len(u) = 2 /\ u[1] = c /\ u[2] = x
      BY <2>2, <2>3, <3>1
    <3>3. u = <<c, x>>
      BY <3>2
    <3> QED BY <3>1, <3>3
  <2> QED BY <2>1, <2>4 DEF t
<1>2. ASSUME NEW e \in Edges, NEW i \in {1, 2}
      PROVE  /\ EndAt(e, i) \in EndMembers /\ ElementOf(EndAt(e, i)) = EdgeAt(e) /\ Len(EndAt(e, i)) = 3
             /\ EndAt(e, i)[1] = "edges" /\ EndAt(e, i)[2] = e
  <2>1. EndAt(e, i) \in EndMembers
    BY DEF EndMembers
  <2> DEFINE y == IF i = 1 THEN "from" ELSE "to"
  <2>2. EndAt(e, i) = <<"edges", e, y>>
    BY DEF EndAt
  <2> HIDE DEF y
  <2> QED BY <1>1, <2>1, <2>2 DEF ElementOf, EdgeAt
<1>3. ASSUME NEW p \in EndMembers
      PROVE  /\ p \in Facts /\ p \in Members /\ p \notin Elements /\ p \in Pointers
             /\ \E e \in Edges : ElementOf(p) = EdgeAt(e) /\ p[1] = "edges" /\ p[2] = e
  <2>1. PICK e \in Edges : \E i \in {1, 2} : p = EndAt(e, i)
    BY DEF EndMembers
  <2>2. PICK i \in {1, 2} : p = EndAt(e, i)
    BY <2>1
  <2>3. ElementOf(p) = EdgeAt(e) /\ Len(p) = 3 /\ p[1] = "edges" /\ p[2] = e
    BY <1>2, <2>2
  <2>4. p \in Facts /\ p \notin Elements
    BY <2>3, PointerAssumption, ElementPointers
  <2> QED BY <2>3, <2>4, FactCases
<1> QED BY <1>2, <1>3

\* What an import writes of an edge's ends.
LEMMA EndsWrittenParts ==
  ASSUME NEW ends \in [Edges -> Nodes \X Nodes], NEW rewritten
  PROVE  /\ EndsWritten(ends, rewritten) \in [Edges -> Nodes \X Nodes]
         /\ \A e \in Edges :
              /\ EndsWritten(ends, rewritten)[e][1]
                   = IF \E r \in rewritten : Under(EndAt(e, 1), r) THEN Ends[e][1] ELSE ends[e][1]
              /\ EndsWritten(ends, rewritten)[e][2]
                   = IF \E r \in rewritten : Under(EndAt(e, 2), r) THEN Ends[e][2] ELSE ends[e][2]
<1> DEFINE End(e, i) == IF \E r \in rewritten : Under(EndAt(e, i), r) THEN Ends[e][i] ELSE ends[e][i]
<1>1. \A e \in Edges : /\ Ends[e][1] \in Nodes /\ Ends[e][2] \in Nodes
                       /\ ends[e][1] \in Nodes /\ ends[e][2] \in Nodes
  <2>1. \A e \in Edges : Ends[e] \in Nodes \X Nodes /\ ends[e] \in Nodes \X Nodes
    BY ModelAssumption
  <2> QED BY <2>1
<1>2. \A e \in Edges : End(e, 1) \in Nodes /\ End(e, 2) \in Nodes
  BY <1>1
<1>3. \A e \in Edges : /\ End(e, 1) = IF \E r \in rewritten : Under(EndAt(e, 1), r) THEN Ends[e][1] ELSE ends[e][1]
                       /\ End(e, 2) = IF \E r \in rewritten : Under(EndAt(e, 2), r) THEN Ends[e][2] ELSE ends[e][2]
  OBVIOUS
<1>4. EndsWritten(ends, rewritten) = [e \in Edges |-> <<End(e, 1), End(e, 2)>>]
  BY DEF EndsWritten
<1> HIDE DEF End
<1>5. PICK w : w = EndsWritten(ends, rewritten)
  OBVIOUS
<1>6. w \in [Edges -> Nodes \X Nodes] /\ \A e \in Edges : w[e][1] = End(e, 1) /\ w[e][2] = End(e, 2)
  BY <1>2, <1>4, <1>5
<1> QED BY <1>3, <1>5, <1>6

\* An architecture with two fields replaced.
HasEnds(a, x, y) == [a EXCEPT !.has = x, !.ends = y]
SourceEnds(a, x, y) == [a EXCEPT !.source = x, !.ends = y]
ProvSource(a, x, y) == [a EXCEPT !.prov = x, !.source = y]

\* The other two fields stay.
LEMMA HasEndsReplaced ==
  ASSUME NEW h, NEW s, NEW e, NEW f, NEW a, a = [has |-> h, source |-> s, ends |-> e, prov |-> f], NEW x, NEW y
  PROVE  HasEnds(a, x, y) = [has |-> x, source |-> s, ends |-> y, prov |-> f]
<1>1. HasEnds(a, x, y) = [[a EXCEPT !.has = x] EXCEPT !.ends = y]
  BY DEF HasEnds
<1>2. PICK b : b = [a EXCEPT !.has = x]
  OBVIOUS
<1>3. b = [has |-> x, source |-> s, ends |-> e, prov |-> f]
  BY <1>2
<1>4. [b EXCEPT !.ends = y] = [has |-> x, source |-> s, ends |-> y, prov |-> f]
  BY <1>3
<1> QED BY <1>1, <1>2, <1>4

\* The other two fields stay.
LEMMA SourceEndsReplaced ==
  ASSUME NEW h, NEW s, NEW e, NEW f, NEW a, a = [has |-> h, source |-> s, ends |-> e, prov |-> f], NEW x, NEW y
  PROVE  SourceEnds(a, x, y) = [has |-> h, source |-> x, ends |-> y, prov |-> f]
<1>1. SourceEnds(a, x, y) = [[a EXCEPT !.source = x] EXCEPT !.ends = y]
  BY DEF SourceEnds
<1>2. PICK b : b = [a EXCEPT !.source = x]
  OBVIOUS
<1>3. b = [has |-> h, source |-> x, ends |-> e, prov |-> f]
  BY <1>2
<1>4. [b EXCEPT !.ends = y] = [has |-> h, source |-> x, ends |-> y, prov |-> f]
  BY <1>3
<1> QED BY <1>1, <1>2, <1>4

\* The other two fields stay.
LEMMA ProvSourceReplaced ==
  ASSUME NEW h, NEW s, NEW e, NEW f, NEW a, a = [has |-> h, source |-> s, ends |-> e, prov |-> f], NEW x, NEW y
  PROVE  ProvSource(a, x, y) = [has |-> h, source |-> y, ends |-> e, prov |-> x]
<1>1. ProvSource(a, x, y) = [[a EXCEPT !.prov = x] EXCEPT !.source = y]
  BY DEF ProvSource
<1>2. PICK b : b = [a EXCEPT !.prov = x]
  OBVIOUS
<1>3. b = [has |-> h, source |-> s, ends |-> e, prov |-> x]
  BY <1>2
<1>4. [b EXCEPT !.source = y] = [has |-> h, source |-> y, ends |-> e, prov |-> x]
  BY <1>3
<1> QED BY <1>1, <1>2, <1>4

\* What a merge holds.
LEMMA ImportHolds ==
  ASSUME IInv, NEW s \in Snapshots, NEW touched \in Touched(s)
  PROVE  LET has == HeldWith(s, touched)
         IN  /\ has \in Shapes /\ arch.source \in SourcesOf(has) /\ EndsWith(s, touched) \in EndsOf(has)
             /\ Grown(s, touched) = [has |-> has, source |-> arch.source, ends |-> EndsWith(s, touched), prov |-> arch.prov]
<1> DEFINE has == HeldWith(s, touched)
           ends == EndsWith(s, touched)
<1>1. /\ arch.has \in Shapes /\ arch.has \subseteq Pointers /\ arch.source \in SourcesOf(arch.has)
      /\ arch.ends \in EndsOf(arch.has) /\ arch.ends \in [Edges -> Nodes \X Nodes]
      /\ arch = [has |-> arch.has, source |-> arch.source, ends |-> arch.ends, prov |-> arch.prov]
  BY ArchParts DEF IInv, Held, Sound, Architectures
<1>2. s.carries \subseteq Elements /\ touched \subseteq Facts \cap Members
      /\ \A p \in touched : ElementOf(p) \in s.carries
  BY SourceAssumption DEF Touched
<1>3. /\ arch.has \subseteq has /\ s.carries \subseteq has /\ touched \subseteq has /\ EndsCarried(s) \subseteq has
      /\ \A p \in has : p \in arch.has \/ p \in s.carries \/ p \in EndsCarried(s) \/ p \in touched
  BY DEF HeldWith
<1>4. Grown(s, touched) = [has |-> has, source |-> arch.source, ends |-> ends, prov |-> arch.prov]
  <2>1. Grown(s, touched) = [arch EXCEPT !.has = has, !.ends = ends]
    BY DEF Grown, HeldWith, EndsWith
  <2> HIDE DEF has, ends
  <2>2. Grown(s, touched) = HasEnds(arch, has, ends)
    BY <2>1 DEF HasEnds
  <2>3. HasEnds(arch, has, ends) = [has |-> has, source |-> arch.source, ends |-> ends, prov |-> arch.prov]
    BY <1>1, HasEndsReplaced
  <2> QED BY <2>2, <2>3
<1> HIDE DEF has, ends
<1>5. \A p \in EndsCarried(s) : p \in Pointers /\ p \notin Elements /\ ElementOf(p) \in s.carries
  BY EndPointers DEF EndsCarried
<1>6. has \subseteq Pointers
  BY <1>1, <1>2, <1>3, <1>5 DEF Pointers
<1>7. \A p \in has : ElementOf(p) \in has
  <2>1. \A p \in arch.has : ElementOf(p) \in has
    BY <1>1, <1>3, ShapeParts
  <2>2. \A p \in s.carries : ElementOf(p) \in has
    BY <1>2, <1>3, ElementPointers
  <2> QED BY <1>2, <1>3, <1>5, <2>1, <2>2
<1>8. ASSUME NEW e \in Edges, EdgeAt(e) \in has PROVE EdgeAt(e) \in arch.has \/ EdgeAt(e) \in s.carries
  BY <1>2, <1>3, <1>5, <1>8, ElementPointers
<1>9. ASSUME NEW e \in Edges, EdgeAt(e) \in has PROVE {EndAt(e, 1), EndAt(e, 2)} \subseteq has
  <2>1. CASE EdgeAt(e) \in arch.has
    BY <1>1, <1>3, <2>1, ShapeParts
  <2>2. CASE EdgeAt(e) \in s.carries
    BY <1>3, <2>2, EndPointers DEF EndsCarried
  <2> QED BY <1>8, <1>9, <2>1, <2>2
<1>10. has \in Shapes
  BY <1>6, <1>7, <1>9 DEF Shapes
<1>11. arch.source \in SourcesOf(has)
  BY <1>1, <1>3 DEF SourcesOf
<1>12. /\ ends \in [Edges -> Nodes \X Nodes]
       /\ \A e \in Edges :
            /\ ends[e][1] = IF \E r \in Overwritten(s, touched) : Under(EndAt(e, 1), r) THEN Ends[e][1] ELSE arch.ends[e][1]
            /\ ends[e][2] = IF \E r \in Overwritten(s, touched) : Under(EndAt(e, 2), r) THEN Ends[e][2] ELSE arch.ends[e][2]
  BY <1>1, EndsWrittenParts DEF ends, EndsWith
<1>13. ASSUME NEW e \in Edges, NEW q, q \in {EndAt(e, 1), EndAt(e, 2)},
              NEW r \in Overwritten(s, touched), Under(q, r)
       PROVE  EdgeAt(e) \in s.carries
  <2>1. q \in Pointers /\ ElementOf(q) = EdgeAt(e)
    BY <1>13, EndPointers
  <2>2. r \in s.carries \/ (r \in touched /\ ElementOf(r) \in s.carries)
    BY <1>2, <1>13 DEF Overwritten
  <2>3. r \in Pointers /\ ElementOf(r) \in s.carries
    BY <1>2, <2>2, ElementPointers DEF Pointers
  <2>4. r \in {q, ElementOf(q)}
    BY <1>13, <2>1, <2>3, PointersAbove
  <2>5. ElementOf(r) = ElementOf(q)
    BY <2>1, <2>4, PointersAbove
  <2> QED BY <2>1, <2>3, <2>5
<1>14. ASSUME NEW e \in Edges, EdgeAt(e) \in has PROVE EndNodes(ends, e) \subseteq has
  <2>1. CASE EdgeAt(e) \in s.carries
    <3>1. NodeAt(Ends[e][1]) \in has /\ NodeAt(Ends[e][2]) \in has
      BY <1>3, <2>1, SourceAssumption DEF EndNodes
    <3>2. CASE EdgeAt(e) \in arch.has
      <4>1. NodeAt(arch.ends[e][1]) \in has /\ NodeAt(arch.ends[e][2]) \in has
        BY <1>1, <1>3, <3>2, EndsParts
      <4> QED BY <1>12, <3>1, <4>1 DEF EndNodes
    <3>3. CASE EdgeAt(e) \notin arch.has
      <4>1. arch.ends[e] = Ends[e]
        BY <1>1, <3>3, EndsParts
      <4> QED BY <1>12, <3>1, <4>1 DEF EndNodes
    <3> QED BY <3>2, <3>3
  <2>2. CASE EdgeAt(e) \notin s.carries
    <3>1. ends[e][1] = arch.ends[e][1] /\ ends[e][2] = arch.ends[e][2]
      BY <1>12, <1>13, <2>2
    <3>2. NodeAt(arch.ends[e][1]) \in has /\ NodeAt(arch.ends[e][2]) \in has
      BY <1>1, <1>3, <1>8, <1>14, <2>2, EndsParts
    <3> QED BY <3>1, <3>2 DEF EndNodes
  <2> QED BY <2>1, <2>2
<1>15. ASSUME NEW e \in Edges, EdgeAt(e) \notin has PROVE ends[e] = Ends[e]
  <2>1. arch.ends[e] = Ends[e]
    BY <1>1, <1>3, <1>15, EndsParts
  <2>2. ends[e][1] = Ends[e][1] /\ ends[e][2] = Ends[e][2]
    BY <1>12, <2>1
  <2>3. ends[e] \in Nodes \X Nodes /\ Ends[e] \in Nodes \X Nodes
    BY <1>12, ModelAssumption
  <2> QED BY <2>2, <2>3
<1>16. ends \in EndsOf(has)
  BY <1>12, <1>14, <1>15 DEF EndsOf
<1> QED BY <1>4, <1>10, <1>11, <1>16 DEF has, ends

\* What a merged sidecar holds of the one before, and of the import.
LEMMA ImportParts ==
  ASSUME IInv, now \in 1..MaxImports,
         NEW s \in Snapshots, NEW date \in Dates, NEW actor \in Importers, NEW touched \in Touched(s)
  PROVE  LET b == AfterImport(s, date, actor, touched)
         IN  /\ Held(b) /\ b.has = HeldWith(s, touched) /\ b.source = arch.source /\ b.ends = EndsWith(s, touched)
             /\ DOMAIN b.prov = StaysOf(arch, s.carries, Overwritten(s, touched)) \cup s.carries
             /\ \A k \in s.carries : b.prov[k] = ImportEntry(s, date, actor, now + 1, now + 1)
             /\ \A k \in DOMAIN b.prov \ s.carries : b.prov[k] = arch.prov[k]
<1> DEFINE g == Grown(s, touched)
           has == HeldWith(s, touched)
           ends == EndsWith(s, touched)
           e == ImportEntry(s, date, actor, now + 1, now + 1)
<1>1. /\ has \in Shapes /\ arch.source \in SourcesOf(has) /\ ends \in EndsOf(has)
      /\ g = [has |-> has, source |-> arch.source, ends |-> ends, prov |-> arch.prov]
  BY ImportHolds
<1>2. e \in Entries
  <2>1. now + 1 \in 1..MaxImports + 1
    BY BoundsAssumption
  <2> QED BY <2>1, ImportEntryParts
<1>3. /\ arch.prov \in Sidecars(Entries) /\ DOMAIN arch.prov \subseteq Facts /\ DOMAIN arch.prov \subseteq arch.has
      /\ (\A k \in DOMAIN arch.prov : arch.prov[k] \in Entries)
      /\ \A k \in DOMAIN arch.prov : k \in Members => arch.prov[k].kind = "declared"
  BY ArchParts DEF IInv, Held, Sound, Architectures
<1>15. arch.has \subseteq has /\ s.carries \subseteq has
  BY DEF HeldWith
<1> HIDE DEF has, ends
<1>4. g \in Architectures(Entries) /\ g.has = has /\ g.source = arch.source /\ g.ends = ends /\ g.prov = arch.prov
  BY <1>1, <1>3 DEF Architectures, SourcesOf, EndsOf
<1>5. PICK b : b = AfterImport(s, date, actor, touched)
  OBVIOUS
<1> HIDE DEF g, e
<1>6. b = Merged(g, e, s.carries, Overwritten(s, touched))
  BY <1>5 DEF AfterImport, g, e
<1> DEFINE f == MergedProv(g, e, s.carries, Overwritten(s, touched))
<1>13. b = [has |-> g.has, source |-> g.source, ends |-> g.ends, prov |-> f] /\ b.prov = f
  <2>1. Merged(g, e, s.carries, Overwritten(s, touched)) = [has |-> g.has, source |-> g.source, ends |-> g.ends, prov |-> f]
    BY <1>4, MergedParts
  <2>2. [has |-> g.has, source |-> g.source, ends |-> g.ends, prov |-> f].prov = f
    OBVIOUS
  <2> QED BY <1>6, <2>1, <2>2
<1>14. /\ DOMAIN f = StaysOf(g, s.carries, Overwritten(s, touched)) \cup s.carries
       /\ f = [k \in DOMAIN f |-> f[k]]
       /\ \A k \in s.carries : f[k] = e
       /\ \A k \in DOMAIN f \ s.carries : f[k] = g.prov[k]
  BY DEF MergedProv
<1> HIDE DEF f
<1>7. /\ b = [has |-> g.has, source |-> g.source, ends |-> g.ends, prov |-> b.prov]
      /\ b.prov = [k \in DOMAIN b.prov |-> b.prov[k]]
      /\ DOMAIN b.prov = StaysOf(g, s.carries, Overwritten(s, touched)) \cup s.carries
      /\ \A k \in s.carries : b.prov[k] = e
      /\ \A k \in DOMAIN b.prov \ s.carries : b.prov[k] = g.prov[k]
  BY <1>13, <1>14
<1>12. StaysOf(g, s.carries, Overwritten(s, touched)) = StaysOf(arch, s.carries, Overwritten(s, touched))
  BY <1>4 DEF StaysOf
<1>8. b = [has |-> has, source |-> arch.source, ends |-> ends, prov |-> b.prov] /\ b.has = has /\ b.source = arch.source
      /\ b.ends = ends
  BY <1>4, <1>7
<1>9. s.carries \subseteq Elements /\ s.carries \subseteq Facts
  BY SourceAssumption, FactCases
<1>10. Sound(b, Entries)
  <2>1. DOMAIN b.prov \subseteq Facts /\ DOMAIN b.prov \subseteq has
    BY <1>3, <1>4, <1>7, <1>9, <1>15 DEF StaysOf
  <2>2. \A k \in DOMAIN b.prov : b.prov[k] \in Entries
    BY <1>2, <1>3, <1>4, <1>7 DEF StaysOf
  <2>3. \A k \in DOMAIN b.prov : k \in Members => b.prov[k].kind = "declared"
    <3>1. \A k \in s.carries : k \notin Members
      BY <1>9, ElementPointers
    <3> QED BY <1>3, <1>4, <1>7, <3>1 DEF StaysOf
  <2>4. b.prov \in Sidecars(Entries)
    BY <1>7, <2>1, <2>2, SidecarParts
  <2>5. b \in Architectures(Entries)
    BY <1>1, <1>8, <2>4 DEF Architectures, SourcesOf, EndsOf
  <2> QED BY <1>1, <1>8, <2>1, <2>3, <2>5 DEF Sound
<1>11. Held(b)
  BY <1>1, <1>8, <1>10 DEF Held
<1> QED BY <1>4, <1>5, <1>7, <1>8, <1>11, <1>12 DEF e, has, ends

\* A fact whose own entry and element's entry stay resolves as before, an edge without one excepted.
LEMMA SameAt ==
  ASSUME NEW a, NEW b, DOMAIN a.prov \subseteq Pointers, DOMAIN b.prov \subseteq Pointers,
         NEW p \in Pointers, ElementOf(p) \in a.has <=> ElementOf(p) \in b.has,
         p[1] = "nodes" => a.source[p[2]] = b.source[p[2]],
         \A k \in {p, ElementOf(p)} : /\ k \in DOMAIN a.prov <=> k \in DOMAIN b.prov
                                      /\ k \in DOMAIN a.prov => a.prov[k] = b.prov[k],
         p[1] = "edges" => StoredAbove(a, p) # {}
  PROVE  ProvenanceOf(a, p) = ProvenanceOf(b, p)
<1>1. CASE p \in DOMAIN a.prov
  BY <1>1, Governs
<1>2. CASE p \notin DOMAIN a.prov /\ ElementOf(p) \in DOMAIN a.prov
  <2>1. ProvenanceOf(a, p) = a.prov[ElementOf(p)]
    BY <1>2, Governs
  <2>2. ProvenanceOf(b, p) = b.prov[ElementOf(p)]
    BY <1>2, Governs
  <2> QED BY <1>2, <2>1, <2>2
<1>3. CASE p \notin DOMAIN a.prov /\ ElementOf(p) \notin DOMAIN a.prov
  <2>1. ProvenanceOf(a, p) = Unstored(a, p) /\ ProvenanceOf(b, p) = Unstored(b, p)
    BY <1>3, Governs
  <2>2. p[1] # "edges"
    BY <1>3, Governs
  <2>3. CASE p[1] = "nodes"
    <3>1. ElementOf(p) = NodeAt(p[2])
      BY <2>3, PointerCases
    <3>2. NodeEntry(a, p[2]) = NodeEntry(b, p[2])
      BY <1>3, <2>3, <3>1 DEF NodeEntry
    <3>3. CASE ElementOf(p) \in a.has
      <4>1. Unstored(a, p) = NodeEntry(a, p[2])
        BY <2>3, <3>3 DEF Unstored
      <4>2. Unstored(b, p) = NodeEntry(b, p[2])
        BY <2>3, <3>3 DEF Unstored
      <4> QED BY <2>1, <3>2, <4>1, <4>2
    <3>4. CASE ElementOf(p) \notin a.has
      BY <2>1, <2>2, <3>4 DEF Unstored
    <3> QED BY <3>3, <3>4
  <2>4. CASE p[1] # "nodes"
    BY <2>1, <2>2, <2>4 DEF Unstored
  <2> QED BY <2>3, <2>4
<1> QED BY <1>1, <1>2, <1>3

\* What no import carries and nothing rewrites keeps its entries.
LEMMA UncarriedStays ==
  ASSUME IInv, now \in 1..MaxImports,
         NEW s \in Snapshots, NEW date \in Dates, NEW actor \in Importers, NEW touched \in Touched(s),
         NEW p \in Pointers, \A c \in s.carries : ~Under(p, c)
  PROVE  LET b == AfterImport(s, date, actor, touched)
         IN  \A k \in {p, ElementOf(p)} : /\ k \in DOMAIN arch.prov <=> k \in DOMAIN b.prov
                                          /\ k \in DOMAIN arch.prov => arch.prov[k] = b.prov[k]
<1> SUFFICES ASSUME NEW b, b = AfterImport(s, date, actor, touched), NEW k \in {p, ElementOf(p)}
             PROVE  /\ k \in DOMAIN arch.prov <=> k \in DOMAIN b.prov
                    /\ k \in DOMAIN arch.prov => arch.prov[k] = b.prov[k]
  BY Zenon
<1>1. /\ DOMAIN b.prov = StaysOf(arch, s.carries, Overwritten(s, touched)) \cup s.carries
      /\ \A j \in DOMAIN b.prov \ s.carries : b.prov[j] = arch.prov[j]
  BY ImportParts
<1>2. s.carries \subseteq Pointers
  BY SourceAssumption DEF Pointers
<1>3. p \notin s.carries /\ ElementOf(p) \notin s.carries
  BY <1>2, PointersAbove
<1>4. ~Cleared(k, s.carries, Overwritten(s, touched))
  <2>1. k \in Pointers /\ ElementOf(k) = ElementOf(p)
    BY PointersAbove
  <2>2. \A c \in s.carries : ~Under(k, c)
    BY <1>2, <1>3, <2>1, PointersAbove
  <2> QED BY <2>2 DEF Cleared
<1> QED BY <1>1, <1>3, <1>4 DEF StaysOf

\* The entries of imports are those of their sources, and the latest is the latest.
LEMMA ImportWitnessed ==
  ASSUME IInv, NEW s \in Snapshots, NEW date \in Dates, NEW actor \in Importers, NEW touched \in Touched(s),
         now \in 1..MaxImports,
         latest' = [latest EXCEPT ![s.id] = [hash |-> s.hash, at |-> now + 1]]
  PROVE  AllWitnessed(AfterImport(s, date, actor, touched), now + 1, latest')
<1> DEFINE e == ImportEntry(s, date, actor, now + 1, now + 1)
<1>1. PICK b : b = AfterImport(s, date, actor, touched)
  OBVIOUS
<1>2. /\ DOMAIN b.prov = StaysOf(arch, s.carries, Overwritten(s, touched)) \cup s.carries
      /\ \A k \in s.carries : b.prov[k] = e
      /\ \A k \in DOMAIN b.prov \ s.carries : b.prov[k] = arch.prov[k]
  BY <1>1, ImportParts
<1>3. e.id = s.id /\ e.seen = s.hash /\ e.importedAt = now + 1 /\ e.fetched \in 1..(now + 1)
  <2>1. now + 1 \in 1..MaxImports + 1
    BY BoundsAssumption
  <2> QED BY <2>1, ImportEntryParts
<1> HIDE DEF e
<1>4. s.id \in Identifiers /\ latest \in [Identifiers -> [hash : Nat, at : Nat]] /\ now \in Nat
  BY BoundsAssumption DEF Identifiers, IInv, LatestInv
<1>5. /\ latest'[s.id] = [hash |-> s.hash, at |-> now + 1]
      /\ \A id \in Identifiers : id # s.id => latest'[id] = latest[id]
  BY <1>4
<1>6. latest'[s.id].hash = s.hash /\ latest'[s.id].at = now + 1
  BY <1>5
<1>7. ASSUME NEW k \in s.carries PROVE Witnessed(k, b.prov[k], now + 1, latest')
  <2>1. b.prov[k] = e
    BY <1>2
  <2>2. e.importedAt \in 1..now + 1 /\ e.fetched \in 1..e.importedAt
    BY <1>3, <1>4
  <2>3. \E x \in Snapshots : x.id = e.id /\ x.hash = e.seen /\ k \in x.carries
    BY <1>3
  <2>4. e.importedAt <= latest'[e.id].at /\ e.seen = latest'[e.id].hash
    BY <1>3, <1>4, <1>6
  <2> QED BY <2>1, <2>2, <2>3, <2>4 DEF Witnessed
<1>8. ASSUME NEW k \in DOMAIN b.prov \ s.carries, Live(b.prov[k])
      PROVE  Witnessed(k, b.prov[k], now + 1, latest')
  <2>1. PICK f : f = arch.prov[k]
    OBVIOUS
  <2>2. k \in DOMAIN arch.prov /\ b.prov[k] = f
    BY <1>2, <2>1 DEF StaysOf
  <2>3. Witnessed(k, f, now, latest)
    BY <1>8, <2>1, <2>2 DEF IInv, AllWitnessed
  <2>4. /\ f.importedAt \in 1..now /\ f.fetched \in 1..f.importedAt
        /\ \E x \in Snapshots : x.id = f.id /\ x.hash = f.seen /\ k \in x.carries
        /\ f.importedAt <= latest[f.id].at
        /\ f.importedAt = latest[f.id].at => f.seen = latest[f.id].hash
        /\ \A x \in Snapshots : x.id = f.id /\ x.hash = latest[f.id].hash /\ k \in x.carries => f.seen = x.hash
    BY <2>3 DEF Witnessed
  <2>5. f.id \in Identifiers /\ f.importedAt \in 1..now + 1
    BY <1>4, <2>4 DEF Identifiers
  <2>6. CASE f.id = s.id
    <3>1. f.importedAt <= latest'[f.id].at /\ f.importedAt # latest'[f.id].at
      BY <1>4, <1>6, <2>4, <2>6
    <3>2. \A x \in Snapshots : x.id = f.id /\ x.hash = latest'[f.id].hash => k \notin x.carries
      <4>1. \A x \in Snapshots : x.id = s.id /\ x.hash = s.hash => x.carries = s.carries
        BY SourceAssumption
      <4> QED BY <1>6, <1>8, <2>6, <4>1
    <3> QED BY <2>2, <2>4, <2>5, <3>1, <3>2 DEF Witnessed
  <2>7. CASE f.id # s.id
    <3>1. latest'[f.id] = latest[f.id]
      BY <1>5, <2>5, <2>7
    <3> QED BY <2>2, <2>4, <2>5, <3>1 DEF Witnessed
  <2> QED BY <2>6, <2>7
<1> QED BY <1>1, <1>7, <1>8 DEF AllWitnessed

\* What an import writes of the ghosts.
TypedByImport(s, touched) ==
  [p \in Facts |->
     IF typed[p] = "no" \/ \E r \in Overwritten(s, touched) : Under(p, r) THEN "no"
     ELSE IF \E c \in s.carries : Under(p, c) THEN "carried" ELSE typed[p]]

\* An import as the steps it takes.
LEMMA ImportSteps ==
  ASSUME NEW s \in Snapshots, NEW date \in Dates, NEW actor \in Importers, NEW touched \in SUBSET Members,
         Import(s, date, actor, touched)
  PROVE  /\ now \in 1..MaxImports /\ touched \in Touched(s)
         /\ Save(AfterImport(s, date, actor, touched))
         /\ typed' = TypedByImport(s, touched)
         /\ now' = now + 1
         /\ latest' = [latest EXCEPT ![s.id] = [hash |-> s.hash, at |-> now + 1]]
         /\ patches' = patches
<1>1. now \in 1..MaxImports /\ now' = now + 1 /\ patches' = patches
      /\ latest' = [latest EXCEPT ![s.id] = [hash |-> s.hash, at |-> now + 1]]
      /\ touched \in Touched(s)
  BY DEF Import, Touched
<1>2. Save(AfterImport(s, date, actor, touched))
  BY DEF Import, AfterImport, Grown, Overwritten, EndsCarried
<1>3. typed' = TypedByImport(s, touched)
  BY DEF Import, TypedByImport, Overwritten
<1> QED BY <1>1, <1>2, <1>3

\* What stays typed was neither rewritten nor carried.
LEMMA TypedAfterImport ==
  ASSUME CountersInv, NEW s \in Snapshots, NEW touched \in Touched(s), NEW p \in Facts
  PROVE  /\ TypedByImport(s, touched)[p] \in {"no", "typed", "carried"}
         /\ TypedByImport(s, touched)[p] # "no" <=>
              typed[p] # "no" /\ \A r \in Overwritten(s, touched) : ~Under(p, r)
         /\ TypedByImport(s, touched)[p] = "typed" =>
              typed[p] = "typed" /\ \A c \in s.carries : ~Under(p, c)
<1>1. TypedByImport(s, touched)[p] =
        IF typed[p] = "no" \/ \E r \in Overwritten(s, touched) : Under(p, r) THEN "no"
        ELSE IF \E c \in s.carries : Under(p, c) THEN "carried" ELSE typed[p]
  BY DEF TypedByImport
<1>2. typed[p] \in {"no", "typed", "carried"}
  BY DEF CountersInv
<1>3. CASE typed[p] = "no" \/ \E r \in Overwritten(s, touched) : Under(p, r)
  BY <1>1, <1>3
<1>4. CASE ~(typed[p] = "no" \/ \E r \in Overwritten(s, touched) : Under(p, r)) /\ \E c \in s.carries : Under(p, c)
  BY <1>1, <1>4
<1>5. CASE ~(typed[p] = "no" \/ \E r \in Overwritten(s, touched) : Under(p, r)) /\ ~\E c \in s.carries : Under(p, c)
  BY <1>1, <1>2, <1>5
<1> QED BY <1>3, <1>4, <1>5

\* A member with an entry stays with it as long as it is not rewritten.
LEMMA MembersOfImport ==
  ASSUME IInv, NEW s \in Snapshots, NEW date \in Dates, NEW actor \in Importers, NEW touched \in Touched(s),
         now \in 1..MaxImports, NEW p \in Facts \cap Members
  PROVE  LET b == AfterImport(s, date, actor, touched)
         IN  p \in DOMAIN b.prov <=>
               p \in DOMAIN arch.prov /\ \A r \in Overwritten(s, touched) : ~Under(p, r)
<1>1. PICK b : b = AfterImport(s, date, actor, touched)
  OBVIOUS
<1>2. DOMAIN b.prov = StaysOf(arch, s.carries, Overwritten(s, touched)) \cup s.carries
  BY <1>1, ImportParts
<1>3. s.carries \subseteq Elements /\ p \notin Elements /\ p \in Pointers
  BY SourceAssumption, ElementPointers DEF Pointers
<1>4. ASSUME NEW r \in Overwritten(s, touched), Under(p, r) PROVE \E c \in s.carries : Under(p, c)
  <2>1. r \in s.carries \/ (r \in Members /\ r \in Facts /\ ElementOf(r) \in s.carries)
    BY <1>4 DEF Overwritten, Touched
  <2>2. CASE r \in s.carries
    BY <1>4, <2>2
  <2>3. CASE r \in Members /\ ElementOf(r) \in s.carries
    <3>2. r \in {p, ElementOf(p)}
      BY <1>3, <1>4, <2>3, PointersAbove DEF Pointers
    <3>3. ElementOf(r) = ElementOf(p)
      BY <1>3, <3>2, PointersAbove
    <3>4. Under(p, ElementOf(p))
      BY <1>3, PointersAbove
    <3> QED BY <2>3, <3>3, <3>4
  <2> QED BY <2>1, <2>2, <2>3
<1>5. Cleared(p, s.carries, Overwritten(s, touched)) <=> \E r \in Overwritten(s, touched) : Under(p, r)
  BY <1>4 DEF Cleared
<1> QED BY <1>1, <1>2, <1>3, <1>5 DEF StaysOf

\* An import keeps the invariant and the members declared apart.
LEMMA ImportStep ==
  ASSUME IInv, NEW s \in Snapshots, NEW date \in Dates, NEW actor \in Importers, NEW touched \in SUBSET Members,
         Import(s, date, actor, touched)
  PROVE  /\ IInv'
         /\ \A p \in Facts \cap Members :
              /\ p \in DOMAIN arch.prov /\ arch.prov[p].kind = "declared"
              /\ typed'[p] = typed[p] \/ typed'[p] = "carried"
              => KindOf(arch', p) = "declared"
<1>1. /\ now \in 1..MaxImports /\ touched \in Touched(s)
      /\ Save(AfterImport(s, date, actor, touched))
      /\ typed' = TypedByImport(s, touched)
      /\ now' = now + 1
      /\ latest' = [latest EXCEPT ![s.id] = [hash |-> s.hash, at |-> now + 1]]
      /\ patches' = patches
  BY ImportSteps
<1>2. PICK b : b = AfterImport(s, date, actor, touched)
  OBVIOUS
<1>3. Held(b) /\ arch.has \subseteq b.has /\ b.source = arch.source
  <2>1. Held(b) /\ b.has = HeldWith(s, touched) /\ b.source = arch.source
    BY <1>1, <1>2, ImportParts
  <2> QED BY <2>1 DEF HeldWith
<1>4. /\ Held(arch') /\ Saved(b, arch') /\ SavedModelIsValid' /\ CompactionUnderstates'
  BY <1>1, <1>2, <1>3, SaveKeeps
<1>5. AllWitnessed(b, now + 1, latest')
  BY <1>1, <1>2, ImportWitnessed
<1>6. AllWitnessed(arch', now', latest')
  BY <1>1, <1>4, <1>5, WitnessedStays
<1>7. CountersInv'
  <2>1. now' \in 0..MaxImports + 1 /\ patches' \in 0..MaxPatches
    BY <1>1, BoundsAssumption DEF IInv, CountersInv
  <2>2. typed' \in [Facts -> {"no", "typed", "carried"}]
    <3>1. CountersInv
      BY DEF IInv
    <3>2. \A p \in Facts : TypedByImport(s, touched)[p] \in {"no", "typed", "carried"}
      BY <1>1, <3>1, TypedAfterImport
    <3>3. TypedByImport(s, touched) \in [Facts -> {"no", "typed", "carried"}]
      BY <3>2 DEF TypedByImport
    <3> QED BY <1>1, <3>3
  <2> QED BY <2>1, <2>2 DEF CountersInv
<1>8. LatestInv'
  <2>1. s.hash \in Nat /\ s.id \in Identifiers /\ now + 1 \in Nat
    <3>1. s.hash \in Nat /\ s.id \in Identifiers
      BY SourceAssumption DEF Identifiers
    <3>2. now + 1 \in Nat
      BY <1>1, BoundsAssumption
    <3> QED BY <3>1, <3>2
  <2>2. latest \in [Identifiers -> [hash : Nat, at : Nat]] /\ \A id \in Identifiers : latest[id].at <= now
    BY DEF IInv, LatestInv
  <2>3. latest' \in [Identifiers -> [hash : Nat, at : Nat]]
    BY <1>1, <2>1, <2>2
  <2>4. ASSUME NEW id \in Identifiers PROVE latest'[id].at <= now'
    <3>1. CASE id = s.id
      <4>1. latest'[id] = [hash |-> s.hash, at |-> now + 1]
        BY <1>1, <2>1, <2>2, <3>1
      <4> QED BY <1>1, <2>1, <4>1
    <3>2. CASE id # s.id
      <4>1. latest'[id] = latest[id] /\ latest[id].at \in Nat
        BY <1>1, <2>2, <3>2
      <4> QED BY <1>1, <2>1, <2>2, <4>1
    <3> QED BY <3>1, <3>2
  <2> QED BY <2>3, <2>4 DEF LatestInv
<1>9. CountersInv /\ TypedInv /\ TypedUntilCarried /\ Held(arch)
  BY DEF IInv
<1>10. arch'.has = b.has /\ \A k \in DOMAIN arch'.prov : k \in Members => k \in DOMAIN b.prov
  BY <1>4, ElementPointers DEF Saved
<1>11. TypedInv'
  <2>1. ASSUME NEW p \in Facts, typed'[p] # "no" PROVE p \in arch'.has
    <3>1. typed[p] # "no"
      BY <1>1, <1>9, <2>1, TypedAfterImport
    <3> QED BY <1>3, <1>9, <1>10, <3>1 DEF TypedInv
  <2>2. ASSUME NEW p \in DOMAIN arch'.prov, p \in Members PROVE typed'[p] # "no"
    <3>1. p \in Facts /\ p \in DOMAIN b.prov
      BY <1>4, <1>10, <2>2, ArchParts DEF Held, Sound
    <3>2. p \in DOMAIN arch.prov /\ \A r \in Overwritten(s, touched) : ~Under(p, r)
      BY <1>1, <1>2, <2>2, <3>1, MembersOfImport
    <3>3. typed[p] # "no"
      BY <1>9, <2>2, <3>2 DEF TypedInv
    <3> QED BY <1>1, <1>9, <3>1, <3>2, <3>3, TypedAfterImport
  <2>3. now' # 0
    BY <1>1
  <2> QED BY <2>1, <2>2, <2>3 DEF TypedInv
<1>12. TypedUntilCarried'
  <2> SUFFICES ASSUME NEW p \in Facts \cap arch'.has, typed'[p] = "typed",
                      p[1] = "edges" => StoredAbove(arch', p) # {}
               PROVE  KindOf(arch', p) = "declared"
    BY DEF TypedUntilCarried
  <2>1. typed[p] = "typed" /\ \A c \in s.carries : ~Under(p, c)
    BY <1>1, <1>9, TypedAfterImport
  <2>2. p \in arch.has /\ p \in Pointers /\ p \in b.has
    BY <1>3, <1>9, <2>1, FactCases DEF TypedInv
  <2>3. /\ DOMAIN arch.prov \subseteq Pointers /\ DOMAIN b.prov \subseteq Pointers
        /\ ElementOf(p) \in arch.has /\ ElementOf(p) \in b.has
    BY <1>3, <1>9, <2>2, ArchParts, ShapeParts DEF Held, Sound
  <2>4. \A k \in {p, ElementOf(p)} : /\ k \in DOMAIN arch.prov <=> k \in DOMAIN b.prov
                                     /\ k \in DOMAIN arch.prov => arch.prov[k] = b.prov[k]
    BY <1>1, <1>2, <2>1, <2>2, UncarriedStays
  <2>5. KindOf(b, p) = "declared" \/ (p[1] = "edges" /\ StoredAbove(b, p) = {})
    <3>1. CASE p[1] = "edges" /\ StoredAbove(arch, p) = {}
      <4>1. StoredAbove(arch, p) = DOMAIN arch.prov \cap {p, ElementOf(p)}
            /\ StoredAbove(b, p) = DOMAIN b.prov \cap {p, ElementOf(p)}
        BY <2>2, <2>3, Governs
      <4> QED BY <2>4, <3>1, <4>1
    <3>2. CASE ~(p[1] = "edges" /\ StoredAbove(arch, p) = {})
      <4>1. KindOf(arch, p) = "declared"
        BY <1>9, <2>1, <2>2, <3>2 DEF TypedUntilCarried
      <4>2. ProvenanceOf(arch, p) = ProvenanceOf(b, p)
        BY <1>3, <2>2, <2>3, <2>4, <3>2, SameAt
      <4> QED BY <4>1, <4>2 DEF KindOf
    <3> QED BY <3>1, <3>2
  <2> QED BY <1>3, <1>4, <2>2, <2>5, DeclaredStays
<1>13. IInv'
  BY <1>4, <1>6, <1>7, <1>8, <1>11, <1>12 DEF IInv
<1>14. ASSUME NEW p \in Facts \cap Members, p \in DOMAIN arch.prov, arch.prov[p].kind = "declared",
              typed'[p] = typed[p] \/ typed'[p] = "carried"
       PROVE  KindOf(arch', p) = "declared"
  <2>1. typed'[p] # "no"
    BY <1>9, <1>14 DEF TypedInv
  <2>2. \A r \in Overwritten(s, touched) : ~Under(p, r)
    BY <1>1, <1>9, <2>1, TypedAfterImport
  <2>3. p \in DOMAIN b.prov
    BY <1>1, <1>2, <1>14, <2>2, MembersOfImport
  <2>4. b.prov[p] = arch.prov[p]
    <3>1. \A k \in DOMAIN b.prov \ s.carries : b.prov[k] = arch.prov[k]
      BY <1>1, <1>2, ImportParts
    <3>2. p \notin s.carries
      BY SourceAssumption, ElementPointers
    <3> QED BY <2>3, <3>1, <3>2
  <2>5. DOMAIN b.prov \subseteq Pointers /\ DOMAIN b.prov \subseteq b.has /\ p \in Pointers
    BY <1>3, FactCases, ArchParts DEF Held, Sound
  <2>6. KindOf(b, p) = "declared" /\ p \in b.has
    BY <1>14, <2>3, <2>4, <2>5, Governs DEF KindOf
  <2>7. Rank(KindOf(arch', p)) <= 1
    BY <1>4, <2>6, Ranks DEF Saved
  <2>8. KindOf(arch', p) \in Kinds
    BY <1>4, <2>5, EntriesSuit, ResolvesToEntry DEF Held
  <2> QED BY <2>7, <2>8, Ranks
<1> QED BY <1>13, <1>14

-----------------------------------------------------------------------------
\* Patches.

\* The model a patch leaves, before its sidecar is stamped.
PatchNext(has, ends, source) == Tidy([has |-> has, source |-> source, ends |-> ends, prov |-> arch.prov])

\* The ends of the edges the patch leaves.
EndsAfter(has, ends) == [e \in Edges |-> IF EdgeAt(e) \in has THEN ends[e] ELSE Ends[e]]

\* The ends that are other ones now.
Redrawn(has, ends) ==
  {p \in EndMembers : /\ EdgeAt(p[2]) \in arch.has \cap has
                      /\ \E i \in {1, 2} : /\ p = EndAt(p[2], i)
                                          /\ arch.ends[p[2]][i] # EndsAfter(has, ends)[p[2]][i]}

\* What a patch adds or alters.
ChangedBy(has, ends, altered) ==
  (altered \cup Redrawn(has, ends) \cup {p \in has \ arch.has :
     p \in Elements \/ IsRoot(p) \/ ElementOf(p) \in arch.has}) \ Layout

AfterPatch(has, ends, source, altered, actor) ==
  StampPatch(arch, Pruned(PatchNext(has, ends, source)), ChangedBy(has, ends, altered), actor)

\* What every patch leaves: entries that were there, and others that name no import; nothing
\* stronger but what follows new ends; and what it changed declared, an edge without an entry
\* excepted.
PatchOutcome(b, has, ends, changed) ==
  /\ Held(b) /\ b.has = has /\ b.ends = ends
  /\ \A k \in DOMAIN b.prov :
       \/ k \in DOMAIN arch.prov /\ b.prov[k] = arch.prov[k]
       \/ (k \in changed \/ \E n \in Nodes : k = NodeAt(n)) /\ ~Live(b.prov[k])
  /\ \A p \in arch.has \cap has : ~FollowsNewEnds(arch, b, p) => Rank(KindOf(b, p)) <= Rank(KindOf(arch, p))
  /\ \A p \in has : (\E c \in changed : Under(p, c)) =>
       KindOf(b, p) = "declared" \/ (p[1] = "edges" /\ StoredAbove(b, p) = {})

\* The sidecar without what the patch removed.
LEMMA NextParts ==
  ASSUME IInv, NEW has \in Shapes, NEW ends, EndsAfter(has, ends) \in EndsOf(has), NEW source \in [Nodes -> Sources]
  PROVE  LET n == Pruned(PatchNext(has, ends, source))
         IN  /\ Held(n) /\ n.has = has /\ n.ends = EndsAfter(has, ends) /\ DOMAIN n.prov = DOMAIN arch.prov \cap has
             /\ \A k \in DOMAIN n.prov : n.prov[k] = arch.prov[k]
<1> DEFINE src == [n \in Nodes |-> IF NodeAt(n) \in has THEN source[n] ELSE "design"]
           drawn == EndsAfter(has, ends)
           u == [has |-> has, source |-> src, ends |-> drawn, prov |-> arch.prov]
           gone == {k \in DOMAIN arch.prov : ~Resolves(u, k)}
           f == Without(arch.prov, gone)
<1>1. PatchNext(has, ends, source) = u
  <2>1. PICK a : a = [has |-> has, source |-> source, ends |-> ends, prov |-> arch.prov]
    OBVIOUS
  <2>2. PatchNext(has, ends, source) = [a EXCEPT !.source = src, !.ends = drawn]
    BY <2>1 DEF PatchNext, Tidy, EndsAfter
  <2> HIDE DEF src, drawn
  <2>3. PatchNext(has, ends, source) = SourceEnds(a, src, drawn)
    BY <2>2 DEF SourceEnds
  <2>4. SourceEnds(a, src, drawn) = u
    BY <2>1, SourceEndsReplaced
  <2> QED BY <2>3, <2>4
<1>2. Pruned(u) = [has |-> has, source |-> src, ends |-> drawn, prov |-> f]
  <2>1. PICK v : v = u
    OBVIOUS
  <2>2. v.prov = arch.prov
    BY <2>1
  <2>3. Pruned(v) = [v EXCEPT !.prov = Without(v.prov, {k \in DOMAIN v.prov : ~Resolves(v, k)})]
    BY DEF Pruned
  <2>4. Pruned(v) = [v EXCEPT !.prov = f]
    BY <2>1, <2>2, <2>3
  <2> HIDE DEF src, drawn, f
  <2>5. [v EXCEPT !.prov = f] = [has |-> has, source |-> src, ends |-> drawn, prov |-> f]
    BY <2>1
  <2> QED BY <2>1, <2>4, <2>5
<1>3. /\ DOMAIN arch.prov \subseteq Facts /\ (\A k \in DOMAIN arch.prov : arch.prov[k] \in Entries)
      /\ \A k \in DOMAIN arch.prov : k \in Members => arch.prov[k].kind = "declared"
  BY ArchParts DEF IInv, Held, Sound
<1>4. gone = {k \in DOMAIN arch.prov : k \notin has}
  BY <1>3 DEF Resolves, Facts
<1>5. src \in [Nodes -> Sources] /\ src \in SourcesOf(has)
  BY DEF SourcesOf, Sources
<1>13. drawn \in EndsOf(has) /\ drawn \in [Edges -> Nodes \X Nodes]
  BY DEF EndsOf
<1>6. DOMAIN f = DOMAIN arch.prov \ gone /\ (\A j \in DOMAIN f : f[j] = arch.prov[j])
      /\ f = [j \in DOMAIN f |-> f[j]]
  BY WithoutParts
<1> HIDE DEF src, drawn, u, gone, f
<1>7. DOMAIN f = DOMAIN arch.prov \cap has
  BY <1>4, <1>6
<1>8. PICK n : n = Pruned(u)
  OBVIOUS
<1>9. n.has = has /\ n.source = src /\ n.ends = drawn /\ n.prov = f
  BY <1>2, <1>8
<1>10. f \in Sidecars(Entries)
  BY <1>3, <1>6, <1>7, SidecarParts
<1>11. n \in Architectures(Entries)
  BY <1>2, <1>5, <1>8, <1>10, <1>13 DEF Architectures
<1>12. Sound(n, Entries)
  BY <1>3, <1>6, <1>7, <1>9, <1>11, <1>13 DEF Sound
<1> QED BY <1>1, <1>5, <1>6, <1>7, <1>8, <1>9, <1>12 DEF Held, drawn

\* A patch changes facts it leaves in the model.
LEMMA ChangedParts ==
  ASSUME NEW has \in Shapes, NEW ends, NEW altered \in SUBSET (has \cap Members)
  PROVE  ChangedBy(has, ends, altered) \subseteq Facts \cap has
<1>1. Redrawn(has, ends) \subseteq Facts \cap has
  <2> SUFFICES ASSUME NEW p \in Redrawn(has, ends) PROVE p \in Facts \cap has
    OBVIOUS
  <2>1. p \in EndMembers /\ EdgeAt(p[2]) \in has /\ \E i \in {1, 2} : p = EndAt(p[2], i)
    BY DEF Redrawn
  <2>2. p \in Facts /\ p[2] \in Edges
    BY <2>1, EndPointers
  <2>3. EndAt(p[2], 1) \in has /\ EndAt(p[2], 2) \in has
    BY <2>1, <2>2, ShapeParts
  <2> QED BY <2>1, <2>2, <2>3
<1>2. has \subseteq Pointers
  BY ShapeParts
<1> QED BY <1>1, <1>2 DEF ChangedBy, Facts

\* A patch of a model without a sidecar that touches nothing imported.
LEMMA UnstampedPatch ==
  ASSUME IInv, NEW has \in Shapes, NEW ends, EndsAfter(has, ends) \in EndsOf(has),
         NEW source \in [Nodes -> Sources], NEW altered \in SUBSET (has \cap Members),
         NEW b, b = Pruned(PatchNext(has, ends, source)), DOMAIN b.prov = {},
         ~Touches(arch, b, ChangedBy(has, ends, altered))
  PROVE  PatchOutcome(b, has, EndsAfter(has, ends), ChangedBy(has, ends, altered))
<1> DEFINE changed == ChangedBy(has, ends, altered)
<1>1. Held(b) /\ b.has = has /\ b.ends = EndsAfter(has, ends) /\ DOMAIN arch.prov \cap has = {}
  BY NextParts
<1>2. /\ DOMAIN arch.prov \subseteq Pointers /\ arch.has \in Shapes /\ arch.has \subseteq Pointers
      /\ Sound(arch, Entries) /\ Sound(b, Entries) /\ has \subseteq Pointers /\ Suits(Entries)
      /\ b.source \in [Nodes -> Sources] /\ arch.source \in [Nodes -> Sources]
  BY <1>1, EntriesSuit, ArchParts, ShapeParts DEF IInv, Held, Sound
<1>3. /\ \A p \in changed : KindOf(arch, p) = "declared"
      /\ \A n \in Nodes : NodeAt(n) \in has =>
           SourceToKind[b.source[n]] = SourceToKind[SourcesBefore(arch)[n]]
  BY <1>1 DEF Touches
<1>4. changed \subseteq has
  BY <1>2, ChangedParts
<1> HIDE DEF changed
<1>5. ASSUME NEW n \in Nodes, NodeAt(n) \in has
      PROVE  /\ KindOf(b, NodeAt(n)) = SourceToKind[b.source[n]]
             /\ NodeAt(n) \in arch.has => KindOf(arch, NodeAt(n)) = SourceToKind[b.source[n]]
             /\ NodeAt(n) \notin arch.has => KindOf(b, NodeAt(n)) = "declared"
  <2>1. ProvenanceOf(b, NodeAt(n)) = UpgradeEntry(n, b.source[n]) /\ b.source[n] \in Sources
    BY <1>1, <1>2, <1>5, NodeResolves
  <2>2. KindOf(b, NodeAt(n)) = SourceToKind[b.source[n]]
    BY <2>1, UpgradeIsBare DEF KindOf
  <2>3. ASSUME NodeAt(n) \in arch.has PROVE KindOf(arch, NodeAt(n)) = SourceToKind[b.source[n]]
    <3>1. NodeAt(n) \notin DOMAIN arch.prov
      BY <1>1, <1>5
    <3>2. ProvenanceOf(arch, NodeAt(n)) = UpgradeEntry(n, arch.source[n]) /\ arch.source[n] \in Sources
      BY <1>2, <2>3, <3>1, NodeResolves
    <3>3. SourcesBefore(arch)[n] = arch.source[n]
      BY <2>3 DEF SourcesBefore
    <3> QED BY <1>3, <1>5, <3>2, <3>3, UpgradeIsBare DEF KindOf
  <2>4. ASSUME NodeAt(n) \notin arch.has PROVE KindOf(b, NodeAt(n)) = "declared"
    <3>1. SourcesBefore(arch)[n] = "design"
      BY <2>4 DEF SourcesBefore
    <3>2. SourceToKind["design"] = "declared"
      BY DEF SourceToKind
    <3> QED BY <1>3, <1>5, <2>2, <3>1, <3>2
  <2> QED BY <2>2, <2>3, <2>4
<1>6. \A p \in arch.has \cap has : ~FollowsNewEnds(arch, b, p) => Rank(KindOf(b, p)) <= Rank(KindOf(arch, p))
  <2>1. \A n \in Nodes : NodeAt(n) \in arch.has \cap b.has
          => Rank(KindOf(b, NodeAt(n))) <= Rank(KindOf(arch, NodeAt(n)))
    <3>1. ASSUME NEW n \in Nodes, NodeAt(n) \in arch.has \cap b.has
          PROVE  Rank(KindOf(b, NodeAt(n))) <= Rank(KindOf(arch, NodeAt(n)))
      <4>1. KindOf(b, NodeAt(n)) = KindOf(arch, NodeAt(n)) /\ NodeAt(n) \in Pointers
        BY <1>1, <1>2, <1>5, <3>1
      <4>2. KindOf(b, NodeAt(n)) \in Kinds
        BY <1>2, <4>1, ResolvesToEntry
      <4>3. Rank(KindOf(b, NodeAt(n))) \in 1..3
        BY <4>2, Ranks
      <4> QED BY <4>1, <4>3
    <3> QED BY <3>1
  <2>2. \A p \in arch.has \cap b.has : p \notin DOMAIN arch.prov /\ p \notin DOMAIN b.prov
    BY <1>1
  <2> QED BY <1>1, <1>2, <2>1, <2>2, NothingRises
<1>7. ASSUME NEW p \in has, NEW c \in changed, Under(p, c)
      PROVE  KindOf(b, p) = "declared" \/ (p[1] = "edges" /\ StoredAbove(b, p) = {})
  <2>1. p \in Pointers /\ c \in Pointers /\ c \in {p, ElementOf(p)} /\ ElementOf(p) \in has
    BY <1>2, <1>4, <1>7, PointersAbove, ShapeParts
  <2>2. CASE IsRoot(p)
    <3>1. ProvenanceOf(b, p) = Claim("declared", "")
      BY <2>1, <2>2, MemberResolves
    <3>2. Claim("declared", "").kind = "declared"
      BY ClaimFields
    <3> QED BY <3>1, <3>2 DEF KindOf
  <2>3. CASE p[1] = "nodes" /\ ElementOf(p) = NodeAt(p[2]) /\ p[2] \in Nodes /\ ~IsRoot(p)
    <3>1. KindOf(b, p) = KindOf(b, NodeAt(p[2]))
      BY <2>1, <2>3, MemberResolves DEF KindOf
    <3>2. CASE NodeAt(p[2]) \notin arch.has
      BY <1>5, <2>1, <2>3, <3>1, <3>2
    <3>3. CASE NodeAt(p[2]) \in arch.has
      <4>1. KindOf(arch, c) = "declared"
        BY <1>3
      <4>2. KindOf(arch, c) = KindOf(arch, NodeAt(p[2]))
        <5>1. CASE c = ElementOf(p)
          BY <2>3, <5>1
        <5>2. CASE c = p
          <6>1. p \notin DOMAIN arch.prov
            BY <1>1
          <6> QED BY <1>2, <2>1, <2>3, <5>2, <6>1, MemberResolves DEF KindOf
        <5> QED BY <2>1, <5>1, <5>2
      <4>3. KindOf(arch, NodeAt(p[2])) = KindOf(b, NodeAt(p[2]))
        BY <1>5, <2>1, <2>3, <3>3
      <4> QED BY <3>1, <4>1, <4>2, <4>3
    <3> QED BY <3>2, <3>3
  <2>4. CASE p[1] = "edges"
    BY <2>4 DEF StoredAbove
  <2> QED BY <2>1, <2>2, <2>3, <2>4, PointerCases
<1>8. \A k \in DOMAIN b.prov : FALSE
  OBVIOUS
<1> QED BY <1>1, <1>6, <1>7, <1>8 DEF PatchOutcome, changed

\* An architecture with another sidecar.
LEMMA WithProv ==
  ASSUME NEW E, NEW a, Sound(a, E), NEW f
  PROVE  [a EXCEPT !.prov = f] = [has |-> a.has, source |-> a.source, ends |-> a.ends, prov |-> f]
BY ArchParts DEF Sound

\* Pruning removes nothing that resolves.
LEMMA PrunedIsIdle ==
  ASSUME NEW E, NEW a, Sound(a, E)
  PROVE  Pruned(a) = a
<1> DEFINE gone == {k \in DOMAIN a.prov : ~Resolves(a, k)}
           f == Without(a.prov, gone)
<1>1. a.prov = [k \in DOMAIN a.prov |-> a.prov[k]] /\ DOMAIN a.prov \subseteq Facts \cap a.has
      /\ a = [has |-> a.has, source |-> a.source, ends |-> a.ends, prov |-> a.prov]
  <2>1. a.prov = [k \in DOMAIN a.prov |-> a.prov[k]]
    BY ArchParts DEF Sound
  <2>2. DOMAIN a.prov \subseteq Facts \cap a.has
    BY ArchParts DEF Sound
  <2>3. a = [has |-> a.has, source |-> a.source, ends |-> a.ends, prov |-> a.prov]
    BY DEF Sound, Architectures
  <2> QED BY <2>1, <2>2, <2>3
<1>2. gone = {}
  BY <1>1 DEF Resolves, Facts
<1>3. DOMAIN f = DOMAIN a.prov \ gone /\ (\A j \in DOMAIN f : f[j] = a.prov[j]) /\ f = [j \in DOMAIN f |-> f[j]]
  BY WithoutParts
<1>4. Pruned(a) = [a EXCEPT !.prov = f]
  BY DEF Pruned
<1> HIDE DEF gone, f
<1>5. f = a.prov
  <2>1. DOMAIN f = DOMAIN a.prov
    BY <1>2, <1>3
  <2> QED BY <1>1, <1>3, <2>1
<1> QED BY <1>1, <1>4, <1>5, WithProv

\* The nodes a model holds.
NodesIn(has) == {NodeAt(n) : n \in {m \in Nodes : NodeAt(m) \in has}}

MaterializedProv(a, sources) ==
  [k \in DOMAIN a.prov \cup NodesIn(a.has) |->
     IF k \in DOMAIN a.prov THEN a.prov[k] ELSE UpgradeEntry(k[2], sources[k[2]])]

\* The upgrade mapping stored for the nodes without an entry leaves a sidecar of the model.
LEMMA MaterializedKeeps ==
  ASSUME NEW E, Suits(E), NEW a, Sound(a, E), NEW sources \in [Nodes -> Sources]
  PROVE  LET m == Materialized(a, sources)
         IN  /\ Sound(m, E) /\ m.has = a.has /\ m.source = a.source /\ m.ends = a.ends
             /\ DOMAIN m.prov = DOMAIN a.prov \cup NodesIn(a.has)
             /\ \A k \in DOMAIN a.prov : m.prov[k] = a.prov[k]
             /\ \A n \in Nodes : NodeAt(n) \in a.has /\ NodeAt(n) \notin DOMAIN a.prov
                  => m.prov[NodeAt(n)] = UpgradeEntry(n, sources[n])
<1> DEFINE f == MaterializedProv(a, sources)
<1>1. Materialized(a, sources) = [has |-> a.has, source |-> a.source, ends |-> a.ends, prov |-> f]
  <2>1. Materialized(a, sources) = [a EXCEPT !.prov = f]
    BY DEF Materialized, MaterializedProv, NodesIn
  <2> QED BY <2>1, WithProv
<1>2. /\ DOMAIN f = DOMAIN a.prov \cup NodesIn(a.has) /\ f = [k \in DOMAIN f |-> f[k]]
      /\ \A k \in DOMAIN a.prov : f[k] = a.prov[k]
  BY DEF MaterializedProv
<1>3. \A n \in Nodes : NodeAt(n) \in a.has /\ NodeAt(n) \notin DOMAIN a.prov
        => NodeAt(n) \in DOMAIN f /\ f[NodeAt(n)] = UpgradeEntry(n, sources[n])
  BY ElementPointers DEF MaterializedProv, NodesIn
<1> HIDE DEF f
<1>4. PICK m : m = Materialized(a, sources)
  OBVIOUS
<1>5. /\ DOMAIN a.prov \subseteq Facts /\ DOMAIN a.prov \subseteq a.has /\ (\A k \in DOMAIN a.prov : a.prov[k] \in E)
      /\ \A k \in DOMAIN a.prov : k \in Members => a.prov[k].kind = "declared"
  BY ArchParts DEF Sound
<1>6. \A k \in NodesIn(a.has) : k \in Facts \cap a.has /\ k \notin Members /\ \E n \in Nodes : k = NodeAt(n)
  BY ElementPointers, FactCases DEF NodesIn
<1>7. \A k \in DOMAIN f : f[k] \in E
  <2>1. ASSUME NEW n \in Nodes PROVE UpgradeEntry(n, sources[n]) \in E
    BY UpgradeIsBare DEF Suits
  <2> QED BY <1>2, <1>3, <1>5, <1>6, <2>1
<1>8. DOMAIN f \subseteq Facts \cap a.has
  BY <1>2, <1>5, <1>6
<1>9. \A k \in DOMAIN f : k \in Members => f[k].kind = "declared"
  BY <1>2, <1>5, <1>6
<1>10. f = [k \in DOMAIN f |-> f[k]]
  BY <1>2
<1>11. m = [has |-> a.has, source |-> a.source, ends |-> a.ends, prov |-> f]
  BY <1>1, <1>4
<1>12. Sound(m, E) /\ m.has = a.has /\ m.source = a.source /\ m.ends = a.ends /\ m.prov = f
  BY <1>7, <1>8, <1>9, <1>10, <1>11, SoundWith
<1> QED BY <1>2, <1>3, <1>4, <1>12

\* What a person declares replaces what was said below it.
LEMMA DeclaredKeeps ==
  ASSUME NEW E, NEW a, Sound(a, E), NEW e \in E, e.kind = "declared",
         NEW pointers \in SUBSET (Facts \cap a.has)
  PROVE  LET d == Declared(a, e, pointers)
         IN  /\ Sound(d, E) /\ d.has = a.has /\ d.source = a.source /\ d.ends = a.ends
             /\ pointers \subseteq DOMAIN d.prov
             /\ \A k \in pointers : d.prov[k] = e
             /\ \A k \in DOMAIN d.prov \ pointers :
                  /\ k \in DOMAIN a.prov /\ d.prov[k] = a.prov[k]
                  /\ \A p \in pointers : ~Under(k, p)
             /\ \A k \in DOMAIN a.prov : k \in DOMAIN d.prov \/ \E p \in pointers : k # p /\ Under(k, p)
<1> DEFINE gone == {k \in DOMAIN a.prov : \E p \in pointers : k # p /\ Under(k, p)}
           g == Without(a.prov, gone)
           f == [k \in DOMAIN g \cup pointers |-> IF k \in pointers THEN e ELSE g[k]]
<1>1. Declared(a, e, pointers) = [has |-> a.has, source |-> a.source, ends |-> a.ends, prov |-> f]
  <2>1. Declared(a, e, pointers) =
          [a EXCEPT !.prov = [k \in DOMAIN DropUnder(a.prov, pointers) \cup pointers |->
                                IF k \in pointers THEN e ELSE a.prov[k]]]
    BY DEF Declared
  <2>2. DropUnder(a.prov, pointers) = g
    BY DEF DropUnder
  <2>3. \A j \in DOMAIN g : g[j] = a.prov[j]
    BY WithoutParts
  <2> HIDE DEF g
  <2>4. [k \in DOMAIN g \cup pointers |-> IF k \in pointers THEN e ELSE a.prov[k]] = f
    BY <2>3
  <2> HIDE DEF f
  <2>5. Declared(a, e, pointers) = [a EXCEPT !.prov = f]
    BY <2>1, <2>2, <2>4
  <2> QED BY <2>5, WithProv
<1>2. DOMAIN g = DOMAIN a.prov \ gone /\ \A j \in DOMAIN g : g[j] = a.prov[j]
  BY WithoutParts
<1> HIDE DEF g
<1>3. /\ DOMAIN f = DOMAIN g \cup pointers /\ (\A k \in pointers : f[k] = e)
      /\ \A k \in DOMAIN f \ pointers : f[k] = g[k]
  OBVIOUS
<1>4. f = [k \in DOMAIN f |-> f[k]]
  OBVIOUS
<1> HIDE DEF f
<1>5. \A k \in DOMAIN a.prov : k \in gone <=> \E p \in pointers : k # p /\ Under(k, p)
  OBVIOUS
<1>13. gone \subseteq DOMAIN a.prov
  OBVIOUS
<1> HIDE DEF gone
<1>6. \A k \in DOMAIN f \ pointers :
        /\ k \in DOMAIN a.prov /\ f[k] = a.prov[k]
        /\ \A p \in pointers : ~Under(k, p)
  BY <1>2, <1>3, <1>5
<1>7. \A k \in DOMAIN a.prov : k \in DOMAIN f \/ \E p \in pointers : k # p /\ Under(k, p)
  BY <1>2, <1>3, <1>5
<1>8. /\ DOMAIN a.prov \subseteq Facts /\ DOMAIN a.prov \subseteq a.has /\ (\A k \in DOMAIN a.prov : a.prov[k] \in E)
      /\ \A k \in DOMAIN a.prov : k \in Members => a.prov[k].kind = "declared"
  BY ArchParts DEF Sound
<1>9. PICK d : d = Declared(a, e, pointers)
  OBVIOUS
<1>10. DOMAIN f \subseteq Facts \cap a.has
  BY <1>3, <1>6, <1>8
<1>11. (\A k \in DOMAIN f : f[k] \in E) /\ \A k \in DOMAIN f : k \in Members => f[k].kind = "declared"
  BY <1>3, <1>6, <1>8
<1>14. d = [has |-> a.has, source |-> a.source, ends |-> a.ends, prov |-> f]
  BY <1>1, <1>9
<1>12. Sound(d, E) /\ d.has = a.has /\ d.source = a.source /\ d.ends = a.ends /\ d.prov = f
  BY <1>4, <1>10, <1>11, <1>14, SoundWith
<1> QED BY <1>3, <1>6, <1>7, <1>9, <1>12

\* Who declares by a patch.
ClaimedBy(actor) == [Claim("declared", "") EXCEPT !.by = actor]

\* An entry with another person.
LEMMA SignedBy ==
  ASSUME NEW r \in Entries, NEW person \in Actors \cup Importers \cup {""}
  PROVE  LET e == [r EXCEPT !.by = person]
         IN  e \in Entries /\ e.kind = r.kind /\ e.id = r.id /\ e.seen = r.seen
BY DEF Entries

\* A patch's entry is an entry that names its author.
LEMMA ClaimedByParts ==
  ASSUME NEW actor \in Actors
  PROVE  ClaimedBy(actor) \in Entries /\ ClaimedBy(actor).kind = "declared"
<1>1. "declared" \in Kinds /\ "" \in Ids
  BY DEF Kinds, Ids
<1>2. Claim("declared", "") \in Entries /\ Claim("declared", "").kind = "declared"
  BY <1>1, BareClaims, EntriesSuit DEF Suits
<1> QED BY <1>2, SignedBy DEF ClaimedBy

\* A patch whose changes are stamped.
LEMMA StampedPatch ==
  ASSUME IInv, NEW has \in Shapes, NEW ends, EndsAfter(has, ends) \in EndsOf(has),
         NEW source \in [Nodes -> Sources], NEW altered \in SUBSET (has \cap Members),
         NEW actor \in Actors, NEW n, n = Pruned(PatchNext(has, ends, source)),
         NEW b, b = Declared(Materialized(Pruned(n), SourcesBefore(arch)), ClaimedBy(actor), ChangedBy(has, ends, altered))
  PROVE  PatchOutcome(b, has, EndsAfter(has, ends), ChangedBy(has, ends, altered))
<1> DEFINE changed == ChangedBy(has, ends, altered)
           m == Materialized(n, SourcesBefore(arch))
           c == ClaimedBy(actor)
<1>1. Held(n) /\ n.has = has /\ n.ends = EndsAfter(has, ends) /\ DOMAIN n.prov = DOMAIN arch.prov \cap has
      /\ \A k \in DOMAIN n.prov : n.prov[k] = arch.prov[k]
  BY NextParts
<1>2. /\ DOMAIN arch.prov \subseteq Pointers /\ arch.has \in Shapes /\ arch.has \subseteq Pointers
      /\ Sound(arch, Entries) /\ Sound(n, Entries) /\ has \subseteq Pointers /\ Suits(Entries)
      /\ arch.source \in [Nodes -> Sources] /\ DOMAIN arch.prov \subseteq arch.has
  BY <1>1, EntriesSuit, ArchParts, ShapeParts DEF IInv, Held, Sound
<1>3. SourcesBefore(arch) \in [Nodes -> Sources]
      /\ \A x \in Nodes : NodeAt(x) \in arch.has => SourcesBefore(arch)[x] = arch.source[x]
  BY <1>2 DEF SourcesBefore, Sources
<1>4. b = Declared(m, c, changed)
  <2>1. Pruned(n) = n
    BY <1>2, PrunedIsIdle
  <2> QED BY <2>1
<1>5. /\ Sound(m, Entries) /\ m.has = has /\ m.source = n.source /\ m.ends = n.ends
      /\ DOMAIN m.prov = DOMAIN n.prov \cup NodesIn(has)
      /\ \A k \in DOMAIN n.prov : m.prov[k] = n.prov[k]
      /\ \A x \in Nodes : NodeAt(x) \in has /\ NodeAt(x) \notin DOMAIN n.prov
           => m.prov[NodeAt(x)] = UpgradeEntry(x, SourcesBefore(arch)[x])
  BY <1>1, <1>2, <1>3, MaterializedKeeps
<1>6. changed \in SUBSET (Facts \cap m.has) /\ changed \subseteq has
  BY <1>2, <1>5, ChangedParts
<1>7. c \in Entries /\ c.kind = "declared"
  BY ClaimedByParts
<1> HIDE DEF changed, m, c
<1>8. /\ Sound(b, Entries) /\ b.has = has /\ b.source = n.source /\ b.ends = n.ends
      /\ changed \subseteq DOMAIN b.prov
      /\ \A k \in changed : b.prov[k] = c
      /\ \A k \in DOMAIN b.prov \ changed :
           /\ k \in DOMAIN m.prov /\ b.prov[k] = m.prov[k]
           /\ \A p \in changed : ~Under(k, p)
      /\ \A k \in DOMAIN m.prov : k \in DOMAIN b.prov \/ \E p \in changed : k # p /\ Under(k, p)
  BY <1>4, <1>5, <1>6, <1>7, DeclaredKeeps
<1>9. Held(b)
  BY <1>1, <1>8 DEF Held
<1>10. DOMAIN b.prov \subseteq Pointers /\ b.has \in Shapes
  BY <1>8, ArchParts DEF Sound
<1>11. ASSUME NEW p \in Pointers, NEW q \in changed, Under(p, q) PROVE KindOf(b, p) = "declared"
  <2>1. q \in Pointers /\ q \in {p, ElementOf(p)}
    BY <1>2, <1>6, <1>11, PointersAbove
  <2>2. CASE p \in DOMAIN b.prov
    <3>1. p \in changed
      BY <1>8, <1>11, <2>2
    <3> QED BY <1>7, <1>8, <1>10, <2>2, <3>1, Governs DEF KindOf
  <2>3. CASE p \notin DOMAIN b.prov
    <3>1. q = ElementOf(p) /\ q \in DOMAIN b.prov
      BY <1>8, <2>1, <2>3
    <3> QED BY <1>7, <1>8, <1>10, <2>3, <3>1, Governs DEF KindOf
  <2> QED BY <2>2, <2>3
<1>12. ASSUME NEW k \in DOMAIN b.prov
       PROVE  \/ k \in DOMAIN arch.prov /\ b.prov[k] = arch.prov[k]
              \/ (k \in changed \/ \E x \in Nodes : k = NodeAt(x)) /\ ~Live(b.prov[k])
  <2>1. CASE k \in changed
    BY <1>7, <1>8, <2>1 DEF Live
  <2>2. CASE k \notin changed /\ k \in DOMAIN n.prov
    BY <1>1, <1>5, <1>8, <2>2
  <2>3. CASE k \notin changed /\ k \notin DOMAIN n.prov
    <3>1. k \in NodesIn(has) /\ b.prov[k] = m.prov[k]
      BY <1>5, <1>8, <2>3
    <3>2. PICK x \in Nodes : k = NodeAt(x) /\ NodeAt(x) \in has
      BY <3>1 DEF NodesIn
    <3>3. b.prov[k] = UpgradeEntry(x, SourcesBefore(arch)[x]) /\ SourcesBefore(arch)[x] \in Sources
      BY <1>3, <1>5, <2>3, <3>1, <3>2
    <3>4. b.prov[k].seen = 0
      BY <3>3, UpgradeIsBare
    <3> QED BY <3>2, <3>4 DEF Live
  <2> QED BY <2>1, <2>2, <2>3
<1>13. ASSUME NEW x \in Nodes, NodeAt(x) \in arch.has \cap b.has
       PROVE  Rank(KindOf(b, NodeAt(x))) <= Rank(KindOf(arch, NodeAt(x)))
  <2>1. NodeAt(x) \in Pointers /\ NodeAt(x) \in NodesIn(has) /\ ElementOf(NodeAt(x)) = NodeAt(x)
    BY <1>2, <1>8, <1>13, ElementPointers DEF NodesIn
  <2>2. KindOf(arch, NodeAt(x)) \in Kinds /\ Rank(KindOf(arch, NodeAt(x))) \in 1..3
    BY <1>2, <2>1, ResolvesToEntry, Ranks
  <2>3. CASE \E q \in changed : Under(NodeAt(x), q)
    <3>1. KindOf(b, NodeAt(x)) = "declared"
      BY <1>11, <2>1, <2>3
    <3> QED BY <2>2, <3>1, Ranks
  <2>4. CASE ~\E q \in changed : Under(NodeAt(x), q)
    <3>1. NodeAt(x) \notin changed
      BY <2>1, <2>4, PointersAbove
    <3>2. NodeAt(x) \in DOMAIN b.prov /\ b.prov[NodeAt(x)] = m.prov[NodeAt(x)]
      BY <1>5, <1>8, <2>1, <2>4, <3>1
    <3>3. KindOf(b, NodeAt(x)) = m.prov[NodeAt(x)].kind
      BY <1>10, <2>1, <3>2, Governs DEF KindOf
    <3>4. CASE NodeAt(x) \in DOMAIN n.prov
      <4>1. m.prov[NodeAt(x)] = arch.prov[NodeAt(x)] /\ NodeAt(x) \in DOMAIN arch.prov
        BY <1>1, <1>5, <3>4
      <4>2. KindOf(arch, NodeAt(x)) = arch.prov[NodeAt(x)].kind
        BY <1>2, <2>1, <4>1, Governs DEF KindOf
      <4> QED BY <2>2, <3>3, <4>1, <4>2
    <3>5. CASE NodeAt(x) \notin DOMAIN n.prov
      <4>1. NodeAt(x) \notin DOMAIN arch.prov
        BY <1>1, <1>8, <1>13, <3>5
      <4>2. ProvenanceOf(arch, NodeAt(x)) = UpgradeEntry(x, arch.source[x])
        BY <1>2, <1>13, <4>1, NodeResolves
      <4>3. m.prov[NodeAt(x)] = UpgradeEntry(x, arch.source[x])
        BY <1>3, <1>5, <1>8, <1>13, <3>5
      <4> QED BY <2>2, <3>3, <4>2, <4>3 DEF KindOf
    <3> QED BY <3>4, <3>5
  <2> QED BY <2>3, <2>4
<1>14. ASSUME NEW p \in arch.has \cap b.has, \A x \in Nodes : p # NodeAt(x)
       PROVE  \/ KindOf(b, p) = "declared" \/ KindOf(b, p) = KindOf(arch, p)
              \/ p \notin DOMAIN arch.prov /\ p \notin DOMAIN b.prov
  <2>1. p \in Pointers
    BY <1>2
  <2>2. CASE \E q \in changed : Under(p, q)
    BY <1>11, <2>1, <2>2
  <2>3. CASE (~\E q \in changed : Under(p, q)) /\ p \in DOMAIN arch.prov
    <3>1. p \in DOMAIN n.prov /\ p \in DOMAIN m.prov /\ p \notin changed
      BY <1>1, <1>5, <1>8, <1>14, <2>1, <2>3, PointersAbove
    <3>2. p \in DOMAIN b.prov
      BY <1>8, <2>3, <3>1
    <3>3. b.prov[p] = arch.prov[p]
      BY <1>1, <1>5, <1>8, <3>1, <3>2
    <3> QED BY <1>2, <1>10, <2>1, <2>3, <3>2, <3>3, Governs DEF KindOf
  <2>4. CASE (~\E q \in changed : Under(p, q)) /\ p \notin DOMAIN arch.prov
    <3>1. p \notin changed
      BY <2>1, <2>4, PointersAbove
    <3>2. p \notin DOMAIN b.prov
      BY <1>12, <1>14, <2>4, <3>1
    <3> QED BY <2>4, <3>2
  <2> QED BY <2>2, <2>3, <2>4
<1>15. \A p \in arch.has \cap has : ~FollowsNewEnds(arch, b, p) => Rank(KindOf(b, p)) <= Rank(KindOf(arch, p))
  <2>1. \A p \in arch.has \cap b.has : ~FollowsNewEnds(arch, b, p) => Rank(KindOf(b, p)) <= Rank(KindOf(arch, p))
    BY <1>2, <1>8, <1>13, <1>14, NothingRises
  <2> QED BY <1>8, <2>1
<1>16. \A p \in has : (\E q \in changed : Under(p, q)) => KindOf(b, p) = "declared"
  BY <1>2, <1>11
<1> QED BY <1>1, <1>8, <1>9, <1>12, <1>15, <1>16 DEF PatchOutcome, changed

\* What a patch writes of the ghosts.
TypedByPatch(has, ends, altered) ==
  [p \in Facts |-> IF p \notin has THEN "no"
                   ELSE IF \E c \in ChangedBy(has, ends, altered) : Under(p, c) THEN "typed" ELSE typed[p]]

NoneRises ==
  \A p \in Facts \cap arch.has \cap arch'.has :
    ~FollowsNewEnds(arch, arch', p) => Rank(KindOf(arch', p)) <= Rank(KindOf(arch, p))

\* A patch as the steps it takes.
LEMMA PatchSteps ==
  ASSUME NEW has \in SUBSET Pointers, \A p \in has : IsRoot(p) \/ ElementOf(p) \in has,
         NEW ends \in [Edges -> Nodes \X Nodes], NEW source \in [Nodes -> Sources],
         NEW altered \in SUBSET (has \cap Members), NEW actor \in Actors,
         Patch(has, ends, source, altered, actor)
  PROVE  /\ has \in Shapes /\ EndsAfter(has, ends) \in EndsOf(has) /\ now # 0 /\ patches < MaxPatches
         /\ Save(AfterPatch(has, ends, source, altered, actor))
         /\ typed' = TypedByPatch(has, ends, altered)
         /\ now' = now /\ latest' = latest /\ patches' = patches + 1
<1> DEFINE n == PatchNext(has, ends, source)
<1>1. n.has = has /\ n.ends = EndsAfter(has, ends)
  BY DEF PatchNext, Tidy, EndsAfter
<1>2. Changed(arch, n, altered) = ChangedBy(has, ends, altered)
  <2>1. OtherEnds(arch, n) = Redrawn(has, ends)
    BY <1>1 DEF OtherEnds, Redrawn
  <2> QED BY <1>1, <2>1 DEF Changed, ChangedBy
<1>3. /\ now > 0 /\ patches < MaxPatches
      /\ Allowed(arch, n, altered)
      /\ Save(StampPatch(arch, Pruned(n), Changed(arch, n, altered), actor))
      /\ typed' = [p \in Facts |->
           IF p \notin has THEN "no"
           ELSE IF \E c \in Changed(arch, n, altered) : Under(p, c) THEN "typed" ELSE typed[p]]
      /\ patches' = patches + 1
      /\ now' = now /\ latest' = latest
  BY DEF Patch, PatchNext
<1> HIDE DEF n
<1>4. \A e \in Edges : EdgeAt(e) \in has =>
        /\ EndNodes(EndsAfter(has, ends), e) \subseteq has
        /\ {EndAt(e, 1), EndAt(e, 2)} \subseteq has
  <2>1. \A e \in Edges : EndNodes(n.ends, e) = EndNodes(EndsAfter(has, ends), e)
    BY <1>1
  <2> QED BY <1>1, <1>3, <2>1 DEF Allowed
<1>5. has \in Shapes
  BY <1>4 DEF Shapes
<1>9. EndsAfter(has, ends) \in EndsOf(has)
  <2>1. EndsAfter(has, ends) \in [Edges -> Nodes \X Nodes]
    BY ModelAssumption DEF EndsAfter
  <2>2. \A e \in Edges : EdgeAt(e) \notin has => EndsAfter(has, ends)[e] = Ends[e]
    BY DEF EndsAfter
  <2> QED BY <1>4, <2>1, <2>2 DEF EndsOf
<1>6. Save(AfterPatch(has, ends, source, altered, actor))
  BY <1>2, <1>3 DEF AfterPatch, n
<1>7. typed' = TypedByPatch(has, ends, altered)
  BY <1>2, <1>3 DEF TypedByPatch
<1>8. now # 0
  BY <1>3
<1> QED BY <1>3, <1>5, <1>6, <1>7, <1>8, <1>9

\* What a patch leaves before it is saved, stamped or not.
LEMMA PatchOutcomes ==
  ASSUME IInv, NEW has \in Shapes, NEW ends, EndsAfter(has, ends) \in EndsOf(has),
         NEW source \in [Nodes -> Sources], NEW altered \in SUBSET (has \cap Members),
         NEW actor \in Actors
  PROVE  PatchOutcome(AfterPatch(has, ends, source, altered, actor), has, EndsAfter(has, ends), ChangedBy(has, ends, altered))
<1>1. PICK n : n = Pruned(PatchNext(has, ends, source))
  OBVIOUS
<1>2. CASE DOMAIN n.prov = {} /\ ~Touches(arch, n, ChangedBy(has, ends, altered))
  <2>1. AfterPatch(has, ends, source, altered, actor) = n
    BY <1>1, <1>2 DEF AfterPatch, StampPatch
  <2> QED BY <1>1, <1>2, <2>1, UnstampedPatch
<1>3. CASE ~(DOMAIN n.prov = {} /\ ~Touches(arch, n, ChangedBy(has, ends, altered)))
  <2>1. PICK b : b = Declared(Materialized(Pruned(n), SourcesBefore(arch)), ClaimedBy(actor), ChangedBy(has, ends, altered))
    OBVIOUS
  <2>2. AfterPatch(has, ends, source, altered, actor) = b
    BY <1>1, <1>3, <2>1 DEF AfterPatch, StampPatch, ClaimedBy
  <2> QED BY <1>1, <2>1, <2>2, StampedPatch
<1> QED BY <1>2, <1>3

\* What a patch leaves typed.
LEMMA TypedAfterPatch ==
  ASSUME CountersInv, NEW has, NEW ends, NEW altered, NEW p \in Facts
  PROVE  /\ TypedByPatch(has, ends, altered)[p] \in {"no", "typed", "carried"}
         /\ TypedByPatch(has, ends, altered)[p] # "no" <=>
              p \in has /\ (typed[p] # "no" \/ \E c \in ChangedBy(has, ends, altered) : Under(p, c))
         /\ TypedByPatch(has, ends, altered)[p] = "typed" =>
              p \in has /\ (typed[p] = "typed" \/ \E c \in ChangedBy(has, ends, altered) : Under(p, c))
<1>1. TypedByPatch(has, ends, altered)[p] =
        IF p \notin has THEN "no"
        ELSE IF \E c \in ChangedBy(has, ends, altered) : Under(p, c) THEN "typed" ELSE typed[p]
  BY DEF TypedByPatch
<1>2. typed[p] \in {"no", "typed", "carried"}
  BY DEF CountersInv
<1>3. CASE p \notin has
  BY <1>1, <1>3
<1>4. CASE p \in has /\ \E c \in ChangedBy(has, ends, altered) : Under(p, c)
  BY <1>1, <1>4
<1>5. CASE p \in has /\ ~\E c \in ChangedBy(has, ends, altered) : Under(p, c)
  BY <1>1, <1>2, <1>5
<1> QED BY <1>3, <1>4, <1>5

\* A patch keeps the invariant and raises nothing that does not follow new ends.
LEMMA PatchStep ==
  ASSUME IInv, NEW has \in SUBSET Pointers, \A p \in has : IsRoot(p) \/ ElementOf(p) \in has,
         NEW ends \in [Edges -> Nodes \X Nodes], NEW source \in [Nodes -> Sources],
         NEW altered \in SUBSET (has \cap Members), NEW actor \in Actors,
         Patch(has, ends, source, altered, actor)
  PROVE  IInv' /\ NoneRises
<1> DEFINE changed == ChangedBy(has, ends, altered)
<1>1. /\ has \in Shapes /\ EndsAfter(has, ends) \in EndsOf(has) /\ now # 0 /\ patches < MaxPatches
      /\ Save(AfterPatch(has, ends, source, altered, actor))
      /\ typed' = TypedByPatch(has, ends, altered)
      /\ now' = now /\ latest' = latest /\ patches' = patches + 1
  BY PatchSteps
<1>2. PICK b : b = AfterPatch(has, ends, source, altered, actor)
  OBVIOUS
<1>3. PatchOutcome(b, has, EndsAfter(has, ends), changed)
  BY <1>1, <1>2, PatchOutcomes
<1> HIDE DEF changed
<1>4. /\ Held(b) /\ b.has = has
      /\ \A k \in DOMAIN b.prov :
           \/ k \in DOMAIN arch.prov /\ b.prov[k] = arch.prov[k]
           \/ (k \in changed \/ \E n \in Nodes : k = NodeAt(n)) /\ ~Live(b.prov[k])
      /\ \A p \in arch.has \cap has : ~FollowsNewEnds(arch, b, p) => Rank(KindOf(b, p)) <= Rank(KindOf(arch, p))
      /\ \A p \in has : (\E c \in changed : Under(p, c)) =>
           KindOf(b, p) = "declared" \/ (p[1] = "edges" /\ StoredAbove(b, p) = {})
  BY <1>3 DEF PatchOutcome
<1>5. Held(arch') /\ Saved(b, arch') /\ SavedModelIsValid' /\ CompactionUnderstates'
  BY <1>1, <1>2, <1>4, SaveKeeps
<1>6. CountersInv /\ TypedInv /\ TypedUntilCarried /\ Held(arch) /\ LatestInv /\ AllWitnessed(arch, now, latest)
  BY DEF IInv
<1>7. /\ DOMAIN arch.prov \subseteq Pointers /\ DOMAIN b.prov \subseteq Pointers /\ has \subseteq Pointers
      /\ Sound(arch, Entries) /\ Sound(b, Entries) /\ Sound(arch', Entries) /\ Suits(Entries)
      /\ DOMAIN b.prov \subseteq has /\ DOMAIN b.prov \subseteq Facts
  BY <1>4, <1>5, <1>6, EntriesSuit, ArchParts DEF Held, Sound
<1>8. AllWitnessed(arch', now', latest')
  <2>1. AllWitnessed(b, now, latest)
    BY <1>4, <1>6 DEF AllWitnessed
  <2> QED BY <1>1, <1>5, <2>1, WitnessedStays
<1>9. CountersInv'
  <2>1. patches' \in 0..MaxPatches /\ now' \in 0..MaxImports + 1
    BY <1>1, <1>6, BoundsAssumption DEF CountersInv
  <2>2. TypedByPatch(has, ends, altered) \in [Facts -> {"no", "typed", "carried"}]
    <3>1. \A p \in Facts : TypedByPatch(has, ends, altered)[p] \in {"no", "typed", "carried"}
      BY <1>6, TypedAfterPatch
    <3> QED BY <3>1 DEF TypedByPatch
  <2> QED BY <1>1, <2>1, <2>2 DEF CountersInv
<1>10. LatestInv'
  BY <1>1, <1>6 DEF LatestInv
<1>11. arch'.has = has /\ \A k \in DOMAIN arch'.prov : k \in Members => k \in DOMAIN b.prov
  BY <1>4, <1>5, ElementPointers DEF Saved
<1>12. TypedInv'
  <2>1. ASSUME NEW p \in Facts, typed'[p] # "no" PROVE p \in arch'.has
    BY <1>1, <1>6, <1>11, <2>1, TypedAfterPatch
  <2>2. ASSUME NEW p \in DOMAIN arch'.prov, p \in Members PROVE typed'[p] # "no"
    <3>1. p \in DOMAIN b.prov /\ p \in has /\ p \in Facts /\ p \in Pointers
      BY <1>7, <1>11, <2>2
    <3>2. \A n \in Nodes : p # NodeAt(n)
      BY <2>2, ElementPointers
    <3>3. p \in DOMAIN arch.prov \/ p \in changed
      BY <1>4, <3>1, <3>2
    <3>4. CASE p \in DOMAIN arch.prov
      <4>1. typed[p] # "no"
        BY <1>6, <2>2, <3>4 DEF TypedInv
      <4> QED BY <1>1, <1>6, <3>1, <4>1, TypedAfterPatch
    <3>5. CASE p \in changed
      <4>1. Under(p, p)
        BY <3>1, PointersAbove
      <4>2. \E c \in ChangedBy(has, ends, altered) : Under(p, c)
        BY <3>5, <4>1 DEF changed
      <4> QED BY <1>1, <1>6, <3>1, <4>2, TypedAfterPatch
    <3> QED BY <3>3, <3>4, <3>5
  <2>3. now' # 0
    BY <1>1
  <2> QED BY <2>1, <2>2, <2>3 DEF TypedInv
<1>13. TypedUntilCarried'
  <2> SUFFICES ASSUME NEW p \in Facts \cap arch'.has, typed'[p] = "typed",
                      p[1] = "edges" => StoredAbove(arch', p) # {}
               PROVE  KindOf(arch', p) = "declared"
    BY DEF TypedUntilCarried
  <2>1. p \in has /\ p \in Pointers /\ p \in b.has /\ (typed[p] = "typed" \/ \E c \in changed : Under(p, c))
    BY <1>1, <1>4, <1>6, <1>7, <1>11, TypedAfterPatch DEF changed
  <2>2. KindOf(b, p) = "declared" \/ (p[1] = "edges" /\ StoredAbove(b, p) = {})
    <3>1. CASE \E c \in changed : Under(p, c)
      BY <1>4, <2>1, <3>1
    <3>2. CASE typed[p] = "typed" /\ ~\E c \in changed : Under(p, c)
      <4>1. p \in arch.has
        BY <1>6, <3>2 DEF TypedInv
      <4>2. CASE p[1] = "edges" /\ StoredAbove(arch, p) = {}
        <5>1. StoredAbove(arch, p) = DOMAIN arch.prov \cap {p, ElementOf(p)}
              /\ StoredAbove(b, p) = DOMAIN b.prov \cap {p, ElementOf(p)}
          BY <1>7, <2>1, Governs
        <5>2. p \notin changed /\ ElementOf(p) \notin changed
          BY <2>1, <3>2, PointersAbove
        <5>3. ASSUME NEW n \in Nodes PROVE p # NodeAt(n) /\ ElementOf(p) # NodeAt(n)
          <6>1. p[1] # "nodes" /\ ElementOf(p)[1] = p[1]
            BY <2>1, <4>2, PointerCases, PointersAbove
          <6> QED BY <6>1, ElementPointers
        <5>4. p \notin DOMAIN b.prov /\ ElementOf(p) \notin DOMAIN b.prov
          BY <1>4, <4>2, <5>1, <5>2, <5>3
        <5> QED BY <4>2, <5>1, <5>4
      <4>3. CASE ~(p[1] = "edges" /\ StoredAbove(arch, p) = {})
        <5>1. KindOf(arch, p) = "declared"
          BY <1>6, <3>2, <4>1, <4>3 DEF TypedUntilCarried
        <5>2. CASE FollowsNewEnds(arch, b, p)
          BY <5>2 DEF FollowsNewEnds
        <5>3. CASE ~FollowsNewEnds(arch, b, p)
          <6>1. Rank(KindOf(b, p)) <= 1 /\ KindOf(b, p) \in Kinds
            BY <1>4, <1>7, <2>1, <4>1, <5>1, <5>3, Ranks, ResolvesToEntry
          <6> QED BY <6>1, Ranks
        <5> QED BY <5>2, <5>3
      <4> QED BY <4>2, <4>3
    <3> QED BY <2>1, <3>1, <3>2
  <2> QED BY <1>4, <1>5, <2>1, <2>2, DeclaredStays
<1>14. IInv'
  BY <1>5, <1>8, <1>9, <1>10, <1>12, <1>13 DEF IInv
<1>15. ASSUME NEW p \in Facts \cap arch.has \cap arch'.has, ~FollowsNewEnds(arch, arch', p)
       PROVE  Rank(KindOf(arch', p)) <= Rank(KindOf(arch, p))
  <2>1. p \in Pointers /\ p \in has /\ p \in b.has
    BY <1>4, <1>7, <1>11
  <2>2. Rank(KindOf(arch', p)) <= Rank(KindOf(b, p))
    BY <1>5, <2>1 DEF Saved
  <2>3. Rank(KindOf(arch', p)) \in 1..3 /\ Rank(KindOf(b, p)) \in 1..3 /\ Rank(KindOf(arch, p)) \in 1..3
    BY <1>7, <2>1, ResolvesToEntry, Ranks
  <2>4. CASE ~FollowsNewEnds(arch, b, p)
    <3>1. Rank(KindOf(b, p)) <= Rank(KindOf(arch, p))
      BY <1>4, <2>1, <2>4
    <3> QED BY <2>2, <2>3, <3>1
  <2>5. CASE FollowsNewEnds(arch, b, p)
    <3>1. p[1] = "edges" /\ StoredAbove(b, p) = {} /\ StoredAbove(arch', p) # {}
      BY <1>5, <1>15, <2>5 DEF FollowsNewEnds, Saved
    <3>2. KindOf(arch', p) = "declared"
      BY <1>4, <1>5, <2>1, <3>1, DeclaredStays
    <3> QED BY <2>3, <3>2, Ranks
  <2> QED BY <2>4, <2>5
<1> QED BY <1>14, <1>15 DEF NoneRises

\* What is left when something and all below it goes.
LEMMA RemovalKeeps ==
  ASSUME IInv, NEW gone \in SUBSET Pointers
  PROVE  LET has == {q \in arch.has : \A r \in gone : ~Under(q, r)}
         IN  has \in SUBSET Pointers /\ \A p \in has : IsRoot(p) \/ ElementOf(p) \in has
<1>1. arch.has \in Shapes /\ arch.has \subseteq Pointers
  BY ArchParts DEF IInv, Held, Sound
<1>2. ASSUME NEW p \in arch.has, \A r \in gone : ~Under(p, r)
      PROVE  ElementOf(p) \in arch.has /\ \A r \in gone : ~Under(ElementOf(p), r)
  <2>1. ElementOf(p) \in arch.has
    BY <1>1, ShapeParts
  <2>2. ASSUME NEW r \in gone PROVE ~Under(ElementOf(p), r)
    BY <1>1, <1>2, PointersAbove
  <2> QED BY <2>1, <2>2
<1> QED BY <1>1, <1>2

\* What patches start from.
LEMMA BeforePatch ==
  ASSUME IInv
  PROVE  /\ arch.has \in SUBSET Pointers /\ arch.source \in [Nodes -> Sources]
         /\ arch.ends \in [Edges -> Nodes \X Nodes]
         /\ \A p \in arch.has : IsRoot(p) \/ ElementOf(p) \in arch.has
BY ArchParts, ShapeParts DEF IInv, Held, Sound

\* What an element brings with it is below it.
LEMMA AdditionKeeps ==
  ASSUME IInv, NEW p \in Pointers, IsRoot(p) \/ p \in Elements \/ ElementOf(p) \in arch.has,
         NEW members \in SUBSET {q \in Members : Under(q, p)}
  PROVE  LET has == arch.has \cup {p} \cup members
         IN  has \in SUBSET Pointers /\ \A q \in has : IsRoot(q) \/ ElementOf(q) \in has
<1> DEFINE has == arch.has \cup {p} \cup members
<1>1. has \in SUBSET Pointers
  BY BeforePatch DEF Pointers
<1>2. ASSUME NEW q \in has PROVE IsRoot(q) \/ ElementOf(q) \in has
  <2>1. CASE q \in arch.has
    BY <2>1, BeforePatch
  <2>2. CASE q = p
    BY <2>2, ElementPointers
  <2>3. CASE q \in members /\ q # p
    <3>1. q \in Members /\ q \in Pointers /\ Under(q, p) /\ p \in Pointers
      BY <2>3 DEF Pointers
    <3>2. p = ElementOf(q)
      BY <2>3, <3>1, PointersAbove
    <3> QED BY <3>2
  <2> QED BY <2>1, <2>2, <2>3
<1> QED BY <1>1, <1>2

\* An added node is a patch.
LEMMA AddNodeStep ==
  ASSUME IInv, NEW actor \in Actors, AddNode(actor)
  PROVE  IInv' /\ NoneRises
<1>1. PICK n \in Nodes, s \in Sources : \E members \in SUBSET {q \in Members : Under(q, NodeAt(n))} :
        Patch(arch.has \cup {NodeAt(n)} \cup members, arch.ends, [arch.source EXCEPT ![n] = s], {}, actor)
  BY DEF AddNode
<1>2. PICK members \in SUBSET {q \in Members : Under(q, NodeAt(n))} :
        Patch(arch.has \cup {NodeAt(n)} \cup members, arch.ends, [arch.source EXCEPT ![n] = s], {}, actor)
  BY <1>1
<1>3. NodeAt(n) \in Elements /\ NodeAt(n) \in Pointers
  BY ElementPointers DEF Pointers
<1> DEFINE has == arch.has \cup {NodeAt(n)} \cup members
           source == [arch.source EXCEPT ![n] = s]
<1>4. has \in SUBSET Pointers /\ \A q \in has : IsRoot(q) \/ ElementOf(q) \in has
  BY <1>3, AdditionKeeps
<1>5. source \in [Nodes -> Sources] /\ arch.ends \in [Edges -> Nodes \X Nodes]
  BY BeforePatch
<1>6. Patch(has, arch.ends, source, {}, actor)
  BY <1>2
<1> HIDE DEF has, source
<1>7. {} \in SUBSET (has \cap Members)
  OBVIOUS
<1> QED BY <1>4, <1>5, <1>6, <1>7, PatchStep

\* The ends a person may draw are pairs of nodes.
LEMMA DrawnOver ==
  ASSUME IInv, NEW e \in Edges, NEW pair \in EndChoices
  PROVE  [arch.ends EXCEPT ![e] = pair] \in [Edges -> Nodes \X Nodes]
<1>1. pair \in Nodes \X Nodes
  BY BoundsAssumption
<1> QED BY <1>1, BeforePatch

\* An added edge is a patch.
LEMMA AddEdgeStep ==
  ASSUME IInv, NEW actor \in Actors, AddEdge(actor)
  PROVE  IInv' /\ NoneRises
<1>1. PICK e \in Edges, pair \in EndChoices : \E members \in SUBSET {q \in Members : Under(q, EdgeAt(e))} :
        Patch(arch.has \cup {EdgeAt(e)} \cup members, [arch.ends EXCEPT ![e] = pair], arch.source, {}, actor)
  BY DEF AddEdge
<1>2. PICK members \in SUBSET {q \in Members : Under(q, EdgeAt(e))} :
        Patch(arch.has \cup {EdgeAt(e)} \cup members, [arch.ends EXCEPT ![e] = pair], arch.source, {}, actor)
  BY <1>1
<1>3. EdgeAt(e) \in Elements /\ EdgeAt(e) \in Pointers
  BY ElementPointers DEF Pointers
<1> DEFINE has == arch.has \cup {EdgeAt(e)} \cup members
           ends == [arch.ends EXCEPT ![e] = pair]
<1>4. has \in SUBSET Pointers /\ \A q \in has : IsRoot(q) \/ ElementOf(q) \in has
  BY <1>3, AdditionKeeps
<1>5. arch.source \in [Nodes -> Sources] /\ ends \in [Edges -> Nodes \X Nodes]
  BY BeforePatch, DrawnOver
<1>6. Patch(has, ends, arch.source, {}, actor)
  BY <1>2
<1> HIDE DEF has, ends
<1>7. {} \in SUBSET (has \cap Members)
  OBVIOUS
<1> QED BY <1>4, <1>5, <1>6, <1>7, PatchStep

\* An added member is a patch.
LEMMA AddMemberStep ==
  ASSUME IInv, NEW actor \in Actors, AddMember(actor)
  PROVE  IInv' /\ NoneRises
<1>1. PICK p \in Members \ arch.has :
        /\ IsRoot(p) \/ ElementOf(p) \in arch.has
        /\ Patch(arch.has \cup {p}, arch.ends, arch.source, {}, actor)
  BY DEF AddMember
<1> DEFINE has == arch.has \cup {p}
<1>2. has \in SUBSET Pointers /\ \A q \in has : IsRoot(q) \/ ElementOf(q) \in has
  BY <1>1, BeforePatch DEF Pointers
<1>3. Patch(has, arch.ends, arch.source, {}, actor)
  BY <1>1
<1> HIDE DEF has
<1>4. {} \in SUBSET (has \cap Members)
  OBVIOUS
<1> QED BY <1>2, <1>3, <1>4, BeforePatch, PatchStep

\* A removed fact is a patch.
LEMMA RemoveFactStep ==
  ASSUME IInv, NEW actor \in Actors, RemoveFact(actor)
  PROVE  IInv' /\ NoneRises
<1>1. PICK p \in arch.has :
        LET edges == {EdgeAt(e) : e \in {x \in Edges : p \in EndNodes(arch.ends, x)}}
        IN  Patch({q \in arch.has : \A r \in {p} \cup edges : ~Under(q, r)}, arch.ends, arch.source, {}, actor)
  BY DEF RemoveFact
<1> DEFINE gone == {p} \cup {EdgeAt(e) : e \in {x \in Edges : p \in EndNodes(arch.ends, x)}}
           has == {q \in arch.has : \A r \in gone : ~Under(q, r)}
<1>2. arch.has \subseteq Pointers /\ arch.source \in [Nodes -> Sources] /\ arch.ends \in [Edges -> Nodes \X Nodes]
  BY BeforePatch
<1>3. gone \in SUBSET Pointers
  BY <1>2 DEF Pointers, Elements
<1>4. Patch(has, arch.ends, arch.source, {}, actor)
  BY <1>1
<1> HIDE DEF gone
<1>5. has \in SUBSET Pointers /\ \A q \in has : IsRoot(q) \/ ElementOf(q) \in has
  BY <1>3, RemovalKeeps
<1> HIDE DEF has
<1>6. {} \in SUBSET (has \cap Members)
  OBVIOUS
<1> QED BY <1>2, <1>4, <1>5, <1>6, PatchStep

\* Altered facts are a patch.
LEMMA AlterFactsStep ==
  ASSUME IInv, NEW actor \in Actors, AlterFacts(actor)
  PROVE  IInv' /\ NoneRises
<1>1. PICK altered \in (SUBSET (arch.has \cap (Members \ EndMembers))) \ {{}} :
        Patch(arch.has, arch.ends, arch.source, altered, actor)
  BY DEF AlterFacts
<1>2. altered \in SUBSET (arch.has \cap Members)
  OBVIOUS
<1> QED BY <1>1, <1>2, BeforePatch, PatchStep

\* An edge drawn between other nodes is a patch.
LEMMA ReendEdgeStep ==
  ASSUME IInv, NEW actor \in Actors, ReendEdge(actor)
  PROVE  IInv' /\ NoneRises
<1>1. PICK e \in Edges, pair \in EndChoices :
        Patch(arch.has, [arch.ends EXCEPT ![e] = pair], arch.source, {}, actor)
  BY DEF ReendEdge
<1>2. [arch.ends EXCEPT ![e] = pair] \in [Edges -> Nodes \X Nodes] /\ {} \in SUBSET (arch.has \cap Members)
  BY DrawnOver
<1> QED BY <1>1, <1>2, BeforePatch, PatchStep

\* An edited source is a patch.
LEMMA EditSourceStep ==
  ASSUME IInv, NEW actor \in Actors, EditSource(actor)
  PROVE  IInv' /\ NoneRises
<1>1. PICK n \in Nodes, s \in Sources : Patch(arch.has, arch.ends, [arch.source EXCEPT ![n] = s], {}, actor)
  BY DEF EditSource
<1>2. [arch.source EXCEPT ![n] = s] \in [Nodes -> Sources] /\ {} \in SUBSET (arch.has \cap Members)
  BY BeforePatch
<1> QED BY <1>1, <1>2, BeforePatch, PatchStep

\* The removal of what drifted is a patch.
LEMMA RemoveDriftedStep ==
  ASSUME IInv, NEW actor \in Actors, RemoveDrifted(actor)
  PROVE  IInv' /\ NoneRises
<1>1. PICK id \in Identifiers : Patch(WithoutDrifted(arch, id), arch.ends, arch.source, {}, actor)
  BY DEF RemoveDrifted
<1> DEFINE nodes == DriftedElements(arch, id)
           gone == nodes \cup {EdgeAt(e) : e \in {x \in Edges : EndNodes(arch.ends, x) \cap nodes # {}}}
           has == {q \in arch.has : \A r \in gone : ~Under(q, r)}
<1>2. arch.source \in [Nodes -> Sources] /\ arch.ends \in [Edges -> Nodes \X Nodes]
  BY BeforePatch
<1>3. gone \in SUBSET Pointers
  BY DEF Pointers, Elements, DriftedElements
<1>4. WithoutDrifted(arch, id) = has
  BY DEF WithoutDrifted
<1> HIDE DEF gone
<1>5. has \in SUBSET Pointers /\ \A q \in has : IsRoot(q) \/ ElementOf(q) \in has
  BY <1>3, RemovalKeeps
<1> HIDE DEF has
<1>6. {} \in SUBSET (has \cap Members)
  OBVIOUS
<1> QED BY <1>1, <1>2, <1>4, <1>5, <1>6, PatchStep

-----------------------------------------------------------------------------
\* Creation.

\* A model without entries.
Unclaimed(has, source, ends) == [has |-> has, source |-> source, ends |-> ends, prov |-> NoEntries]

\* It is held.
LEMMA EmptyHeld ==
  ASSUME NEW has \in Shapes, NEW source \in SourcesOf(has), NEW ends \in EndsOf(has)
  PROVE  LET b == Unclaimed(has, source, ends)
         IN  Held(b) /\ b.has = has /\ b.source = source /\ b.ends = ends /\ DOMAIN b.prov = {}
<1> DEFINE b == Unclaimed(has, source, ends)
<1>6. b = [has |-> has, source |-> source, ends |-> ends, prov |-> NoEntries]
  BY DEF Unclaimed
<1> HIDE DEF b
<1>1. b.has = has /\ b.source = source /\ b.ends = ends /\ b.prov = NoEntries
  BY <1>6
<1>2. DOMAIN NoEntries = {} /\ NoEntries = [k \in DOMAIN NoEntries |-> NoEntries[k]]
  BY DEF NoEntries, Without
<1>3. NoEntries \in Sidecars(Entries)
  BY <1>2, SidecarParts
<1>4. source \in [Nodes -> Sources] /\ ends \in [Edges -> Nodes \X Nodes]
  BY DEF SourcesOf, EndsOf
<1>5. b \in Architectures(Entries)
  BY <1>3, <1>4, <1>6 DEF Architectures
<1> QED BY <1>1, <1>2, <1>5 DEF Held, Sound, b

\* A model without a sidecar is held.
LEMMA PlainHeld ==
  ASSUME NEW has \in Shapes, NEW ends \in EndsOf(has)
  PROVE  /\ Held(Plain(has, ends)) /\ Plain(has, ends).has = has /\ DOMAIN Plain(has, ends).prov = {}
         /\ Plain(has, ends).source \in SourcesOf(has) /\ Plain(has, ends).ends = ends
<1> DEFINE source == [n \in Nodes |-> "design"]
<1>1. source \in SourcesOf(has)
  BY DEF SourcesOf, Sources
<1>2. Plain(has, ends) = Unclaimed(has, source, ends)
  BY DEF Plain, Unclaimed
<1> HIDE DEF source
<1> QED BY <1>1, <1>2, EmptyHeld

\* The ghosts of a new model.
LEMMA NewGhosts ==
  ASSUME IInv, Created
  PROVE  /\ CountersInv' /\ now' = 1
         /\ \A p \in Facts : typed'[p] = "no"
<1>1. now = 0 /\ now' = 1 /\ patches' = patches /\ typed' = typed
  BY DEF Created
<1>2. \A p \in Facts : typed[p] = "no"
  BY <1>1 DEF IInv, TypedInv
<1> QED BY <1>1, <1>2, BoundsAssumption DEF IInv, CountersInv

\* A model saved as it is created.
LEMMA CreatedHolds ==
  ASSUME IInv, Created, LatestInv', Held(arch'), SavedModelIsValid', CompactionUnderstates',
         AllWitnessed(arch', 1, latest'), \A k \in DOMAIN arch'.prov : k \notin Members
  PROVE  IInv'
<1>1. /\ CountersInv' /\ now' = 1
      /\ \A p \in Facts : typed'[p] = "no"
  BY NewGhosts
<1>2. TypedInv'
  BY <1>1 DEF TypedInv
<1>3. TypedUntilCarried'
  BY <1>1 DEF TypedUntilCarried
<1> QED BY <1>1, <1>2, <1>3 DEF IInv

\* A new model that is saved keeps the invariant.
LEMMA SavedCreation ==
  ASSUME IInv, Created, LatestInv', NEW b, Held(b), Save(b),
         AllWitnessed(b, 1, latest'), \A k \in DOMAIN b.prov : k \notin Members
  PROVE  IInv'
<1>1. Held(arch') /\ Saved(b, arch') /\ SavedModelIsValid' /\ CompactionUnderstates'
  BY SaveKeeps
<1>2. AllWitnessed(arch', 1, latest')
  BY <1>1, WitnessedStays
<1>3. \A k \in DOMAIN arch'.prov : k \notin Members
  BY <1>1, ElementPointers DEF Saved
<1> QED BY <1>1, <1>2, <1>3, CreatedHolds

\* A creation that imports nothing leaves the ghosts of imports.
LEMMA LatestStays ==
  ASSUME IInv, Created, latest' = latest
  PROVE  LatestInv'
<1>1. now = 0 /\ now' = 1
  BY DEF Created
<1>2. latest \in [Identifiers -> [hash : Nat, at : Nat]] /\ \A id \in Identifiers : latest[id].at <= now
  BY DEF IInv, LatestInv
<1>3. \A id \in Identifiers : latest[id].at \in Nat
  BY <1>2
<1> QED BY <1>1, <1>2, <1>3 DEF LatestInv

\* A model stored before the sidecar existed.
LEMMA StoredStep ==
  ASSUME IInv, CreateStored
  PROVE  IInv'
<1>1. PICK has \in Shapes : \E source \in SourcesOf(has), ends \in DrawnEnds(has) :
        arch' = [has |-> has, source |-> source, ends |-> ends, prov |-> NoEntries]
  BY DEF CreateStored
<1>2. PICK source \in SourcesOf(has), ends \in DrawnEnds(has) :
        arch' = [has |-> has, source |-> source, ends |-> ends, prov |-> NoEntries]
  BY <1>1
<1>9. ends \in EndsOf(has)
  BY DEF DrawnEnds
<1>3. Created /\ written' = arch' /\ latest' = latest
  BY DEF CreateStored
<1>4. Held(arch') /\ arch'.has = has /\ DOMAIN arch'.prov = {}
  <2>1. arch' = Unclaimed(has, source, ends)
    BY <1>2 DEF Unclaimed
  <2> QED BY <1>9, <2>1, EmptyHeld
<1>5. LatestInv'
  BY <1>3, LatestStays
<1>6. AllWitnessed(arch', 1, latest') /\ \A k \in DOMAIN arch'.prov : k \notin Members
  BY <1>4 DEF AllWitnessed
<1>7. SavedModelIsValid'
  <2>1. Cardinality(DOMAIN arch'.prov) <= KeyLimit
    BY <1>4, FS_EmptySet, LimitAssumption
  <2> QED BY <1>4, <2>1 DEF SavedModelIsValid
<1>8. CompactionUnderstates'
  <2>1. ASSUME NEW p \in Facts \cap arch'.has
        PROVE  /\ Rank(KindOf(arch', p)) <= Rank(KindOf(written', p))
               /\ ProvenanceOf(arch', p) = ProvenanceOf(written', p)
    <3>1. KindOf(arch', p) \in Kinds /\ Rank(KindOf(arch', p)) \in 1..3
      BY <1>4, EntriesSuit, FactCases, ResolvesToEntry, Ranks DEF Held
    <3> QED BY <1>3, <3>1
  <2> QED BY <2>1 DEF CompactionUnderstates
<1> QED BY <1>3, <1>4, <1>5, <1>6, <1>7, <1>8, CreatedHolds

\* Nothing a client claims survives.
LEMMA PostedStep ==
  ASSUME IInv, CreatePosted
  PROVE  IInv'
<1>1. PICK has \in Shapes, actor \in Importers, k \in Facts, s \in Snapshots :
        \E source \in SourcesOf(has), ends \in DrawnEnds(has) :
          LET claimed == [has |-> has, source |-> source, ends |-> ends,
                          prov |-> Put(NoEntries, k, ImportEntry(s, 0, actor, 1, 1))]
          IN  Save(Accepted(DistrustProvenance(claimed), actor, 1))
  BY DEF CreatePosted
<1>2. PICK source, prov : \E ends \in DrawnEnds(has) :
        Save(Accepted(DistrustProvenance([has |-> has, source |-> source, ends |-> ends, prov |-> prov]), actor, 1))
  BY <1>1
<1>10. PICK ends \in DrawnEnds(has) :
        Save(Accepted(DistrustProvenance([has |-> has, source |-> source, ends |-> ends, prov |-> prov]), actor, 1))
  BY <1>2
<1>3. Created /\ latest' = latest
  BY DEF CreatePosted
<1>4. DistrustProvenance([has |-> has, source |-> source, ends |-> ends, prov |-> prov]) = Plain(has, ends)
  <2> DEFINE design == [n \in Nodes |-> "design"]
  <2>1. PICK a : a = [has |-> has, source |-> source, ends |-> ends, prov |-> prov]
    OBVIOUS
  <2>2. DistrustProvenance(a) = ProvSource(a, NoEntries, design)
    BY DEF DistrustProvenance, ProvSource
  <2>3. Plain(has, ends) = [has |-> has, source |-> design, ends |-> ends, prov |-> NoEntries]
    BY DEF Plain
  <2> HIDE DEF design
  <2>4. ProvSource(a, NoEntries, design) = [has |-> has, source |-> design, ends |-> ends, prov |-> NoEntries]
    BY <2>1, ProvSourceReplaced
  <2> QED BY <2>1, <2>2, <2>3, <2>4
<1>5. /\ Held(Plain(has, ends)) /\ DOMAIN Plain(has, ends).prov = {}
  BY PlainHeld DEF DrawnEnds
<1>6. Accepted(Plain(has, ends), actor, 1) = Plain(has, ends)
  BY <1>5 DEF Accepted
<1>7. Save(Plain(has, ends))
  BY <1>4, <1>6, <1>10
<1>8. AllWitnessed(Plain(has, ends), 1, latest') /\ \A j \in DOMAIN Plain(has, ends).prov : j \notin Members
  BY <1>5 DEF AllWitnessed
<1>9. LatestInv'
  BY <1>3, LatestStays
<1> QED BY <1>3, <1>5, <1>7, <1>8, <1>9, SavedCreation

\* A preview accepted: its entries stamped, and the upgrade mapping stored for its other nodes.
LEMMA AcceptedKeeps ==
  ASSUME NEW E, NEW a, Sound(a, E), a.source \in SourcesOf(a.has), NEW actor,
         \A k \in DOMAIN a.prov : k \notin Members /\ Stamped(a.prov[k], actor, 1) \in Entries
  PROVE  LET b == Accepted(a, actor, 1)
         IN  /\ Held(b) /\ \A k \in DOMAIN b.prov : k \notin Members
             /\ \A k \in DOMAIN b.prov :
                  \/ k \in DOMAIN a.prov /\ b.prov[k] = Stamped(a.prov[k], actor, 1)
                  \/ ~Live(b.prov[k])
<1>1. PICK b : b = Accepted(a, actor, 1)
  OBVIOUS
<1>2. a.has \in Shapes /\ a.source \in [Nodes -> Sources] /\ DOMAIN a.prov \subseteq Facts
      /\ DOMAIN a.prov \subseteq a.has /\ a.ends \in [Edges -> Nodes \X Nodes] /\ a.ends \in EndsOf(a.has)
  BY ArchParts DEF Sound
<1>10. a = [has |-> a.has, source |-> a.source, ends |-> a.ends, prov |-> a.prov]
       /\ a.prov = [k \in DOMAIN a.prov |-> a.prov[k]]
  <2>1. a = [has |-> a.has, source |-> a.source, ends |-> a.ends, prov |-> a.prov]
    BY DEF Sound, Architectures
  <2>2. a.prov = [k \in DOMAIN a.prov |-> a.prov[k]]
    BY ArchParts DEF Sound
  <2> QED BY <2>1, <2>2
<1>3. CASE DOMAIN a.prov = {}
  <2>1. b = a
    BY <1>1, <1>3 DEF Accepted
  <2>2. a.prov \in Sidecars(Entries)
    BY <1>3, <1>10, SidecarParts
  <2>3. a \in Architectures(Entries)
    BY <1>2, <1>10, <2>2 DEF Architectures
  <2>4. Held(a)
    BY <1>2, <1>3, <2>3 DEF Held, Sound
  <2> QED BY <1>1, <1>3, <2>1, <2>4
<1>4. CASE DOMAIN a.prov # {}
  <2> DEFINE f == [k \in DOMAIN a.prov |-> Stamped(a.prov[k], actor, 1)]
  <2>1. Pruned(a) = a
    BY PrunedIsIdle
  <2>2. PICK q : q = [has |-> a.has, source |-> a.source, ends |-> a.ends, prov |-> f]
    OBVIOUS
  <2>3. b = Materialized(q, a.source)
    <3>1. b = Materialized([Pruned(a) EXCEPT !.prov = [k \in DOMAIN @ |-> Stamped(@[k], actor, 1)]], a.source)
      BY <1>1, <1>4 DEF Accepted
    <3>2. b = Materialized([a EXCEPT !.prov = f], a.source)
      BY <2>1, <3>1
    <3>3. [a EXCEPT !.prov = f] = q
      BY <2>2, WithProv
    <3> QED BY <3>2, <3>3
  <2>4. DOMAIN f = DOMAIN a.prov /\ (\A k \in DOMAIN f : f[k] = Stamped(a.prov[k], actor, 1))
        /\ f = [k \in DOMAIN f |-> f[k]]
    OBVIOUS
  <2> HIDE DEF f
  <2>5. q.has = a.has /\ q.source = a.source /\ q.ends = a.ends /\ q.prov = f /\ f \in Sidecars(Entries)
    <3>1. f \in Sidecars(Entries)
      BY <1>2, <2>4, SidecarParts
    <3> QED BY <2>2, <3>1
  <2>6. Sound(q, Entries)
    <3>1. q \in Architectures(Entries)
      BY <1>2, <2>2, <2>5 DEF Architectures
    <3> QED BY <1>2, <2>4, <2>5, <3>1 DEF Sound
  <2>7. /\ Sound(b, Entries) /\ b.has = q.has /\ b.source = q.source
        /\ DOMAIN b.prov = DOMAIN q.prov \cup NodesIn(q.has)
        /\ \A k \in DOMAIN q.prov : b.prov[k] = q.prov[k]
        /\ \A n \in Nodes : NodeAt(n) \in q.has /\ NodeAt(n) \notin DOMAIN q.prov
             => b.prov[NodeAt(n)] = UpgradeEntry(n, a.source[n])
    BY <1>2, <2>3, <2>6, EntriesSuit, MaterializedKeeps
  <2>8. Held(b)
    BY <2>5, <2>7 DEF Held
  <2>9. ASSUME NEW k \in DOMAIN b.prov
        PROVE  /\ k \notin Members
               /\ \/ k \in DOMAIN a.prov /\ b.prov[k] = Stamped(a.prov[k], actor, 1)
                  \/ ~Live(b.prov[k])
    <3>1. CASE k \in DOMAIN q.prov
      BY <2>4, <2>5, <2>7, <3>1
    <3>2. CASE k \notin DOMAIN q.prov
      <4>1. PICK n \in Nodes : k = NodeAt(n) /\ NodeAt(n) \in q.has
        BY <2>7, <3>2 DEF NodesIn
      <4>2. b.prov[k] = UpgradeEntry(n, a.source[n]) /\ a.source[n] \in Sources
        BY <1>2, <2>7, <3>2, <4>1
      <4>3. b.prov[k].seen = 0
        BY <4>2, UpgradeIsBare
      <4> QED BY <4>1, <4>3, ElementPointers DEF Live
    <3> QED BY <3>1, <3>2
  <2> QED BY <1>1, <2>8, <2>9
<1> QED BY <1>3, <1>4

\* A diagram accepted whole.
LEMMA DrawnStep ==
  ASSUME IInv, CreateDrawn
  PROVE  IInv'
<1>16. PICK has \in Shapes, actor \in Importers : \E ends \in DrawnEnds(has) :
        Save(Accepted(RecordDeclared(Plain(has, ends), "drawing", has \cap Elements), actor, 1))
  BY DEF CreateDrawn
<1>1. PICK ends \in DrawnEnds(has) :
        Save(Accepted(RecordDeclared(Plain(has, ends), "drawing", has \cap Elements), actor, 1))
  BY <1>16
<1>2. Created /\ latest' = latest
  BY DEF CreateDrawn
<1> DEFINE c == Claim("declared", "drawing")
           d == Declared(Plain(has, ends), c, has \cap Elements)
           a == SyncSources(d)
<1>3. /\ Sound(Plain(has, ends), Entries) /\ Plain(has, ends).has = has /\ DOMAIN Plain(has, ends).prov = {}
      /\ Plain(has, ends).source \in SourcesOf(has)
  BY PlainHeld DEF Held, DrawnEnds
<1>4. c \in Entries /\ c.kind = "declared"
  <2>1. "declared" \in Kinds /\ "drawing" \in Ids
    BY DEF Kinds, Ids
  <2> QED BY <2>1, BareClaims, EntriesSuit DEF Suits
<1> HIDE DEF c
<1>5. /\ Sound(d, Entries) /\ d.has = has /\ d.source = Plain(has, ends).source
      /\ \A k \in DOMAIN d.prov : k \in has \cap Elements /\ d.prov[k] = c
  <2>1. has \cap Elements \in SUBSET (Facts \cap Plain(has, ends).has)
    BY <1>3, FactCases
  <2>2. /\ Sound(d, Entries) /\ d.has = Plain(has, ends).has /\ d.source = Plain(has, ends).source
        /\ \A k \in has \cap Elements : d.prov[k] = c
        /\ \A k \in DOMAIN d.prov \ (has \cap Elements) :
             /\ k \in DOMAIN Plain(has, ends).prov /\ d.prov[k] = Plain(has, ends).prov[k]
             /\ \A p \in has \cap Elements : ~Under(k, p)
    BY <1>3, <1>4, <2>1, DeclaredKeeps
  <2> QED BY <1>3, <2>2
<1> HIDE DEF d
<1>6. /\ Sound(a, Entries) /\ a.has = d.has /\ a.prov = d.prov
      /\ \A n \in Nodes : NodeAt(n) \notin DOMAIN d.prov => a.source[n] = d.source[n]
  BY <1>5, EntriesSuit, SyncedKeeps
<1>7. RecordDeclared(Plain(has, ends), "drawing", has \cap Elements) = a
  BY DEF RecordDeclared, d, c
<1> HIDE DEF a
<1>8. a.source \in SourcesOf(a.has)
  <2>1. a.source \in [Nodes -> Sources]
    BY <1>6, ArchParts DEF Sound
  <2>2. ASSUME NEW n \in Nodes, NodeAt(n) \notin has PROVE a.source[n] = "design"
    <3>1. NodeAt(n) \notin DOMAIN d.prov
      BY <1>5, <2>2
    <3> QED BY <1>3, <1>5, <1>6, <2>2, <3>1 DEF SourcesOf
  <2> QED BY <1>5, <1>6, <2>1, <2>2 DEF SourcesOf
<1>9. Stamped(c, actor, 1) \in Entries /\ Stamped(c, actor, 1).kind = "declared"
  <2>1. Stamped(c, actor, 1) = [c EXCEPT !.by = actor]
    BY <1>4 DEF Stamped
  <2>2. actor \in Actors \cup Importers \cup {""}
    OBVIOUS
  <2>3. [c EXCEPT !.by = actor] \in Entries /\ [c EXCEPT !.by = actor].kind = c.kind
    BY <1>4, <2>2, SignedBy
  <2> QED BY <1>4, <2>1, <2>3
<1>10. \A k \in DOMAIN a.prov : k \notin Members /\ a.prov[k] = c
  BY <1>5, <1>6, ElementPointers
<1>11. PICK b : b = Accepted(a, actor, 1)
  OBVIOUS
<1>12. /\ Held(b) /\ \A k \in DOMAIN b.prov : k \notin Members
       /\ \A k \in DOMAIN b.prov :
            \/ k \in DOMAIN a.prov /\ b.prov[k] = Stamped(a.prov[k], actor, 1)
            \/ ~Live(b.prov[k])
  <2>1. \A k \in DOMAIN a.prov : k \notin Members /\ Stamped(a.prov[k], actor, 1) \in Entries
    BY <1>9, <1>10
  <2> QED BY <1>6, <1>8, <1>11, <2>1, AcceptedKeeps
<1>13. AllWitnessed(b, 1, latest')
  BY <1>9, <1>10, <1>12 DEF AllWitnessed, Live
<1>14. Save(b)
  BY <1>1, <1>7, <1>11
<1>15. LatestInv'
  BY <1>2, LatestStays
<1> QED BY <1>2, <1>12, <1>13, <1>14, <1>15, SavedCreation

\* An entry stamped as accepted at 1.
LEMMA StampedFields ==
  ASSUME NEW kind, kind # "declared", NEW id, id # "", NEW seen, NEW at, NEW f \in Nat, NEW by, NEW actor
  PROVE  Stamped([kind |-> kind, id |-> id, seen |-> seen, importedAt |-> at, fetched |-> f, by |-> by], actor, 1)
           \in [kind : {kind}, id : {id}, seen : {seen}, importedAt : {1}, fetched : {1}, by : {actor}]
<1> DEFINE g == IF f = 0 \/ f > 1 THEN 1 ELSE f
<1>1. g = 1
  <2>1. CASE f = 0 \/ f > 1
    BY <2>1
  <2>2. CASE ~(f = 0 \/ f > 1)
    <3>1. f = 1
      <4>1. f # 0 /\ ~(f > 1) /\ f \in Nat
        BY <2>2
      <4> HIDE DEF g
      <4> QED BY ONLY <4>1, SMT
    <3> QED BY <2>2, <3>1
  <2> QED BY <2>1, <2>2
<1>11. PICK e : e = [kind |-> kind, id |-> id, seen |-> seen, importedAt |-> at, fetched |-> f, by |-> by]
  OBVIOUS
<1>2. e.kind = kind /\ e.id = id /\ e.fetched = f
  BY <1>11
<1>3. Stamped(e, actor, 1) =
        [[[e EXCEPT !.by = actor] EXCEPT !.importedAt = 1] EXCEPT !.fetched = IF @ = 0 \/ @ > 1 THEN 1 ELSE @]
  BY <1>2 DEF Stamped
<1>4. PICK p : p = [e EXCEPT !.by = actor]
  OBVIOUS
<1>5. p \in [kind : {kind}, id : {id}, seen : {seen}, importedAt : {at}, fetched : {f}, by : {actor}]
  BY <1>4, <1>11
<1>6. PICK q : q = [p EXCEPT !.importedAt = 1]
  OBVIOUS
<1>7. q \in [kind : {kind}, id : {id}, seen : {seen}, importedAt : {1}, fetched : {f}, by : {actor}]
  BY <1>5, <1>6
<1>8. q.fetched = f
  BY <1>7
<1>9. [q EXCEPT !.fetched = 1] \in [kind : {kind}, id : {id}, seen : {seen}, importedAt : {1}, fetched : {1}, by : {actor}]
  BY <1>7
<1>10. Stamped(e, actor, 1) = [q EXCEPT !.fetched = g]
  BY <1>3, <1>4, <1>6, <1>8
<1> HIDE DEF g
<1> QED BY <1>1, <1>9, <1>10, <1>11

\* An import's entry in a preview, as it is and as accepted.
LEMMA PreviewEntry ==
  ASSUME NEW s \in Snapshots, NEW date \in Dates, NEW actor \in Importers
  PROVE  LET e == ImportEntry(s, date, "", 0, 0)
             t == Stamped(e, actor, 1)
         IN  /\ e.kind = s.kind /\ e.id = s.id
             /\ t \in Entries /\ t.kind = s.kind /\ t.id = s.id /\ t.seen = s.hash
             /\ t.importedAt = 1 /\ t.fetched = 1
<1> DEFINE f == BoundedDate(date, 0, 0)
<1>1. f \in Nat
  <2>1. date \in Nat
    BY BoundsAssumption
  <2> QED BY <2>1 DEF BoundedDate
<1>2. ImportEntry(s, date, "", 0, 0) =
        [kind |-> s.kind, id |-> s.id, seen |-> s.hash, importedAt |-> 0, fetched |-> f, by |-> ""]
  BY DEF ImportEntry
<1> HIDE DEF f
<1>4. s.kind # "declared" /\ s.id # ""
  BY SourceAssumption
<1>5. PICK e : e = ImportEntry(s, date, "", 0, 0)
  OBVIOUS
<1>6. e = [kind |-> s.kind, id |-> s.id, seen |-> s.hash, importedAt |-> 0, fetched |-> f, by |-> ""]
  BY <1>2, <1>5
<1>7. PICK t : t = Stamped(e, actor, 1)
  OBVIOUS
<1>8. t \in [kind : {s.kind}, id : {s.id}, seen : {s.hash}, importedAt : {1}, fetched : {1}, by : {actor}]
  <2>1. PICK k, i, h : k = s.kind /\ i = s.id /\ h = s.hash
    OBVIOUS
  <2>2. k # "declared" /\ i # ""
    BY <1>4, <2>1
  <2>3. PICK z : z = f
    OBVIOUS
  <2>4. z \in Nat
    BY <1>1, <2>3
  <2>5. Stamped([kind |-> k, id |-> i, seen |-> h, importedAt |-> 0, fetched |-> z, by |-> ""], actor, 1)
          \in [kind : {k}, id : {i}, seen : {h}, importedAt : {1}, fetched : {1}, by : {actor}]
    BY <2>2, <2>4, StampedFields
  <2> QED BY <1>6, <1>7, <2>1, <2>3, <2>5
<1>9. t.kind = s.kind /\ t.id = s.id /\ t.seen = s.hash /\ t.importedAt = 1 /\ t.fetched = 1
  BY <1>8
<1>10. t \in Entries
  <2>1. /\ s.kind \in {"declared", "imported", "observed"}
        /\ s.id \in Identifiers \cup {"", "drawing", PreV11Import} \cup {ExternalRef[n] : n \in Nodes}
        /\ s.hash \in {0} \cup {x.hash : x \in Snapshots}
        /\ actor \in Actors \cup Importers \cup {""}
    BY SourceAssumption DEF Identifiers
  <2>2. 1 \in 0..MaxImports + 1
    BY BoundsAssumption
  <2> QED BY <1>8, <2>1, <2>2 DEF Entries
<1>11. e.kind = s.kind /\ e.id = s.id
  BY <1>6
<1> QED BY <1>5, <1>7, <1>9, <1>10, <1>11

\* A source's elements recorded in a new model.
LEMMA PreviewParts ==
  ASSUME NEW s \in Snapshots, NEW has \in Shapes, has \cap Elements = s.carries,
         NEW e, e.kind \in Kinds, e.id \in Ids,
         NEW a, a = RecordImport(Plain(has, Ends), e, s.carries)
  PROVE  /\ Sound(a, Entries \cup {e}) /\ a.source \in SourcesOf(a.has)
         /\ \A k \in DOMAIN a.prov :
              \/ k \in s.carries /\ a.prov[k] = e
              \/ k \in Elements /\ a.prov[k].kind = "declared"
<1> DEFINE E == Entries \cup {e}
           m == Merged(Plain(has, Ends), e, s.carries, s.carries)
           f == MergedProv(Plain(has, Ends), e, s.carries, s.carries)
           c == Compacted(m)
<1>12. Ends \in EndsOf(has) /\ Ends \in [Edges -> Nodes \X Nodes]
  <2>1. Ends \in [Edges -> Nodes \X Nodes]
    BY ModelAssumption
  <2>2. ASSUME NEW x \in Edges, EdgeAt(x) \in has PROVE EndNodes(Ends, x) \subseteq has
    <3>1. EdgeAt(x) \in s.carries
      BY <2>2, ElementPointers
    <3>2. EndNodes(Ends, x) \subseteq s.carries
      BY <3>1, SourceAssumption
    <3> QED BY <3>2
  <2> QED BY <2>1, <2>2 DEF EndsOf
<1>1. /\ Plain(has, Ends) \in Architectures(Entries) /\ Plain(has, Ends).has = has /\ DOMAIN Plain(has, Ends).prov = {}
      /\ Plain(has, Ends).source \in SourcesOf(has) /\ Plain(has, Ends).ends = Ends
  BY <1>12, PlainHeld DEF Held, Sound
<1>2. Suits(E)
  BY EntriesSuit DEF Suits
<1>3. DOMAIN f = s.carries /\ (\A k \in s.carries : f[k] = e) /\ f = [k \in DOMAIN f |-> f[k]]
  <2>1. StaysOf(Plain(has, Ends), s.carries, s.carries) = {}
    BY <1>1 DEF StaysOf
  <2>2. f = [k \in s.carries |-> e]
    BY <2>1 DEF MergedProv
  <2> QED BY <2>2
<1>4. m = [has |-> has, source |-> Plain(has, Ends).source, ends |-> Ends, prov |-> f]
  BY <1>1, MergedParts
<1> HIDE DEF m, f
<1>5. Sound(m, E) /\ m.has = has /\ m.source = Plain(has, Ends).source /\ m.prov = f
  <2>1. m.has = has /\ m.source = Plain(has, Ends).source /\ m.ends = Ends /\ m.prov = f
    BY <1>4
  <2>2. s.carries \subseteq Facts \cap has /\ \A k \in s.carries : k \notin Members
    BY FactCases, ElementPointers
  <2>3. f \in Sidecars(E)
    BY <1>3, <2>2, SidecarParts
  <2>4. Plain(has, Ends).source \in [Nodes -> Sources]
    BY <1>1 DEF SourcesOf
  <2>5. m \in Architectures(E)
    BY <1>4, <1>12, <2>3, <2>4 DEF Architectures
  <2> QED BY <1>3, <1>12, <2>1, <2>2, <2>5 DEF Sound
<1> HIDE DEF E
<1>6. Sound(c, E) /\ Understates(m, c)
  BY <1>2, <1>5, CompactedKeeps
<1>7. a = SyncSources(c)
  BY DEF RecordImport, m
<1> HIDE DEF c
<1>8. /\ Sound(a, E) /\ a.has = c.has /\ a.prov = c.prov
      /\ \A n \in Nodes : NodeAt(n) \notin DOMAIN c.prov => a.source[n] = c.source[n]
  BY <1>2, <1>6, <1>7, SyncedKeeps
<1>9. c.has = has /\ c.source = Plain(has, Ends).source /\ DOMAIN c.prov \subseteq has
      /\ \A k \in DOMAIN c.prov : \/ k \in DOMAIN m.prov /\ c.prov[k] = m.prov[k]
                                  \/ k \in Elements /\ c.prov[k].kind = "declared"
  BY <1>5, <1>6 DEF Understates, Sound
<1>10. a.source \in SourcesOf(a.has)
  <2>1. a.source \in [Nodes -> Sources]
    BY <1>8, ArchParts DEF Sound
  <2>2. ASSUME NEW n \in Nodes, NodeAt(n) \notin has PROVE a.source[n] = "design"
    <3>1. NodeAt(n) \notin DOMAIN c.prov
      BY <1>9, <2>2
    <3> QED BY <1>1, <1>8, <1>9, <2>2, <3>1 DEF SourcesOf
  <2> QED BY <1>8, <1>9, <2>1, <2>2 DEF SourcesOf
<1>11. \A k \in DOMAIN a.prov : \/ k \in s.carries /\ a.prov[k] = e
                                \/ k \in Elements /\ a.prov[k].kind = "declared"
  BY <1>3, <1>5, <1>8, <1>9
<1> QED BY <1>8, <1>10, <1>11 DEF E

\* A preview accepted whole.
LEMMA PreviewStep ==
  ASSUME IInv, CreatePreview
  PROVE  IInv'
<1>1. PICK s \in Snapshots, date \in Dates, actor \in Importers, has \in Shapes :
        /\ has \cap Elements = s.carries
        /\ LET preview == RecordImport(Plain(has, Ends), ImportEntry(s, date, "", 0, now), s.carries)
           IN  Save(Accepted(preview, actor, 1))
        /\ latest' = [latest EXCEPT ![s.id] = [hash |-> s.hash, at |-> 1]]
  BY DEF CreatePreview
<1>2. Created /\ now = 0 /\ now' = 1
  BY DEF CreatePreview, Created
<1>3. PICK e : e = ImportEntry(s, date, "", 0, 0)
  OBVIOUS
<1>4. PICK a : a = RecordImport(Plain(has, Ends), e, s.carries)
  OBVIOUS
<1>5. PICK b : b = Accepted(a, actor, 1)
  OBVIOUS
<1>6. Save(b)
  BY <1>1, <1>2, <1>3, <1>4, <1>5
<1>7. /\ e.kind = s.kind /\ e.id = s.id
      /\ Stamped(e, actor, 1) \in Entries
      /\ Stamped(e, actor, 1).kind = s.kind /\ Stamped(e, actor, 1).id = s.id
      /\ Stamped(e, actor, 1).seen = s.hash /\ Stamped(e, actor, 1).importedAt = 1
      /\ Stamped(e, actor, 1).fetched = 1
  <2>1. LET x == ImportEntry(s, date, "", 0, 0)
            t == Stamped(x, actor, 1)
        IN  /\ x.kind = s.kind /\ x.id = s.id
            /\ t \in Entries /\ t.kind = s.kind /\ t.id = s.id /\ t.seen = s.hash
            /\ t.importedAt = 1 /\ t.fetched = 1
    BY PreviewEntry
  <2> QED BY <1>3, <2>1
<1>8. s.kind \in {"imported", "observed"} /\ s.kind \in Kinds /\ s.id \in Ids /\ s.id \in Identifiers
      /\ s.hash \in Nat
  BY SourceAssumption DEF Identifiers, Kinds, Ids
<1>9. /\ Sound(a, Entries \cup {e}) /\ a.source \in SourcesOf(a.has)
      /\ \A k \in DOMAIN a.prov :
           \/ k \in s.carries /\ a.prov[k] = e
           \/ k \in Elements /\ a.prov[k].kind = "declared"
  <2>1. e.kind \in Kinds /\ e.id \in Ids
    BY <1>7, <1>8
  <2>2. has \cap Elements = s.carries
    BY <1>1
  <2> QED BY <1>4, <2>1, <2>2, PreviewParts
<1>10. ASSUME NEW k \in DOMAIN a.prov
       PROVE  /\ k \notin Members /\ Stamped(a.prov[k], actor, 1) \in Entries
              /\ \/ k \in s.carries /\ Stamped(a.prov[k], actor, 1) = Stamped(e, actor, 1)
                 \/ Stamped(a.prov[k], actor, 1).kind = "declared"
  <2>1. k \in Elements /\ k \notin Members
    BY <1>9, ElementPointers, SourceAssumption
  <2>2. CASE k \in s.carries /\ a.prov[k] = e
    BY <1>7, <2>1, <2>2
  <2>3. CASE a.prov[k].kind = "declared"
    <3>1. PICK r : r = a.prov[k]
      OBVIOUS
    <3>2. r \in Entries /\ r.kind = "declared"
      <4>1. r \in Entries \cup {e}
        BY <1>9, <3>1, ArchParts DEF Sound
      <4>2. r # e
        BY <1>7, <1>8, <2>3, <3>1
      <4> QED BY <2>3, <3>1, <4>1, <4>2
    <3>3. Stamped(r, actor, 1) = [r EXCEPT !.by = actor]
      BY <3>2 DEF Stamped
    <3>4. actor \in Actors \cup Importers \cup {""}
      OBVIOUS
    <3>5. [r EXCEPT !.by = actor] \in Entries /\ [r EXCEPT !.by = actor].kind = r.kind
      BY <3>2, <3>4, SignedBy
    <3> QED BY <2>1, <3>1, <3>2, <3>3, <3>5
  <2> QED BY <1>9, <2>2, <2>3
<1>11. /\ Held(b) /\ \A k \in DOMAIN b.prov : k \notin Members
       /\ \A k \in DOMAIN b.prov :
            \/ k \in DOMAIN a.prov /\ b.prov[k] = Stamped(a.prov[k], actor, 1)
            \/ ~Live(b.prov[k])
  BY <1>5, <1>9, <1>10, AcceptedKeeps
<1>12. latest \in [Identifiers -> [hash : Nat, at : Nat]] /\ \A id \in Identifiers : latest[id].at <= now
  BY DEF IInv, LatestInv
<1>13. LatestInv'
  <2>1. latest' \in [Identifiers -> [hash : Nat, at : Nat]]
    BY <1>1, <1>8, <1>12
  <2>2. ASSUME NEW id \in Identifiers PROVE latest'[id].at <= now'
    <3>1. CASE id = s.id
      <4>1. latest'[id] = [hash |-> s.hash, at |-> 1]
        BY <1>1, <1>12, <3>1
      <4> QED BY <1>2, <4>1
    <3>2. CASE id # s.id
      <4>1. latest'[id] = latest[id] /\ latest[id].at \in Nat
        BY <1>1, <1>12, <3>2
      <4> QED BY <1>2, <1>12, <4>1
    <3> QED BY <3>1, <3>2
  <2> QED BY <2>1, <2>2 DEF LatestInv
<1>14. AllWitnessed(b, 1, latest')
  <2>1. latest'[s.id].hash = s.hash /\ latest'[s.id].at = 1
    <3>1. latest'[s.id] = [hash |-> s.hash, at |-> 1]
      BY <1>1, <1>8, <1>12
    <3> QED BY <3>1
  <2>2. ASSUME NEW k \in DOMAIN b.prov, Live(b.prov[k]) PROVE Witnessed(k, b.prov[k], 1, latest')
    <3>1. k \in DOMAIN a.prov /\ b.prov[k] = Stamped(a.prov[k], actor, 1)
      BY <1>11, <2>2
    <3>2. k \in s.carries /\ b.prov[k] = Stamped(e, actor, 1)
      BY <1>10, <2>2, <3>1 DEF Live
    <3>3. PICK r : r = b.prov[k]
      OBVIOUS
    <3>4. r.id = s.id /\ r.seen = s.hash /\ r.importedAt = 1 /\ r.fetched = 1
      BY <1>7, <3>2, <3>3
    <3>5. 1 \in 1..1 /\ \E x \in Snapshots : x.id = s.id /\ x.hash = s.hash /\ k \in x.carries
      BY <3>2
    <3> QED BY <2>1, <3>3, <3>4, <3>5 DEF Witnessed
  <2> QED BY <2>2 DEF AllWitnessed
<1> QED BY <1>2, <1>6, <1>11, <1>13, <1>14, SavedCreation

-----------------------------------------------------------------------------
\* The invariant over a model's life.

\* A model that does not exist yet.
LEMMA InitHolds == Init => IInv
<1> SUFFICES ASSUME Init PROVE IInv
  OBVIOUS
<1>1. /\ arch = Plain({}, Ends) /\ written = arch /\ now = 0 /\ patches = 0
      /\ typed = [p \in Facts |-> "no"]
      /\ latest = [id \in Identifiers |-> [hash |-> 0, at |-> 0]]
  BY DEF Init
<1>2. {} \in Shapes /\ Ends \in EndsOf({})
  BY ModelAssumption DEF Shapes, EndsOf
<1>3. Held(arch) /\ arch.has = {} /\ DOMAIN arch.prov = {}
  BY <1>1, <1>2, PlainHeld
<1>4. CountersInv
  BY <1>1, BoundsAssumption DEF CountersInv
<1>5. LatestInv
  BY <1>1 DEF LatestInv
<1>6. TypedInv
  BY <1>1, <1>3 DEF TypedInv
<1>7. AllWitnessed(arch, now, latest)
  BY <1>3 DEF AllWitnessed
<1>8. SavedModelIsValid
  <2>1. Cardinality(DOMAIN arch.prov) <= KeyLimit
    BY <1>3, FS_EmptySet, LimitAssumption
  <2> QED BY <1>3, <2>1 DEF SavedModelIsValid
<1>9. CompactionUnderstates /\ TypedUntilCarried
  BY <1>3 DEF CompactionUnderstates, TypedUntilCarried
<1> QED BY <1>3, <1>4, <1>5, <1>6, <1>7, <1>8, <1>9 DEF IInv

\* The body of DeclaredMemberIsKept.
MembersKept ==
  \A p \in Facts \cap Members :
    /\ p \in DOMAIN arch.prov /\ arch.prov[p].kind = "declared"
    /\ typed'[p] = typed[p] \/ typed'[p] = "carried"
    => KindOf(arch', p) = "declared"

\* A step that changes nothing.
LEMMA IdleStep ==
  ASSUME IInv, UNCHANGED vars
  PROVE  IInv' /\ NoneRises
<1>1. arch' = arch /\ now' = now /\ patches' = patches /\ written' = written /\ typed' = typed /\ latest' = latest
  BY DEF vars
<1>2. IInv'
  BY <1>1 DEF IInv, CountersInv, LatestInv, TypedInv, AllWitnessed, SavedModelIsValid, CompactionUnderstates,
    TypedUntilCarried
<1>3. \A p \in arch.has : Rank(KindOf(arch, p)) <= Rank(KindOf(arch, p))
  BY EntriesSuit, UnderstatesItself DEF IInv, Held, Understates
<1> QED BY <1>1, <1>2, <1>3 DEF NoneRises

\* What a step of the model does to its clock, and what it may not do to its facts.
LEMMA NextStep ==
  ASSUME IInv, [Next]_vars
  PROVE  /\ IInv'
         /\ \/ now = 0 /\ now' = 1
            \/ now > 0 /\ now' = now + 1 /\ MembersKept
            \/ now' = now /\ NoneRises
<1>0. now \in Nat
  BY BoundsAssumption DEF IInv, CountersInv
<1>1. CASE CreateStored
  BY <1>1, StoredStep DEF CreateStored, Created
<1>2. CASE CreatePosted
  BY <1>2, PostedStep DEF CreatePosted, Created
<1>3. CASE CreatePreview
  BY <1>3, PreviewStep DEF CreatePreview, Created
<1>4. CASE CreateDrawn
  BY <1>4, DrawnStep DEF CreateDrawn, Created
<1>5. ASSUME NEW s \in Snapshots, NEW date \in Dates, NEW actor \in Importers, NEW touched \in Rewrites,
             Import(s, date, actor, touched)
      PROVE  IInv' /\ now > 0 /\ now' = now + 1 /\ MembersKept
  <2>1. now > 0 /\ now' = now + 1
    BY <1>0, <1>5 DEF Import
  <2>3. touched \in SUBSET Members
    BY BoundsAssumption
  <2>2. IInv' /\ MembersKept
    BY <1>5, <2>3, ImportStep DEF MembersKept
  <2> QED BY <2>1, <2>2
<1>6. ASSUME NEW actor \in Actors,
             \/ AddNode(actor) \/ AddEdge(actor) \/ AddMember(actor) \/ RemoveFact(actor)
             \/ AlterFacts(actor) \/ ReendEdge(actor) \/ EditSource(actor) \/ RemoveDrifted(actor)
      PROVE  IInv' /\ now' = now /\ NoneRises
  <2>1. CASE AddNode(actor) \/ AddEdge(actor) \/ AddMember(actor)
    BY <2>1, AddNodeStep, AddEdgeStep, AddMemberStep DEF AddNode, AddEdge, AddMember, Patch
  <2>2. CASE RemoveFact(actor) \/ AlterFacts(actor) \/ ReendEdge(actor)
    BY <2>2, RemoveFactStep, AlterFactsStep, ReendEdgeStep DEF RemoveFact, AlterFacts, ReendEdge, Patch
  <2>3. CASE EditSource(actor) \/ RemoveDrifted(actor)
    BY <2>3, EditSourceStep, RemoveDriftedStep DEF EditSource, RemoveDrifted, Patch
  <2> QED BY <1>6, <2>1, <2>2, <2>3
<1>7. CASE UNCHANGED vars
  BY <1>7, IdleStep DEF vars
<1> QED BY <1>1, <1>2, <1>3, <1>4, <1>5, <1>6, <1>7 DEF Next

-----------------------------------------------------------------------------
\* Drift.

\* The entries of an identifier that are stored as imports.
LEMMA ImportsAreWitnessed ==
  ASSUME IInv, NEW id \in Identifiers, NEW k \in ImportKeys(arch, id)
  PROVE  /\ arch.prov[k].id = id
         /\ Witnessed(k, arch.prov[k], now, latest)
         /\ arch.prov[k].importedAt \in Nat /\ arch.prov[k].fetched \in 0..arch.prov[k].importedAt
         /\ latest[id].at \in Nat /\ latest[id].hash \in Nat
<1>1. k \in DOMAIN arch.prov /\ Live(arch.prov[k]) /\ arch.prov[k].id = id
  BY DEF ImportKeys, Live
<1>2. Witnessed(k, arch.prov[k], now, latest)
  BY <1>1 DEF IInv, AllWitnessed
<1>3. now \in Nat
  BY BoundsAssumption DEF IInv, CountersInv
<1>4. latest[id] \in [hash : Nat, at : Nat]
  BY DEF IInv, LatestInv
<1>5. arch.prov[k].importedAt \in 1..now /\ arch.prov[k].fetched \in 1..arch.prov[k].importedAt
  BY <1>2 DEF Witnessed
<1>6. arch.prov[k].importedAt \in Nat
  BY <1>3, <1>5
<1>7. arch.prov[k].fetched \in 0..arch.prov[k].importedAt
  BY <1>5, <1>6
<1> QED BY <1>1, <1>2, <1>4, <1>6, <1>7

\* While something of an identifier's latest import is stored, it is the one that is found.
LEMMA LatestIsFound ==
  ASSUME IInv, NEW id \in Identifiers, NEW k0 \in ImportKeys(arch, id),
         arch.prov[k0].importedAt = latest[id].at
  PROVE  LatestImport(arch, id) = latest[id].hash
<1> DEFINE keys  == ImportKeys(arch, id)
           last  == {k \in keys : arch.prov[k].importedAt = latest[id].at}
           dates == {arch.prov[k].fetched : k \in last}
           best  == CHOOSE k \in keys : \A j \in keys : ~Newer(arch.prov[j], arch.prov[k])
<1>1. PICK at \in Nat, hash \in Nat : at = latest[id].at /\ hash = latest[id].hash
  BY ImportsAreWitnessed
<1>2. \A k \in keys : /\ arch.prov[k].importedAt \in Nat /\ arch.prov[k].importedAt <= at
                      /\ arch.prov[k].importedAt = at => arch.prov[k].seen = hash
                      /\ arch.prov[k].fetched \in 0..arch.prov[k].importedAt
  BY <1>1, ImportsAreWitnessed DEF Witnessed
<1>3. \A k \in last : arch.prov[k].fetched \in 0..at /\ arch.prov[k].seen = hash
  BY <1>1, <1>2
<1>4. dates \in SUBSET (0..at) /\ dates # {}
  BY <1>1, <1>3
<1>5. PICK m \in dates : \A x \in dates : x <= m
  <2> HIDE DEF dates
  <2> QED BY <1>4, FO!MaxOfNumbers
<1>6. PICK k \in last : arch.prov[k].fetched = m
  OBVIOUS
<1>7. \A j \in keys : ~Newer(arch.prov[j], arch.prov[k])
  <2> SUFFICES ASSUME NEW j \in keys, Newer(arch.prov[j], arch.prov[k]) PROVE FALSE
    OBVIOUS
  <2>1. arch.prov[k].importedAt = at /\ arch.prov[k].seen = hash /\ m \in Nat
    BY <1>1, <1>3, <1>4
  <2>2. arch.prov[j].importedAt = at
    BY <1>2, <2>1 DEF Newer
  <2>3. j \in last /\ arch.prov[j].seen = hash
    BY <1>1, <1>2, <2>2
  <2>4. arch.prov[j].fetched \in Nat /\ arch.prov[j].fetched <= m
    BY <1>3, <1>5, <2>3
  <2> QED BY <1>6, <2>1, <2>2, <2>3, <2>4 DEF Newer
<1>8. best \in keys /\ ~Newer(arch.prov[k0], arch.prov[best])
  BY <1>6, <1>7
<1> HIDE DEF best
<1>9. arch.prov[best].importedAt = at
  BY <1>1, <1>2, <1>8 DEF Newer
<1>10. arch.prov[best].seen = hash
  BY <1>2, <1>8, <1>9
<1> QED BY <1>1, <1>10 DEF LatestImport, best

\* What is drifted is what the latest import left behind.
LEMMA DriftHolds == IInv => DriftIsWhatTheLatestLeftBehind
<1> SUFFICES ASSUME IInv, NEW id \in Identifiers,
                    NEW k0 \in ImportKeys(arch, id), arch.prov[k0].importedAt = latest[id].at,
                    NEW s \in Snapshots, s.id = id, s.hash = latest[id].hash
             PROVE  DriftedElements(arch, id) = (ImportKeys(arch, id) \cap Elements) \ s.carries
  BY DEF DriftIsWhatTheLatestLeftBehind
<1>1. LatestImport(arch, id) = s.hash
  BY LatestIsFound
<1>2. ASSUME NEW k \in ImportKeys(arch, id)
      PROVE  arch.prov[k].seen = s.hash <=> k \in s.carries
  <2>1. Witnessed(k, arch.prov[k], now, latest) /\ arch.prov[k].id = id
    BY <1>2, ImportsAreWitnessed
  <2>2. PICK t \in Snapshots : t.id = id /\ t.hash = arch.prov[k].seen /\ k \in t.carries
    BY <2>1 DEF Witnessed
  <2>3. CASE k \in s.carries
    BY <2>1, <2>3 DEF Witnessed
  <2>4. CASE arch.prov[k].seen = s.hash
    BY <2>2, <2>4, SourceAssumption
  <2> QED BY <2>3, <2>4
<1> QED BY <1>1, <1>2 DEF DriftedElements

-----------------------------------------------------------------------------
\* Theorems.

\* The inductive invariant: what was accepted, when, of which source, and what patches wrote.
THEOREM Invariance == Spec => []IInv
<1>1. Init => IInv
  BY InitHolds
<1>2. IInv /\ [Next]_vars => IInv'
  BY NextStep
<1> QED BY <1>1, <1>2, PTL DEF Spec

\* The variables keep their types: entries are of known kinds, identifiers and people, and lie at facts.
THEOREM TypeCorrect == Spec => []TypeOK
<1>1. IInv => TypeOK
  BY InvariantImplies
<1> QED BY <1>1, Invariance, PTL

\* A save never leaves a sidecar the user could not repair: SavedModelIsValid (provenanceProblems,
\* compactProvenance, SyncSources).
THEOREM SavesAreValid == Spec => []SavedModelIsValid
<1>1. IInv => SavedModelIsValid
  BY DEF IInv
<1> QED BY <1>1, Invariance, PTL

\* Compaction only forgets in the safe direction: CompactionUnderstates (compactProvenance).
THEOREM CompactionIsSafe == Spec => []CompactionUnderstates
<1>1. IInv => CompactionUnderstates
  BY DEF IInv
<1> QED BY <1>1, Invariance, PTL

\* What a person's patch wrote is declared until an import carries it: TypedUntilCarried
\* (StampPatch, MergeImport).
THEOREM TypedFactsAreDeclared == Spec => []TypedUntilCarried
<1>1. IInv => TypedUntilCarried
  BY DEF IInv
<1> QED BY <1>1, Invariance, PTL

\* No import is believed for longer than its cadence after its acceptance: StaleByAcceptance
\* (boundFetchedAt, StampAccepted).
THEOREM ImportsGoStale == Spec => []StaleByAcceptance
<1>1. IInv => StaleByAcceptance
  BY InvariantImplies
<1> QED BY <1>1, Invariance, PTL

\* The drifted elements of an identifier are those its latest import did not carry:
\* DriftIsWhatTheLatestLeftBehind (LatestImports, DriftedElements).
THEOREM DriftIsExact == Spec => []DriftIsWhatTheLatestLeftBehind
<1>1. IInv => DriftIsWhatTheLatestLeftBehind
  BY DriftHolds
<1> QED BY <1>1, Invariance, PTL

\* An import that carries an element leaves its separately declared members declared:
\* DeclaredMemberIsKept (MergeImport).
THEOREM ImportsKeepMembers == Spec => DeclaredMemberIsKept
<1> DEFINE Kept == now' = now + 1 /\ now > 0 => MembersKept
<1>1. IInv /\ [Next]_vars => [Kept]_vars
  <2> SUFFICES ASSUME IInv, [Next]_vars, now' = now + 1, now > 0 PROVE MembersKept
    OBVIOUS
  <2>1. now \in Nat
    BY BoundsAssumption DEF IInv, CountersInv
  <2> QED BY <2>1, NextStep
<1>2. [][Kept]_vars <=> DeclaredMemberIsKept
  BY DEF MembersKept, DeclaredMemberIsKept
<1> QED BY <1>1, <1>2, Invariance, PTL DEF Spec

\* A patch makes no fact's claim stronger but by drawing an edge between other nodes, and then only
\* the edge's and that of what lies below it, where no key says otherwise: OnlyNewEndsRaise
\* (StampPatch, MaterializeProvenance, touchesNonDeclared).
THEOREM PatchesRaiseOnlyNewEnds == Spec => OnlyNewEndsRaise
<1> DEFINE Kept == now' = now => NoneRises
<1>1. IInv /\ [Next]_vars => [Kept]_vars
  <2> SUFFICES ASSUME IInv, [Next]_vars, now' = now PROVE NoneRises
    OBVIOUS
  <2>1. now \in Nat
    BY BoundsAssumption DEF IInv, CountersInv
  <2> QED BY <2>1, NextStep
<1>2. [][Kept]_vars <=> OnlyNewEndsRaise
  BY DEF NoneRises, OnlyNewEndsRaise
<1> QED BY <1>1, <1>2, Invariance, PTL DEF Spec

-----------------------------------------------------------------------------
(***************************************************************************)
(* The reading and the upgrade of a document.                              *)
(***************************************************************************)

Fields == {"version", "nodes", "edges", "groups", "identities", "findings", "provenance"}
Supported == Migratable \cup {Current}

IsNode(n) ==
  /\ n = [f \in {"type", "attrs", "notes", "zone"} |-> n[f]]
  /\ \A p \in n.attrs : p = <<p[1], p[2]>>

IsEdge(e) ==
  /\ e = [f \in {"from", "to", "kind", "protocol", "notes"} |-> e[f]]
  /\ \E texts : e.notes \in Seq(texts)

\* The parts of a document every step leaves in place.
IsDocument(d) ==
  /\ d = [f \in Fields |-> d[f]]
  /\ d.nodes = [i \in DOMAIN d.nodes |-> d.nodes[i]]
  /\ d.edges = [i \in DOMAIN d.edges |-> d.edges[i]]
  /\ \A i \in DOMAIN d.nodes : IsNode(d.nodes[i])
  /\ \A i \in DOMAIN d.edges : IsEdge(d.edges[i])

\* A value as it was, in a note, or (authn) as a list of one or nothing.
Stands(p, n) ==
  \/ p \in n.attrs \cup n.notes
  \/ p = <<"authn", "">>
  \/ p = <<"authn", "oidc">> /\ <<"authn", "[oidc]">> \in n.attrs

\* Keys a rewrite may add, and those it neither adds nor takes away.
Added == {"x_purpose", "x_purpose_2"}
Fixed == {"identity_id", "kill_switch_identity", "hosted_on"}

\* A value that stays as it is.
Accepts(type, k, v) ==
  /\ k = "authn" => v # "" /\ v # "oidc"
  /\ type = "agent" /\ k = "kind" => v \in AgentKinds \cup {""}
  /\ type \in {"agent", "tool"} /\ k = "egress_policy" => v # "true"
  /\ type = "mcp_server" /\ k = "exposure" => v \notin {"unknown", "internal"}
  /\ type = "log_sink" /\ k = "purpose" => v \in Purposes \cup {""}

LEMMA AcceptedStays ==
  ASSUME NEW type, NEW attrs, NEW k, NEW v, Accepts(type, k, v)
  PROVE  Rewritten(type, attrs, k, v) = {<<k, v>>}
<1>1. ListOf = [oidc |-> "[oidc]"] /\ DOMAIN ListOf = {"oidc"}
  BY DEF ListOf
<1>2. DOMAIN PurposeSpellings = {"Security"} /\ Purposes = {"operational", "security"} /\ Blank = " "
  BY DEF PurposeSpellings, Purposes, Blank
<1> QED BY <1>1, <1>2 DEF Accepts, Rewritten

\* What becomes of any other value.
LEMMA RefusedGoes ==
  ASSUME NEW type, NEW attrs, NEW k, NEW v, ~Accepts(type, k, v)
  PROVE  /\ k \in {"authn", "kind", "egress_policy", "exposure", "purpose"}
         /\ \A r \in Rewritten(type, attrs, k, v) :
              \/ k = "authn" /\ r = <<"authn", "[oidc]">>
              \/ type = "mcp_server" /\ k = "exposure" /\ r = <<k, "private_network">>
              \/ type = "log_sink" /\ k = "purpose" /\ r = <<k, "security">>
              \/ type = "log_sink" /\ \E x \in Added : r = <<x, v>>
         /\ k = "authn" => v \in {"", "oidc"}
         /\ k = "authn" /\ v = "oidc" => Rewritten(type, attrs, k, v) = {<<"authn", "[oidc]">>}
<1>1. ListOf = [oidc |-> "[oidc]"] /\ DOMAIN ListOf = {"oidc"}
  BY DEF ListOf
<1>2. /\ PurposeSpellings = [Security |-> "security"] /\ DOMAIN PurposeSpellings = {"Security"}
      /\ Purposes = {"operational", "security"} /\ Blank = " "
  BY DEF PurposeSpellings, Purposes, Blank
<1>3. CASE k = "authn"
  <2>1. v = "" \/ v = "oidc"
    BY <1>3 DEF Accepts
  <2>2. CASE v = ""
    BY <1>1, <1>3, <2>2 DEF Rewritten
  <2>3. CASE v = "oidc"
    BY <1>1, <1>3, <2>3 DEF Rewritten
  <2> QED BY <1>3, <2>1, <2>2, <2>3
<1>4. CASE k = "kind"
  BY <1>4 DEF Accepts, Rewritten
<1>5. CASE k = "egress_policy"
  BY <1>5 DEF Accepts, Rewritten
<1>6. CASE k = "exposure"
  <2>1. type = "mcp_server" /\ (v = "unknown" \/ v = "internal")
    BY <1>6 DEF Accepts
  <2>2. CASE v = "unknown"
    BY <1>6, <2>1, <2>2 DEF Rewritten
  <2>3. CASE v = "internal"
    BY <1>6, <2>1, <2>3 DEF Rewritten
  <2> QED BY <1>6, <2>1, <2>2, <2>3
<1>7. CASE k = "purpose"
  <2>1. type = "log_sink" /\ v \notin Purposes \cup {""}
    BY <1>7 DEF Accepts
  <2>2. CASE v = "Security"
    BY <1>2, <1>7, <2>1, <2>2 DEF Rewritten
  <2>3. CASE v = Blank
    BY <1>2, <1>7, <2>1, <2>3 DEF Rewritten
  <2>4. CASE v # "Security" /\ v # Blank
    <3>1. Rewritten(type, attrs, k, v) = {<<FreeKey(attrs, v), v>>}
      BY <1>2, <1>7, <2>1, <2>4 DEF Rewritten
    <3>2. FreeKey(attrs, v) \in Added
      BY DEF FreeKey, Added
    <3> QED BY <1>7, <2>1, <3>1, <3>2
  <2> QED BY <1>7, <2>2, <2>3, <2>4
<1> QED BY <1>3, <1>4, <1>5, <1>6, <1>7 DEF Accepts

\* Every value of a node whose values its type accepts.
AcceptsAll(n) == \A p \in n.attrs : Accepts(n.type, p[1], p[2])

\* What the tolerant reading does to a node.
LEMMA NormalizedNodeFacts ==
  ASSUME NEW n, IsNode(n), NEW m, m = NormalizedNode(n)
  PROVE  /\ IsNode(m) /\ m.type = n.type /\ m.zone = n.zone
         /\ AcceptsAll(m)
         /\ \A p : Stands(p, n) => Stands(p, m)
         /\ \A p : p[1] \in Fixed => (p \in m.attrs <=> p \in n.attrs)
         /\ Keys(m) \subseteq Keys(n) \cup Added
         /\ \A k \in Keys(n) \ Keys(m) : k \notin Fixed \cup Added
         /\ AcceptsAll(n) => m = n
<1> DEFINE becomes(p) == Rewritten(n.type, n.attrs, p[1], p[2])
<1>1. /\ n = [f \in {"type", "attrs", "notes", "zone"} |-> n[f]]
      /\ \A p \in n.attrs : p = <<p[1], p[2]>>
  BY DEF IsNode
<1>2. /\ m = [f \in {"type", "attrs", "notes", "zone"} |-> m[f]]
      /\ m.type = n.type /\ m.zone = n.zone
      /\ m.attrs = UNION {becomes(p) : p \in n.attrs}
      /\ m.notes = n.notes \cup {p \in n.attrs \ m.attrs : p[1] # "authn"}
  BY <1>1 DEF NormalizedNode
<1>3. ASSUME NEW p \in n.attrs, Accepts(n.type, p[1], p[2])
      PROVE  becomes(p) = {p}
  BY <1>1, <1>3, AcceptedStays
<1>4. ASSUME NEW p \in n.attrs, NEW r \in becomes(p)
      PROVE  r = <<r[1], r[2]>> /\ Accepts(n.type, r[1], r[2]) /\ r[1] \in {p[1]} \cup Added
  <2>1. CASE Accepts(n.type, p[1], p[2])
    BY <1>1, <1>3, <1>4, <2>1
  <2>2. CASE ~Accepts(n.type, p[1], p[2])
    <3>1. \/ p[1] = "authn" /\ r = <<"authn", "[oidc]">>
          \/ n.type = "mcp_server" /\ p[1] = "exposure" /\ r = <<p[1], "private_network">>
          \/ n.type = "log_sink" /\ p[1] = "purpose" /\ r = <<p[1], "security">>
          \/ n.type = "log_sink" /\ \E x \in Added : r = <<x, p[2]>>
      <4>1. PICK t, A, k, v : t = n.type /\ A = n.attrs /\ k = p[1] /\ v = p[2]
        OBVIOUS
      <4>2. ~Accepts(t, k, v) /\ r \in Rewritten(t, A, k, v)
        BY <1>4, <2>2, <4>1
      <4>3. \/ k = "authn" /\ r = <<"authn", "[oidc]">>
            \/ t = "mcp_server" /\ k = "exposure" /\ r = <<k, "private_network">>
            \/ t = "log_sink" /\ k = "purpose" /\ r = <<k, "security">>
            \/ t = "log_sink" /\ \E x \in Added : r = <<x, v>>
        BY <4>2, RefusedGoes
      <4> QED BY <4>1, <4>3
    <3>2. CASE r = <<"authn", "[oidc]">> /\ p[1] = "authn"
      BY <3>2 DEF Accepts
    <3>3. CASE n.type = "mcp_server" /\ p[1] = "exposure" /\ r = <<p[1], "private_network">>
      BY <3>3 DEF Accepts
    <3>4. CASE n.type = "log_sink" /\ p[1] = "purpose" /\ r = <<p[1], "security">>
      BY <3>4 DEF Accepts, Purposes
    <3>5. CASE n.type = "log_sink" /\ \E x \in Added : r = <<x, p[2]>>
      <4>1. PICK x \in Added : r = <<x, p[2]>>
        BY <3>5
      <4> QED BY <3>5, <4>1 DEF Accepts, Added
    <3> QED BY <3>1, <3>2, <3>3, <3>4, <3>5
  <2> QED BY <2>1, <2>2
<1>5. ASSUME NEW p \in n.attrs, ~Accepts(n.type, p[1], p[2])
      PROVE  /\ p[1] \in {"authn", "kind", "egress_policy", "exposure", "purpose"}
             /\ p[1] = "authn" => p[2] \in {"", "oidc"}
             /\ p[1] = "authn" /\ p[2] = "oidc" => becomes(p) = {<<"authn", "[oidc]">>}
  <2>1. PICK t, A, k, v : t = n.type /\ A = n.attrs /\ k = p[1] /\ v = p[2]
    OBVIOUS
  <2>2. ~Accepts(t, k, v) /\ becomes(p) = Rewritten(t, A, k, v)
    BY <1>5, <2>1
  <2> HIDE DEF becomes
  <2>3. /\ k \in {"authn", "kind", "egress_policy", "exposure", "purpose"}
        /\ k = "authn" => v \in {"", "oidc"}
        /\ k = "authn" /\ v = "oidc" => Rewritten(t, A, k, v) = {<<"authn", "[oidc]">>}
    BY <2>2, RefusedGoes
  <2> QED BY <2>1, <2>2, <2>3
<1> HIDE DEF becomes
<1>6. \A r \in m.attrs : \E p \in n.attrs : r \in becomes(p)
  BY <1>2
<1>7. IsNode(m)
  BY <1>2, <1>4, <1>6 DEF IsNode
<1>8. AcceptsAll(m)
  BY <1>2, <1>4, <1>6 DEF AcceptsAll
<1>9. ASSUME NEW p, Stands(p, n) PROVE Stands(p, m)
  <2>1. CASE p \in n.notes
    BY <1>2, <2>1 DEF Stands
  <2>2. CASE p \in n.attrs /\ Accepts(n.type, p[1], p[2])
    BY <1>2, <1>3, <2>2 DEF Stands
  <2>3. CASE p \in n.attrs /\ ~Accepts(n.type, p[1], p[2]) /\ p[1] # "authn"
    BY <1>2, <2>3 DEF Stands
  <2>4. CASE p \in n.attrs /\ ~Accepts(n.type, p[1], p[2]) /\ p[1] = "authn"
    <3>1. p[2] = "oidc" => <<"authn", "[oidc]">> \in m.attrs
      BY <1>2, <1>5, <2>4
    <3>2. p = <<"authn", p[2]>> /\ p[2] \in {"", "oidc"}
      BY <1>1, <1>5, <2>4
    <3> QED BY <3>1, <3>2 DEF Stands
  <2>5. CASE p = <<"authn", "">>
    BY <2>5 DEF Stands
  <2>6. CASE p = <<"authn", "oidc">> /\ <<"authn", "[oidc]">> \in n.attrs
    <3> DEFINE r == <<"authn", "[oidc]">>
    <3>1. Accepts(n.type, r[1], r[2])
      BY DEF Accepts
    <3>2. r \in m.attrs
      BY <1>2, <1>3, <2>6, <3>1
    <3> QED BY <2>6, <3>2 DEF Stands
  <2> QED BY <1>9, <2>1, <2>2, <2>3, <2>4, <2>5, <2>6 DEF Stands
<1>10. ASSUME NEW p, p[1] \in Fixed PROVE p \in m.attrs <=> p \in n.attrs
  <2>1. ASSUME p \in n.attrs PROVE p \in m.attrs
    <3>1. Accepts(n.type, p[1], p[2])
      BY <1>10 DEF Accepts, Fixed
    <3> QED BY <1>2, <1>3, <2>1, <3>1
  <2>2. ASSUME p \in m.attrs PROVE p \in n.attrs
    <3>1. PICK q \in n.attrs : p \in becomes(q)
      BY <1>6, <2>2
    <3>2. p[1] = q[1]
      BY <1>4, <1>10, <3>1 DEF Fixed, Added
    <3>3. Accepts(n.type, q[1], q[2])
      BY <1>10, <3>2 DEF Accepts, Fixed
    <3> QED BY <1>3, <3>1, <3>3
  <2> QED BY <2>1, <2>2
<1>11. Keys(m) \subseteq Keys(n) \cup Added
  BY <1>4, <1>6 DEF Keys
<1>12. ASSUME NEW k \in Keys(n) \ Keys(m) PROVE k \notin Fixed \cup Added
  <2>1. PICK p \in n.attrs : k = p[1]
    BY DEF Keys
  <2>2. ~Accepts(n.type, p[1], p[2])
    BY <1>2, <1>3, <2>1 DEF Keys
  <2> QED BY <1>5, <2>1, <2>2 DEF Fixed, Added
<1>13. ASSUME AcceptsAll(n) PROVE m = n
  <2>1. \A p \in n.attrs : becomes(p) = {p}
    BY <1>3, <1>13 DEF AcceptsAll
  <2>2. m.attrs = n.attrs
    <3>1. \A p \in n.attrs : p \in m.attrs
      BY <1>2, <2>1
    <3>2. \A p \in m.attrs : p \in n.attrs
      BY <1>6, <2>1
    <3> QED BY <3>1, <3>2
  <2>3. m.type = n.type /\ m.attrs = n.attrs /\ m.zone = n.zone
    BY <1>2, <2>2
  <2>4. m.notes = n.notes
    BY <1>2, <2>3
  <2> QED BY <1>1, <1>2, <2>3, <2>4
<1> QED BY <1>2, <1>7, <1>8, <1>9, <1>10, <1>11, <1>12, <1>13

\* A protocol as it was, or the value it reads as with what the value does not say in a note.
Reads(was, e) ==
  \/ e.protocol = was
  \/ /\ ValidProtocol(e.protocol)
     /\ \/ was = Blank \/ <<was, e.protocol>> \in SameSpelling
        \/ \E i \in 1..Len(e.notes) : e.notes[i] = was

\* What the tolerant reading does to an edge.
LEMMA NormalizedEdgeFacts ==
  ASSUME NEW e, IsEdge(e), NEW f, f = NormalizedEdge(e)
  PROVE  /\ IsEdge(f) /\ f.from = e.from /\ f.to = e.to /\ f.kind = e.kind
         /\ ValidProtocol(f.protocol)
         /\ ValidProtocol(e.protocol) => f = e
         /\ \A was : Reads(was, e) => Reads(was, f)
<1>1. CASE ValidProtocol(e.protocol)
  BY <1>1 DEF NormalizedEdge
<1>2. CASE ~ValidProtocol(e.protocol)
  <2>1. PICK texts : e.notes \in Seq(texts)
    BY DEF IsEdge
  <2> DEFINE v == CanonicalProtocol(e.protocol)
             notes == IF Noted(e.protocol) THEN Note(e.notes, e.protocol) ELSE e.notes
  <2>2. ValidProtocol(v)
    <3>1. \A t \in DOMAIN Spellings : Spellings[t] \in Protocols
      BY DEF Spellings, Protocols
    <3>2. "other" \in Protocols
      BY DEF Protocols
    <3> QED BY <3>1, <3>2 DEF CanonicalProtocol, ValidProtocol
  <2>3. notes \in Seq(texts \cup {e.protocol})
    <3>1. e.notes \in Seq(texts \cup {e.protocol})
      BY <2>1
    <3> QED BY <3>1 DEF Note
  <2>4. Noted(e.protocol) => \E i \in 1..Len(notes) : notes[i] = e.protocol
    <3>1. CASE \E i \in 1..Len(e.notes) : e.notes[i] = e.protocol
      BY <3>1 DEF Note
    <3>2. CASE ~\E i \in 1..Len(e.notes) : e.notes[i] = e.protocol
      <4>1. Note(e.notes, e.protocol) = Append(e.notes, e.protocol)
        BY <3>2 DEF Note
      <4>2. /\ Len(Append(e.notes, e.protocol)) = Len(e.notes) + 1
            /\ Append(e.notes, e.protocol)[Len(e.notes) + 1] = e.protocol
            /\ Len(e.notes) \in Nat
        BY <2>1
      <4>3. Len(e.notes) + 1 \in 1..(Len(e.notes) + 1)
        BY <4>2
      <4> QED BY <4>1, <4>2, <4>3
    <3> QED BY <3>1, <3>2
  <2> HIDE DEF v, notes
  <2>5. f = [e EXCEPT !.protocol = v, !.notes = notes]
    BY <1>2 DEF NormalizedEdge, v, notes
  <2>6. /\ f = [x \in {"from", "to", "kind", "protocol", "notes"} |-> f[x]]
        /\ f.from = e.from /\ f.to = e.to /\ f.kind = e.kind /\ f.protocol = v /\ f.notes = notes
    BY <2>5 DEF IsEdge
  <2>7. ASSUME NEW was, Reads(was, e) PROVE Reads(was, f)
    <3>1. was = e.protocol
      BY <1>2, <2>7 DEF Reads
    <3>2. Noted(was) \/ was = Blank \/ <<was, v>> \in SameSpelling
      BY <3>1 DEF Noted, v
    <3> QED BY <2>2, <2>4, <2>6, <3>1, <3>2 DEF Reads
  <2> QED BY <1>2, <2>2, <2>3, <2>6, <2>7 DEF IsEdge
<1> QED BY <1>1, <1>2

-----------------------------------------------------------------------------
\* A document in the current shapes: nothing is left for the tolerant reading.
IsNormal(d) ==
  /\ \A i \in DOMAIN d.nodes : AcceptsAll(d.nodes[i])
  /\ \A i \in DOMAIN d.edges : ValidProtocol(d.edges[i].protocol)

\* An edge's protocol that the tolerant reading leaves blank.
IsBlanked(d, e, key) ==
  \E i \in DOMAIN d.edges :
    /\ key = <<i, "protocol">>
    /\ ~ValidProtocol(d.edges[i].protocol) /\ e.edges[i].protocol = ""

\* The tolerant reading, member by member.
ReadsAs(d, e) ==
  /\ \A f \in {"version", "groups", "identities", "findings"} : e[f] = d[f]
  /\ DOMAIN e.nodes = DOMAIN d.nodes /\ DOMAIN e.edges = DOMAIN d.edges
  /\ \A i \in DOMAIN d.nodes : e.nodes[i] = NormalizedNode(d.nodes[i])
  /\ \A i \in DOMAIN d.edges : e.edges[i] = NormalizedEdge(d.edges[i])
  /\ \A key : key \in e.provenance <=>
       key \in d.provenance /\ key \notin DroppedKeys(d, e.nodes) /\ ~IsBlanked(d, e, key)

LEMMA NormalizedParts ==
  ASSUME NEW d, IsDocument(d), NEW e, e = Normalized(d)
  PROVE  IsDocument(e) /\ IsNormal(e) /\ ReadsAs(d, e)
<1> DEFINE nodes == [i \in DOMAIN d.nodes |-> NormalizedNode(d.nodes[i])]
           edges == [i \in DOMAIN d.edges |-> NormalizedEdge(d.edges[i])]
           blanked == {<<i, "protocol">> : i \in {i \in DOMAIN edges :
                          ~ValidProtocol(d.edges[i].protocol) /\ edges[i].protocol = ""}}
           provenance == d.provenance \ (DroppedKeys(d, nodes) \cup blanked)
<1>1. e = [d EXCEPT !.nodes = nodes, !.edges = edges, !.provenance = provenance]
  BY DEF Normalized
<1>2. d = [f \in Fields |-> d[f]]
  BY DEF IsDocument
<1>3. DOMAIN nodes = DOMAIN d.nodes /\ DOMAIN edges = DOMAIN d.edges
  OBVIOUS
<1>4. nodes = [i \in DOMAIN nodes |-> nodes[i]] /\ edges = [i \in DOMAIN edges |-> edges[i]]
  OBVIOUS
<1>5. \A i \in DOMAIN d.nodes : nodes[i] = NormalizedNode(d.nodes[i])
  OBVIOUS
<1>6. \A i \in DOMAIN d.edges : edges[i] = NormalizedEdge(d.edges[i])
  OBVIOUS
<1>7. \A key : key \in blanked <=>
        \E i \in DOMAIN d.edges :
          key = <<i, "protocol">> /\ ~ValidProtocol(d.edges[i].protocol) /\ edges[i].protocol = ""
  BY <1>3
<1>8. \A key : key \in provenance <=>
        key \in d.provenance /\ key \notin DroppedKeys(d, nodes) /\ key \notin blanked
  OBVIOUS
<1> HIDE DEF nodes, edges, blanked, provenance
<1>9. /\ e = [f \in Fields |-> e[f]]
      /\ e.nodes = nodes /\ e.edges = edges /\ e.provenance = provenance
      /\ \A f \in {"version", "groups", "identities", "findings"} : e[f] = d[f]
  BY <1>1, <1>2 DEF Fields
<1>10. ASSUME NEW i \in DOMAIN nodes PROVE IsNode(nodes[i]) /\ AcceptsAll(nodes[i])
  <2>1. PICK n, m : n = d.nodes[i] /\ m = nodes[i]
    OBVIOUS
  <2>2. IsNode(n) /\ m = NormalizedNode(n)
    BY <1>3, <1>5, <2>1 DEF IsDocument
  <2>3. IsNode(m) /\ AcceptsAll(m)
    BY <2>2, NormalizedNodeFacts
  <2> QED BY <2>1, <2>3
<1>11. ASSUME NEW i \in DOMAIN edges PROVE IsEdge(edges[i]) /\ ValidProtocol(edges[i].protocol)
  <2>1. PICK n, m : n = d.edges[i] /\ m = edges[i]
    OBVIOUS
  <2>2. IsEdge(n) /\ m = NormalizedEdge(n)
    BY <1>3, <1>6, <2>1 DEF IsDocument
  <2>3. IsEdge(m) /\ ValidProtocol(m.protocol)
    BY <2>2, NormalizedEdgeFacts
  <2> QED BY <2>1, <2>3
<1>12. IsDocument(e) /\ IsNormal(e)
  BY <1>4, <1>9, <1>10, <1>11 DEF IsDocument, IsNormal
<1>13. \A key : key \in e.provenance <=>
         key \in d.provenance /\ key \notin DroppedKeys(d, e.nodes) /\ ~IsBlanked(d, e, key)
  BY <1>7, <1>8, <1>9 DEF IsBlanked
<1>14. /\ \A i \in DOMAIN d.nodes : e.nodes[i] = NormalizedNode(d.nodes[i])
       /\ \A i \in DOMAIN d.edges : e.edges[i] = NormalizedEdge(d.edges[i])
       /\ DOMAIN e.nodes = DOMAIN d.nodes /\ DOMAIN e.edges = DOMAIN d.edges
  BY <1>3, <1>5, <1>6, <1>9
<1> QED BY <1>9, <1>12, <1>13, <1>14 DEF ReadsAs

\* Reading what was read changes nothing.
LEMMA NormalStays ==
  ASSUME NEW d, IsDocument(d), IsNormal(d)
  PROVE  Normalized(d) = d
<1>1. PICK e : e = Normalized(d)
  OBVIOUS
<1>2. IsDocument(e) /\ ReadsAs(d, e)
  BY <1>1, NormalizedParts
<1>3. ASSUME NEW i \in DOMAIN d.nodes PROVE e.nodes[i] = d.nodes[i]
  <2>1. PICK n, m : n = d.nodes[i] /\ m = e.nodes[i]
    OBVIOUS
  <2>2. IsNode(n) /\ AcceptsAll(n) /\ m = NormalizedNode(n)
    BY <1>2, <2>1 DEF IsDocument, IsNormal, ReadsAs
  <2> QED BY <2>1, <2>2, NormalizedNodeFacts
<1>4. ASSUME NEW i \in DOMAIN d.edges PROVE e.edges[i] = d.edges[i]
  <2>1. PICK n, m : n = d.edges[i] /\ m = e.edges[i]
    OBVIOUS
  <2>2. IsEdge(n) /\ ValidProtocol(n.protocol) /\ m = NormalizedEdge(n)
    BY <1>2, <2>1 DEF IsDocument, IsNormal, ReadsAs
  <2> QED BY <2>1, <2>2, NormalizedEdgeFacts
<1>5. e.nodes = d.nodes /\ e.edges = d.edges
  BY <1>2, <1>3, <1>4 DEF IsDocument, ReadsAs
<1>6. DroppedKeys(d, e.nodes) = {}
  BY <1>5 DEF DroppedKeys
<1>7. \A key : ~IsBlanked(d, e, key)
  BY DEF IsNormal, IsBlanked
<1>8. e.provenance = d.provenance
  BY <1>2, <1>6, <1>7 DEF ReadsAs
<1>9. \A f \in Fields : e[f] = d[f]
  BY <1>2, <1>5, <1>8 DEF Fields, ReadsAs
<1> QED BY <1>1, <1>2, <1>9 DEF IsDocument

-----------------------------------------------------------------------------
(***************************************************************************)
(* What every operation of the upgrade leaves true of a document: what it  *)
(* states still stands, and a key of the sidecar goes with its value only. *)
(***************************************************************************)

NodeFollows(n, m) ==
  /\ m.type = n.type /\ m.zone = n.zone
  /\ \A p : Stands(p, n) => Stands(p, m)
  /\ Keys(m) \subseteq Keys(n) \cup Added \cup {"identity_id"}
  /\ \A k \in Keys(n) \ Keys(m) : k \notin Added \cup {"identity_id"}

EdgeFollows(e, f) ==
  /\ f.from = e.from /\ f.to = e.to /\ f.kind = e.kind
  /\ \A was : Reads(was, e) => Reads(was, f)
  /\ e.protocol = "" => f.protocol = ""

\* The value a key names is gone.
IsGone(key, d, e) ==
  \/ /\ key[1] \in DOMAIN d.nodes
     /\ key[2] \in Keys(d.nodes[key[1]]) \ Keys(e.nodes[key[1]])
  \/ key[1] \in DOMAIN d.edges /\ e.edges[key[1]].protocol = ""

\* A key names an element, or a value the element holds.
Traced(d, key) ==
  \/ \E i \in DOMAIN d.nodes \cup DOMAIN d.edges : key = <<i>>
  \/ \E i \in DOMAIN d.nodes : \E k \in Keys(d.nodes[i]) : key = <<i, k>>
  \/ \E i \in DOMAIN d.edges : key = <<i, "protocol">> /\ d.edges[i].protocol # ""

Follows(d, e) ==
  /\ e.groups = d.groups /\ e.findings = d.findings
  /\ DOMAIN e.nodes = DOMAIN d.nodes /\ DOMAIN e.edges = DOMAIN d.edges
  /\ \A i \in DOMAIN d.nodes : NodeFollows(d.nodes[i], e.nodes[i])
  /\ \A i \in DOMAIN d.edges : EdgeFollows(d.edges[i], e.edges[i])
  /\ e.provenance \subseteq d.provenance
  /\ \A key \in d.provenance \ e.provenance : IsGone(key, d, e)
  /\ \A key \in e.provenance : Traced(d, key) => Traced(e, key)

\* What d keeps of a document as it was stored; a value that is gone cannot come back under its key.
Keeps(was, d) ==
  /\ DOMAIN d.nodes = DOMAIN was.nodes /\ DOMAIN d.edges = DOMAIN was.edges
  /\ \A i \in DOMAIN was.nodes : \A p \in was.nodes[i].attrs : Stands(p, d.nodes[i])
  /\ \A i \in DOMAIN was.edges : Reads(was.edges[i].protocol, d.edges[i])
  /\ \A key \in was.provenance \ d.provenance :
       \/ /\ key[1] \in DOMAIN d.nodes
          /\ key[2] \notin Keys(d.nodes[key[1]]) \cup Added \cup {"identity_id"}
       \/ key[1] \in DOMAIN d.edges /\ d.edges[key[1]].protocol = ""

LEMMA KeepsCarries ==
  ASSUME NEW was, NEW d, NEW e, Keeps(was, d), Follows(d, e)
  PROVE  Keeps(was, e)
<1>1. /\ DOMAIN d.nodes = DOMAIN was.nodes /\ DOMAIN d.edges = DOMAIN was.edges
      /\ DOMAIN e.nodes = DOMAIN d.nodes /\ DOMAIN e.edges = DOMAIN d.edges
  BY DEF Keeps, Follows
<1>2. ASSUME NEW i \in DOMAIN was.nodes, NEW p \in was.nodes[i].attrs
      PROVE  Stands(p, e.nodes[i])
  <2>1. Stands(p, d.nodes[i])
    BY DEF Keeps
  <2>2. NodeFollows(d.nodes[i], e.nodes[i])
    BY <1>1 DEF Follows
  <2> QED BY <2>1, <2>2 DEF NodeFollows
<1>3. ASSUME NEW i \in DOMAIN was.edges
      PROVE  Reads(was.edges[i].protocol, e.edges[i])
  <2>1. Reads(was.edges[i].protocol, d.edges[i])
    BY DEF Keeps
  <2>2. EdgeFollows(d.edges[i], e.edges[i])
    BY <1>1 DEF Follows
  <2> QED BY <2>1, <2>2 DEF EdgeFollows
<1>4. ASSUME NEW key \in was.provenance \ e.provenance
      PROVE  \/ /\ key[1] \in DOMAIN e.nodes
                /\ key[2] \notin Keys(e.nodes[key[1]]) \cup Added \cup {"identity_id"}
             \/ key[1] \in DOMAIN e.edges /\ e.edges[key[1]].protocol = ""
  <2>1. key \in d.provenance => IsGone(key, d, e)
    BY DEF Follows
  <2>2. key \notin d.provenance =>
          \/ /\ key[1] \in DOMAIN d.nodes
             /\ key[2] \notin Keys(d.nodes[key[1]]) \cup Added \cup {"identity_id"}
          \/ key[1] \in DOMAIN d.edges /\ d.edges[key[1]].protocol = ""
    BY DEF Keeps
  <2>3. CASE key[1] \in DOMAIN d.nodes /\ key[2] \notin Keys(d.nodes[key[1]]) \cup Added \cup {"identity_id"}
    <3>1. NodeFollows(d.nodes[key[1]], e.nodes[key[1]])
      BY <2>3 DEF Follows
    <3> QED BY <1>1, <2>3, <3>1 DEF NodeFollows
  <2>4. CASE key[1] \in DOMAIN d.nodes /\ key[2] \in Keys(d.nodes[key[1]]) \ Keys(e.nodes[key[1]])
    <3>1. NodeFollows(d.nodes[key[1]], e.nodes[key[1]])
      BY <2>4 DEF Follows
    <3> QED BY <1>1, <2>4, <3>1 DEF NodeFollows
  <2>5. CASE key[1] \in DOMAIN d.edges /\ d.edges[key[1]].protocol = ""
    <3>1. EdgeFollows(d.edges[key[1]], e.edges[key[1]])
      BY <2>5 DEF Follows
    <3> QED BY <1>1, <2>5, <3>1 DEF EdgeFollows
  <2>6. CASE key[1] \in DOMAIN d.edges /\ e.edges[key[1]].protocol = ""
    BY <1>1, <2>6
  <2> QED BY <2>1, <2>2, <2>3, <2>4, <2>5, <2>6 DEF IsGone
<1> QED BY <1>1, <1>2, <1>3, <1>4 DEF Keeps

LEMMA FollowsOn ==
  ASSUME NEW d, NEW e, Follows(d, e), GroupsHold(d)
  PROVE  GroupsHold(e) /\ Hosts(e) = Hosts(d)
<1>1. /\ e.groups = d.groups /\ DOMAIN e.nodes = DOMAIN d.nodes
      /\ \A i \in DOMAIN d.nodes : NodeFollows(d.nodes[i], e.nodes[i])
  BY DEF Follows
<1>2. \A i \in DOMAIN d.nodes : e.nodes[i].type = d.nodes[i].type /\ e.nodes[i].zone = d.nodes[i].zone
  BY <1>1 DEF NodeFollows
<1>3. Hosts(e) = Hosts(d)
  BY <1>1, <1>2 DEF Hosts
<1>4. GroupsHold(e)
  <2>1. \A g \in DOMAIN e.groups :
          /\ e.groups[g].members \subseteq DOMAIN e.nodes
          /\ e.groups[g].parent # "" => e.groups[g].parent \in DOMAIN e.groups \ {g}
    BY <1>1 DEF GroupsHold
  <2>2. ASSUME NEW i \in DOMAIN e.nodes
        PROVE  /\ \A g, h \in DOMAIN e.groups :
                    /\ e.groups[g].kind = "zone" /\ i \in e.groups[g].members
                    /\ e.groups[h].kind = "zone" /\ i \in e.groups[h].members
                    => g = h
               /\ e.nodes[i].zone # "" =>
                    /\ e.nodes[i].zone \in DOMAIN e.groups
                    /\ e.groups[e.nodes[i].zone].kind = "zone"
                    /\ i \in e.groups[e.nodes[i].zone].members
    BY <1>1, <1>2 DEF GroupsHold
  <2> QED BY <2>1, <2>2 DEF GroupsHold
<1> QED BY <1>3, <1>4

\* The references a node makes and those the edges make.
NodeRefersTo(n, ids) ==
  \A p \in n.attrs :
    /\ p[1] \in {"identity_id", "kill_switch_identity"} => p[2] \in ids
    /\ p[1] = "kill_switch_identity" => <<"identity_id", p[2]>> \notin n.attrs

IdentityIds(d) == {x.id : x \in d.identities}

EdgesHold(d) ==
  \A i \in DOMAIN d.edges :
    /\ {d.edges[i].from, d.edges[i].to} \subseteq Hosts(d)
    /\ d.edges[i].from = d.edges[i].to =>
         d.nodes[d.edges[i].from].type = "agent" /\ d.edges[i].kind = "delegates"

LEMMA ReferenceParts ==
  ASSUME NEW d
  PROVE  ReferencesHold(d) <=>
           (\A i \in DOMAIN d.nodes : NodeRefersTo(d.nodes[i], IdentityIds(d))) /\ EdgesHold(d)
BY DEF ReferencesHold, NodeRefersTo, IdentityIds, EdgesHold

LEMMA EdgesHoldOn ==
  ASSUME NEW d, NEW e, Follows(d, e), EdgesHold(d)
  PROVE  EdgesHold(e)
<1>1. \A i \in DOMAIN d.nodes : e.nodes[i].type = d.nodes[i].type
  BY DEF Follows, NodeFollows
<1>2. /\ DOMAIN e.nodes = DOMAIN d.nodes /\ DOMAIN e.edges = DOMAIN d.edges
      /\ \A i \in DOMAIN d.edges :
           /\ e.edges[i].from = d.edges[i].from /\ e.edges[i].to = d.edges[i].to
           /\ e.edges[i].kind = d.edges[i].kind
  BY DEF Follows, EdgeFollows
<1>3. Hosts(e) = Hosts(d)
  BY <1>1, <1>2 DEF Hosts
<1>4. ASSUME NEW i \in DOMAIN e.edges
      PROVE  /\ {e.edges[i].from, e.edges[i].to} \subseteq Hosts(e)
             /\ e.edges[i].from = e.edges[i].to =>
                  e.nodes[e.edges[i].from].type = "agent" /\ e.edges[i].kind = "delegates"
  <2>1. /\ {d.edges[i].from, d.edges[i].to} \subseteq Hosts(d)
        /\ d.edges[i].from = d.edges[i].to =>
             d.nodes[d.edges[i].from].type = "agent" /\ d.edges[i].kind = "delegates"
    BY <1>2 DEF EdgesHold
  <2>2. d.edges[i].from \in DOMAIN d.nodes
    BY <2>1 DEF Hosts
  <2> QED BY <1>1, <1>2, <1>3, <2>1, <2>2
<1> QED BY <1>4 DEF EdgesHold

-----------------------------------------------------------------------------
LEMMA ReadNodeFollows ==
  ASSUME NEW n, IsNode(n), NEW m, m = NormalizedNode(n)
  PROVE  NodeFollows(n, m)
BY NormalizedNodeFacts DEF NodeFollows, Fixed

LEMMA ReadEdgeFollows ==
  ASSUME NEW e, IsEdge(e), NEW f, f = NormalizedEdge(e)
  PROVE  EdgeFollows(e, f) /\ (ValidProtocol(e.protocol) => f = e)
<1>1. e.protocol = "" => ValidProtocol(e.protocol)
  BY DEF ValidProtocol
<1> QED BY <1>1, NormalizedEdgeFacts DEF EdgeFollows

\* The tolerant reading follows, and keeps what its keys hold.
LEMMA ReadingFollows ==
  ASSUME NEW d, IsDocument(d), NEW e, e = Normalized(d)
  PROVE  /\ Follows(d, e)
         /\ \A i \in DOMAIN d.nodes :
              \A p : p[1] \in Fixed => (p \in e.nodes[i].attrs <=> p \in d.nodes[i].attrs)
<1>1. IsDocument(e) /\ IsNormal(e) /\ ReadsAs(d, e)
  BY NormalizedParts
<1>2. /\ e.groups = d.groups /\ e.findings = d.findings
      /\ DOMAIN e.nodes = DOMAIN d.nodes /\ DOMAIN e.edges = DOMAIN d.edges
  BY <1>1 DEF ReadsAs
<1>3. ASSUME NEW i \in DOMAIN d.nodes
      PROVE  /\ NodeFollows(d.nodes[i], e.nodes[i])
             /\ \A p : p[1] \in Fixed => (p \in e.nodes[i].attrs <=> p \in d.nodes[i].attrs)
  <2>1. PICK n, m : n = d.nodes[i] /\ m = e.nodes[i]
    OBVIOUS
  <2>2. IsNode(n) /\ m = NormalizedNode(n)
    BY <1>1, <2>1 DEF IsDocument, ReadsAs
  <2>3. NodeFollows(n, m)
    BY <2>2, ReadNodeFollows
  <2>4. \A p : p[1] \in Fixed => (p \in m.attrs <=> p \in n.attrs)
    BY <2>2, NormalizedNodeFacts
  <2> QED BY <2>1, <2>3, <2>4
<1>4. ASSUME NEW i \in DOMAIN d.edges
      PROVE  /\ EdgeFollows(d.edges[i], e.edges[i])
             /\ ValidProtocol(d.edges[i].protocol) => e.edges[i] = d.edges[i]
  <2>1. PICK n, m : n = d.edges[i] /\ m = e.edges[i]
    OBVIOUS
  <2>2. IsEdge(n) /\ m = NormalizedEdge(n)
    BY <1>1, <2>1 DEF IsDocument, ReadsAs
  <2>3. EdgeFollows(n, m) /\ (ValidProtocol(n.protocol) => m = n)
    BY <2>2, ReadEdgeFollows
  <2> QED BY <2>1, <2>3
<1>5. \A key : key \in e.provenance <=>
        key \in d.provenance /\ key \notin DroppedKeys(d, e.nodes) /\ ~IsBlanked(d, e, key)
  BY <1>1 DEF ReadsAs
<1>6. e.provenance \subseteq d.provenance
  BY <1>5
<1>7. ASSUME NEW key \in d.provenance \ e.provenance PROVE IsGone(key, d, e)
  <2>1. CASE key \in DroppedKeys(d, e.nodes)
    BY <1>2, <2>1 DEF DroppedKeys, IsGone
  <2>2. CASE IsBlanked(d, e, key)
    <3>1. PICK i \in DOMAIN d.edges : key = <<i, "protocol">> /\ e.edges[i].protocol = ""
      BY <2>2 DEF IsBlanked
    <3>2. key[1] = i
      BY <3>1
    <3> QED BY <3>1, <3>2 DEF IsGone
  <2> QED BY <1>5, <2>1, <2>2
<1>8. ASSUME NEW key \in e.provenance, Traced(d, key) PROVE Traced(e, key)
  <2>1. key \in d.provenance /\ key \notin DroppedKeys(d, e.nodes) /\ ~IsBlanked(d, e, key)
    BY <1>5
  <2>2. CASE \E i \in DOMAIN d.nodes \cup DOMAIN d.edges : key = <<i>>
    BY <1>2, <2>2 DEF Traced
  <2>3. CASE \E i \in DOMAIN d.nodes : \E k \in Keys(d.nodes[i]) : key = <<i, k>>
    <3>1. PICK i \in DOMAIN d.nodes : \E k \in Keys(d.nodes[i]) : key = <<i, k>>
      BY <2>3
    <3> PICK k \in Keys(d.nodes[i]) : key = <<i, k>>
      BY <3>1
    <3>2. Len(key) = 2 /\ key[1] = i /\ key[2] = k
      OBVIOUS
    <3>3. k \in Keys(e.nodes[i])
      BY <1>2, <2>1, <3>2 DEF DroppedKeys
    <3> QED BY <1>2, <3>1, <3>3 DEF Traced
  <2>4. CASE \E i \in DOMAIN d.edges : key = <<i, "protocol">> /\ d.edges[i].protocol # ""
    <3>1. PICK i \in DOMAIN d.edges : key = <<i, "protocol">> /\ d.edges[i].protocol # ""
      BY <2>4
    <3>2. e.edges[i].protocol # ""
      BY <1>4, <2>1, <3>1 DEF IsBlanked
    <3> QED BY <1>2, <3>1, <3>2 DEF Traced
  <2> QED BY <1>8, <2>2, <2>3, <2>4 DEF Traced
<1>9. Follows(d, e)
  BY <1>2, <1>3, <1>4, <1>6, <1>7, <1>8 DEF Follows
<1> QED BY <1>3, <1>9

-----------------------------------------------------------------------------
\* The rules a document keeps at every version.
Rules(d) ==
  /\ IsFiniteSet(UsedIds(d)) /\ IsFiniteSet(d.identities) /\ IdsAreUnique(d)
  /\ ReferencesHold(d) /\ GroupsHold(d)
  /\ \A key \in d.provenance : Traced(d, key)

LEMMA SameIds ==
  ASSUME NEW d, NEW e, Follows(d, e), e.identities = d.identities
  PROVE  /\ UsedIds(e) = UsedIds(d)
         /\ IdsAreUnique(d) => IdsAreUnique(e)
<1>1. /\ DOMAIN e.nodes = DOMAIN d.nodes /\ DOMAIN e.edges = DOMAIN d.edges
      /\ e.groups = d.groups /\ e.findings = d.findings
  BY DEF Follows
<1>2. UsedIds(e) = UsedIds(d)
  BY <1>1 DEF UsedIds
<1> QED BY <1>1, <1>2 DEF IdsAreUnique

LEMMA RulesOn ==
  ASSUME NEW d, NEW e, Follows(d, e), e.identities = d.identities, Rules(d),
         \A i \in DOMAIN d.nodes : NodeRefersTo(e.nodes[i], IdentityIds(d))
  PROVE  Rules(e)
<1>1. UsedIds(e) = UsedIds(d) /\ IdsAreUnique(e)
  BY SameIds DEF Rules
<1>2. GroupsHold(e)
  BY FollowsOn DEF Rules
<1>3. EdgesHold(e)
  BY ReferenceParts, EdgesHoldOn DEF Rules
<1>4. IdentityIds(e) = IdentityIds(d) /\ DOMAIN e.nodes = DOMAIN d.nodes
  BY DEF IdentityIds, Follows
<1>5. ReferencesHold(e)
  BY <1>3, <1>4, ReferenceParts
<1>6. \A key \in e.provenance : Traced(e, key)
  BY DEF Rules, Follows
<1> QED BY <1>1, <1>2, <1>5, <1>6 DEF Rules

LEMMA ReadingRules ==
  ASSUME NEW d, IsDocument(d), Rules(d), NEW e, e = Normalized(d)
  PROVE  /\ Rules(e) /\ UsedIds(e) = UsedIds(d)
         /\ HostsHold(d) => HostsHold(e)
<1>1. /\ Follows(d, e)
      /\ \A i \in DOMAIN d.nodes :
           \A p : p[1] \in Fixed => (p \in e.nodes[i].attrs <=> p \in d.nodes[i].attrs)
  BY ReadingFollows
<1>2. e.identities = d.identities
  BY NormalizedParts DEF ReadsAs
<1>3. ASSUME NEW i \in DOMAIN d.nodes
      PROVE  NodeRefersTo(e.nodes[i], IdentityIds(d))
  <2>1. NodeRefersTo(d.nodes[i], IdentityIds(d))
    BY ReferenceParts DEF Rules
  <2>2. ASSUME NEW p \in e.nodes[i].attrs, p[1] \in {"identity_id", "kill_switch_identity"}
        PROVE  p \in d.nodes[i].attrs
    BY <1>1, <2>2 DEF Fixed
  <2>3. ASSUME NEW x PROVE <<"identity_id", x>> \in e.nodes[i].attrs => <<"identity_id", x>> \in d.nodes[i].attrs
    BY <1>1 DEF Fixed
  <2> QED BY <2>1, <2>2, <2>3 DEF NodeRefersTo
<1>4. Rules(e) /\ UsedIds(e) = UsedIds(d)
  BY <1>1, <1>2, <1>3, RulesOn, SameIds
<1>5. ASSUME HostsHold(d) PROVE HostsHold(e)
  <2>1. Hosts(e) = Hosts(d) /\ DOMAIN e.nodes = DOMAIN d.nodes
    BY <1>1, FollowsOn DEF Rules, Follows
  <2>2. ASSUME NEW i \in DOMAIN d.nodes PROVE Dangling(e, i) = {}
    <3>1. e.nodes[i].type = d.nodes[i].type
      BY <1>1 DEF Follows, NodeFollows
    <3>2. ASSUME NEW p \in Dangling(e, i) PROVE p \in Dangling(d, i)
      <4>1. /\ p \in e.nodes[i].attrs /\ e.nodes[i].type \in HostedTypes /\ p[1] = "hosted_on"
            /\ p[2] # "" /\ (p[2] = i \/ p[2] \notin Hosts(e))
        BY DEF Dangling
      <4>2. p \in d.nodes[i].attrs
        <5>1. p[1] \in Fixed
          BY <4>1 DEF Fixed
        <5>2. \A q : q[1] \in Fixed => (q \in e.nodes[i].attrs <=> q \in d.nodes[i].attrs)
          BY <1>1
        <5> QED BY <4>1, <5>1, <5>2
      <4> QED BY <2>1, <3>1, <4>1, <4>2 DEF Dangling
    <3> QED BY <1>5, <3>2 DEF HostsHold
  <2> QED BY <2>1, <2>2 DEF HostsHold
<1> QED BY <1>4, <1>5

-----------------------------------------------------------------------------
NewId(d, v) == FreeId(UsedIds(d), Prefixed(v))
ValuesInUse(d) == {v \in IdentityValues : \E i \in DOMAIN d.nodes : Migrates(d.nodes[i], v)}

\* What migrateAgentIdentities leaves of a document, member by member.
GivesIdentities(d, e) ==
  /\ \A f \in {"version", "edges", "groups", "findings", "provenance"} : e[f] = d[f]
  /\ e.identities = d.identities \cup {[id |-> NewId(d, v), from |-> v] : v \in ValuesInUse(d)}
  /\ DOMAIN e.nodes = DOMAIN d.nodes
  /\ \A i \in DOMAIN d.nodes :
       /\ e.nodes[i].type = d.nodes[i].type /\ e.nodes[i].zone = d.nodes[i].zone
       /\ e.nodes[i].notes = d.nodes[i].notes
       /\ \A p : p \in e.nodes[i].attrs <=>
            \/ p \in d.nodes[i].attrs
            \/ \E v \in ValuesInUse(d) : Migrates(d.nodes[i], v) /\ p = <<"identity_id", NewId(d, v)>>

LEMMA IdentityParts ==
  ASSUME NEW d, IsDocument(d), NEW e, e = WithIdentities(d)
  PROVE  IsDocument(e) /\ GivesIdentities(d, e)
<1> DEFINE id == [v \in IdentityValues |-> FreeId(UsedIds(d), Prefixed(v))]
           created == {v \in IdentityValues : \E i \in DOMAIN d.nodes : Migrates(d.nodes[i], v)}
           identities == d.identities \cup {[id |-> id[v], from |-> v] : v \in created}
           given(n) == {<<"identity_id", id[v]>> : v \in {v \in created : Migrates(n, v)}}
           nodes == [i \in DOMAIN d.nodes |->
                       [d.nodes[i] EXCEPT !.attrs = @ \cup given(d.nodes[i])]]
<1>1. e = [d EXCEPT !.identities = identities, !.nodes = nodes]
  BY DEF WithIdentities
<1>2. d = [f \in Fields |-> d[f]]
  BY DEF IsDocument
<1>3. created = ValuesInUse(d) /\ \A v \in created : id[v] = NewId(d, v)
  BY DEF ValuesInUse, NewId
<1>4. identities = d.identities \cup {[id |-> NewId(d, v), from |-> v] : v \in ValuesInUse(d)}
  BY <1>3
<1>5. DOMAIN nodes = DOMAIN d.nodes /\ nodes = [i \in DOMAIN nodes |-> nodes[i]]
  OBVIOUS
<1>6. ASSUME NEW i \in DOMAIN d.nodes
      PROVE  /\ nodes[i] = [f \in {"type", "attrs", "notes", "zone"} |-> nodes[i][f]]
             /\ nodes[i].type = d.nodes[i].type /\ nodes[i].zone = d.nodes[i].zone
             /\ nodes[i].notes = d.nodes[i].notes
             /\ nodes[i].attrs = d.nodes[i].attrs \cup given(d.nodes[i])
  <2> HIDE DEF given
  <2>1. nodes[i] = [d.nodes[i] EXCEPT !.attrs = @ \cup given(d.nodes[i])]
    OBVIOUS
  <2>2. d.nodes[i] = [f \in {"type", "attrs", "notes", "zone"} |-> d.nodes[i][f]]
    BY DEF IsDocument, IsNode
  <2> QED BY <2>1, <2>2
<1>7. ASSUME NEW n, NEW p
      PROVE  p \in given(n) <=>
               \E v \in ValuesInUse(d) : Migrates(n, v) /\ p = <<"identity_id", NewId(d, v)>>
  BY <1>3
<1> HIDE DEF id, created, identities, given, nodes
<1>8. /\ e = [f \in Fields |-> e[f]]
      /\ e.nodes = nodes /\ e.identities = identities
      /\ \A f \in {"version", "edges", "groups", "findings", "provenance"} : e[f] = d[f]
  BY <1>1, <1>2 DEF Fields
<1>9. ASSUME NEW i \in DOMAIN nodes PROVE IsNode(nodes[i])
  <2>1. \A p \in d.nodes[i].attrs : p = <<p[1], p[2]>>
    BY <1>5 DEF IsDocument, IsNode
  <2>2. \A p \in given(d.nodes[i]) : p = <<p[1], p[2]>>
    BY <1>7
  <2> QED BY <1>5, <1>6, <2>1, <2>2 DEF IsNode
<1>10. IsDocument(e)
  BY <1>5, <1>8, <1>9 DEF IsDocument
<1>11. ASSUME NEW i \in DOMAIN d.nodes
       PROVE  /\ e.nodes[i].type = d.nodes[i].type /\ e.nodes[i].zone = d.nodes[i].zone
              /\ e.nodes[i].notes = d.nodes[i].notes
              /\ \A p : p \in e.nodes[i].attrs <=>
                   \/ p \in d.nodes[i].attrs
                   \/ \E v \in ValuesInUse(d) :
                        Migrates(d.nodes[i], v) /\ p = <<"identity_id", NewId(d, v)>>
  <2>1. PICK n, m : n = d.nodes[i] /\ m = e.nodes[i]
    OBVIOUS
  <2>2. /\ m.type = n.type /\ m.zone = n.zone /\ m.notes = n.notes
        /\ m.attrs = n.attrs \cup given(n)
    BY <1>6, <1>8, <2>1
  <2>3. \A p : p \in given(n) <=>
          \E v \in ValuesInUse(d) : Migrates(n, v) /\ p = <<"identity_id", NewId(d, v)>>
    BY <1>7
  <2> QED BY <2>1, <2>2, <2>3
<1> QED BY <1>4, <1>5, <1>8, <1>10, <1>11 DEF GivesIdentities

LEMMA IdentitiesFollow ==
  ASSUME NEW d, NEW e, IsDocument(d), e = WithIdentities(d)
  PROVE  Follows(d, e) /\ (IsNormal(d) => IsNormal(e))
<1>1. IsDocument(e) /\ GivesIdentities(d, e)
  BY IdentityParts
<1>2. /\ e.groups = d.groups /\ e.findings = d.findings /\ e.edges = d.edges
      /\ e.provenance = d.provenance /\ DOMAIN e.nodes = DOMAIN d.nodes
  BY <1>1 DEF GivesIdentities
<1>3. ASSUME NEW i \in DOMAIN d.nodes
      PROVE  /\ NodeFollows(d.nodes[i], e.nodes[i])
             /\ Keys(d.nodes[i]) \subseteq Keys(e.nodes[i])
             /\ AcceptsAll(d.nodes[i]) => AcceptsAll(e.nodes[i])
  <2>1. PICK n, m : n = d.nodes[i] /\ m = e.nodes[i]
    OBVIOUS
  <2>2. /\ m.type = n.type /\ m.zone = n.zone /\ m.notes = n.notes
        /\ \A p \in n.attrs : p \in m.attrs
        /\ \A p \in m.attrs : p \in n.attrs \/ p[1] = "identity_id"
    BY <1>1, <2>1 DEF GivesIdentities
  <2>3. \A p : Stands(p, n) => Stands(p, m)
    BY <2>2 DEF Stands
  <2>4. Keys(m) \subseteq Keys(n) \cup {"identity_id"} /\ Keys(n) \subseteq Keys(m)
    BY <2>2 DEF Keys
  <2>5. AcceptsAll(n) => AcceptsAll(m)
    BY <2>2 DEF AcceptsAll, Accepts
  <2> QED BY <2>1, <2>2, <2>3, <2>4, <2>5 DEF NodeFollows
<1>4. \A i \in DOMAIN d.edges : EdgeFollows(d.edges[i], e.edges[i])
  BY <1>2 DEF EdgeFollows
<1>5. ASSUME NEW key, Traced(d, key) PROVE Traced(e, key)
  BY <1>2, <1>3, <1>5 DEF Traced
<1>6. Follows(d, e)
  BY <1>2, <1>3, <1>4, <1>5 DEF Follows
<1>7. IsNormal(d) => IsNormal(e)
  BY <1>2, <1>3 DEF IsNormal
<1> QED BY <1>6, <1>7

\* Giving each value its own new element makes the set larger by as many.
LEMMA AsManyMore ==
  ASSUME NEW S, IsFiniteSet(S), NEW C \in SUBSET IdentityValues, NEW f,
         \A v \in C : f[v] \notin S,
         \A v, w \in C : v # w => f[v] # f[w]
  PROVE  /\ IsFiniteSet(S \cup {f[v] : v \in C})
         /\ Cardinality(S \cup {f[v] : v \in C}) = Cardinality(S) + Cardinality(C)
<1>1. C \in {{}, {"shared"}, {"none"}, {"shared", "none"}}
  BY DEF IdentityValues
<1>2. Cardinality(S) \in Nat
  BY FS_CardinalityType
<1>3. CASE C = {}
  <2>1. S \cup {f[v] : v \in C} = S
    BY <1>3
  <2> QED BY <1>2, <1>3, <2>1, FS_EmptySet
<1>4. ASSUME NEW v \in IdentityValues, C = {v}
      PROVE  /\ IsFiniteSet(S \cup {f[x] : x \in C})
             /\ Cardinality(S \cup {f[x] : x \in C}) = Cardinality(S) + Cardinality(C)
  <2>1. S \cup {f[x] : x \in C} = S \cup {f[v]} /\ f[v] \notin S
    BY <1>4
  <2>2. Cardinality(C) = 1
    BY <1>4, FS_Singleton
  <2> QED BY <2>1, <2>2, FS_AddElement
<1>5. CASE C = {"shared", "none"}
  <2>1. S \cup {f[v] : v \in C} = (S \cup {f["shared"]}) \cup {f["none"]}
    BY <1>5
  <2>2. f["shared"] \notin S /\ f["none"] \notin S \cup {f["shared"]}
    BY <1>5
  <2>3. /\ IsFiniteSet(S \cup {f["shared"]})
        /\ Cardinality(S \cup {f["shared"]}) = Cardinality(S) + 1
    BY <2>2, FS_AddElement
  <2>4. /\ IsFiniteSet((S \cup {f["shared"]}) \cup {f["none"]})
        /\ Cardinality((S \cup {f["shared"]}) \cup {f["none"]}) = Cardinality(S \cup {f["shared"]}) + 1
    BY <2>2, <2>3, FS_AddElement
  <2>5. Cardinality(C) = 2
    <3>1. IsFiniteSet({"shared"}) /\ Cardinality({"shared"}) = 1
      BY FS_Singleton
    <3>2. C = {"shared"} \cup {"none"} /\ "none" \notin {"shared"}
      BY <1>5
    <3>3. Cardinality({"shared"} \cup {"none"}) = Cardinality({"shared"}) + 1
      BY <3>1, <3>2, FS_AddElement
    <3> QED BY <3>1, <3>2, <3>3
  <2>6. Cardinality((S \cup {f["shared"]}) \cup {f["none"]}) = Cardinality(S) + 2
    BY <1>2, <2>3, <2>4
  <2> QED BY ONLY <2>1, <2>4, <2>5, <2>6
<1> QED BY <1>1, <1>3, <1>4, <1>5 DEF IdentityValues

LEMMA IdentityRules ==
  ASSUME NEW d, NEW e, IsDocument(d), Rules(d), NamesSuffice(d), e = WithIdentities(d)
  PROVE  Rules(e)
<1>1. GivesIdentities(d, e) /\ Follows(d, e)
  BY IdentityParts, IdentitiesFollow
<1> DEFINE C == ValuesInUse(d)
           name == [v \in C |-> NewId(d, v)]
           made == [v \in C |-> [id |-> NewId(d, v), from |-> v]]
<1>2. C \subseteq IdentityValues
  BY DEF ValuesInUse
<1>3. /\ \A v \in C : NewId(d, v) \notin UsedIds(d)
      /\ \A v, w \in C : v # w => NewId(d, v) # NewId(d, w)
  BY <1>2 DEF NamesSuffice, NewId
<1>4. \A x \in d.identities : x.id \in UsedIds(d)
  BY DEF UsedIds
<1>5. /\ \A v \in C : name[v] = NewId(d, v)
      /\ \A v \in C : made[v] = [id |-> NewId(d, v), from |-> v]
      /\ \A v \in C : made[v].id = name[v]
      /\ {made[v] : v \in C} = {[id |-> NewId(d, v), from |-> v] : v \in C}
  OBVIOUS
<1> HIDE DEF C, name, made
<1>6. e.identities = d.identities \cup {made[v] : v \in C}
  <2>1. e.identities = d.identities \cup {[id |-> NewId(d, v), from |-> v] : v \in C}
    BY <1>1 DEF GivesIdentities, C
  <2> QED BY <1>5, <2>1
<1>7. \A v \in C : made[v].id = name[v]
  BY ONLY <1>5
<1>8. /\ DOMAIN e.nodes = DOMAIN d.nodes /\ DOMAIN e.edges = DOMAIN d.edges
      /\ e.groups = d.groups /\ e.findings = d.findings
  BY <1>1 DEF Follows
<1>9. IdentityIds(e) = IdentityIds(d) \cup {name[v] : v \in C}
  BY <1>6, <1>7 DEF IdentityIds
<1>10. UsedIds(e) = UsedIds(d) \cup {name[v] : v \in C}
  BY <1>8, <1>9 DEF UsedIds, IdentityIds
<1>11. IsFiniteSet(UsedIds(d)) /\ IsFiniteSet(d.identities)
  BY DEF Rules
<1>12. /\ IsFiniteSet(UsedIds(e))
       /\ Cardinality(UsedIds(e)) = Cardinality(UsedIds(d)) + Cardinality(C)
  BY <1>2, <1>3, <1>5, <1>10, <1>11, AsManyMore
<1>13. /\ IsFiniteSet(e.identities)
       /\ Cardinality(e.identities) = Cardinality(d.identities) + Cardinality(C)
  <2>1. \A v \in C : made[v] \notin d.identities
    BY <1>3, <1>4, <1>5, <1>7
  <2>2. \A v, w \in C : v # w => made[v] # made[w]
    BY <1>3, <1>5, <1>7
  <2> QED BY <1>2, <1>6, <1>11, <2>1, <2>2, AsManyMore
<1>14. IdsAreUnique(e)
  <2>1. /\ IsFiniteSet(DOMAIN d.nodes) /\ IsFiniteSet(DOMAIN d.edges)
        /\ IsFiniteSet(DOMAIN d.groups) /\ IsFiniteSet(d.findings) /\ IsFiniteSet(C)
    <3>1. /\ DOMAIN d.nodes \subseteq UsedIds(d) /\ DOMAIN d.edges \subseteq UsedIds(d)
          /\ DOMAIN d.groups \subseteq UsedIds(d) /\ d.findings \subseteq UsedIds(d)
      BY DEF UsedIds
    <3>2. IsFiniteSet(IdentityValues)
      <4>1. IsFiniteSet({"shared"}) /\ IsFiniteSet({"shared"} \cup {"none"})
        BY FS_Singleton, FS_AddElement
      <4>2. IdentityValues = {"shared"} \cup {"none"}
        BY DEF IdentityValues
      <4> QED BY <4>1, <4>2
    <3> QED BY <1>2, <1>11, <3>1, <3>2, FS_Subset
  <2>2. /\ Cardinality(DOMAIN d.nodes) \in Nat /\ Cardinality(DOMAIN d.edges) \in Nat
        /\ Cardinality(DOMAIN d.groups) \in Nat /\ Cardinality(d.findings) \in Nat
        /\ Cardinality(C) \in Nat /\ Cardinality(d.identities) \in Nat
    BY <1>11, <2>1, FS_CardinalityType
  <2>3. Cardinality(UsedIds(d)) =
          Cardinality(DOMAIN d.nodes) + Cardinality(DOMAIN d.edges) + Cardinality(DOMAIN d.groups)
            + Cardinality(d.findings) + Cardinality(d.identities)
    BY DEF Rules, IdsAreUnique
  <2>4. Cardinality(UsedIds(e)) =
          Cardinality(DOMAIN e.nodes) + Cardinality(DOMAIN e.edges) + Cardinality(DOMAIN e.groups)
            + Cardinality(e.findings) + Cardinality(e.identities)
    BY <1>8, <1>12, <1>13, <2>2, <2>3
  <2> QED BY <2>4 DEF IdsAreUnique
<1>15. ASSUME NEW i \in DOMAIN e.nodes PROVE NodeRefersTo(e.nodes[i], IdentityIds(e))
  <2>1. NodeRefersTo(d.nodes[i], IdentityIds(d))
    BY <1>8, ReferenceParts DEF Rules
  <2>2. IdentityIds(d) \subseteq UsedIds(d)
    BY DEF IdentityIds, UsedIds
  <2>3. \A p \in e.nodes[i].attrs :
          p \in d.nodes[i].attrs \/ \E v \in C : p = <<"identity_id", name[v]>>
    BY <1>1, <1>5, <1>8 DEF GivesIdentities, C
  <2>4. ASSUME NEW p \in e.nodes[i].attrs, p[1] \in {"identity_id", "kill_switch_identity"}
        PROVE  p[2] \in IdentityIds(e)
    <3>1. CASE p \in d.nodes[i].attrs
      BY <1>9, <2>1, <2>4, <3>1 DEF NodeRefersTo
    <3>2. CASE \E v \in C : p = <<"identity_id", name[v]>>
      BY <1>9, <3>2
    <3> QED BY <2>3, <3>1, <3>2
  <2>5. ASSUME NEW p \in e.nodes[i].attrs, p[1] = "kill_switch_identity"
        PROVE  <<"identity_id", p[2]>> \notin e.nodes[i].attrs
    <3>1. p \in d.nodes[i].attrs
      BY <2>3, <2>5
    <3>2. p[2] \in IdentityIds(d) /\ <<"identity_id", p[2]>> \notin d.nodes[i].attrs
      BY <2>1, <2>5, <3>1 DEF NodeRefersTo
    <3>3. \A v \in C : name[v] # p[2]
      BY <1>3, <1>5, <2>2, <3>2
    <3> QED BY <2>3, <3>2, <3>3
  <2> QED BY <2>4, <2>5 DEF NodeRefersTo
<1>16. ReferencesHold(e)
  BY <1>1, <1>15, ReferenceParts, EdgesHoldOn DEF Rules
<1>17. GroupsHold(e)
  BY <1>1, FollowsOn DEF Rules
<1>18. \A key \in e.provenance : Traced(e, key)
  BY <1>1 DEF Rules, Follows
<1> QED BY <1>12, <1>13, <1>14, <1>16, <1>17, <1>18 DEF Rules

-----------------------------------------------------------------------------
\* What dropDanglingHosts leaves of a document, member by member.
DropsHosts(d, e) ==
  /\ \A f \in {"version", "edges", "groups", "identities", "findings"} : e[f] = d[f]
  /\ DOMAIN e.nodes = DOMAIN d.nodes
  /\ \A i \in DOMAIN d.nodes :
       /\ e.nodes[i].type = d.nodes[i].type /\ e.nodes[i].zone = d.nodes[i].zone
       /\ e.nodes[i].attrs = d.nodes[i].attrs \ Dangling(d, i)
       /\ e.nodes[i].notes = d.nodes[i].notes \cup Dangling(d, i)
  /\ e.provenance = d.provenance \ DroppedKeys(d, e.nodes)

LEMMA DroppingParts ==
  ASSUME NEW d, IsDocument(d), NEW e, e = WithoutDangling(d)
  PROVE  IsDocument(e) /\ DropsHosts(d, e)
<1> DEFINE nodes == [i \in DOMAIN d.nodes |->
                       [d.nodes[i] EXCEPT !.attrs = @ \ Dangling(d, i), !.notes = @ \cup Dangling(d, i)]]
<1>1. e = [d EXCEPT !.nodes = nodes, !.provenance = @ \ DroppedKeys(d, nodes)]
  BY DEF WithoutDangling
<1>2. d = [f \in Fields |-> d[f]]
  BY DEF IsDocument
<1>3. DOMAIN nodes = DOMAIN d.nodes /\ nodes = [i \in DOMAIN nodes |-> nodes[i]]
  OBVIOUS
<1>4. ASSUME NEW i \in DOMAIN d.nodes
      PROVE  /\ nodes[i] = [f \in {"type", "attrs", "notes", "zone"} |-> nodes[i][f]]
             /\ nodes[i].type = d.nodes[i].type /\ nodes[i].zone = d.nodes[i].zone
             /\ nodes[i].attrs = d.nodes[i].attrs \ Dangling(d, i)
             /\ nodes[i].notes = d.nodes[i].notes \cup Dangling(d, i)
  <2>1. nodes[i] = [d.nodes[i] EXCEPT !.attrs = @ \ Dangling(d, i), !.notes = @ \cup Dangling(d, i)]
    OBVIOUS
  <2>2. d.nodes[i] = [f \in {"type", "attrs", "notes", "zone"} |-> d.nodes[i][f]]
    BY DEF IsDocument, IsNode
  <2> QED BY <2>1, <2>2
<1> HIDE DEF nodes
<1>5. /\ e = [f \in Fields |-> e[f]]
      /\ e.nodes = nodes /\ e.provenance = d.provenance \ DroppedKeys(d, nodes)
      /\ \A f \in {"version", "edges", "groups", "identities", "findings"} : e[f] = d[f]
  BY <1>1, <1>2 DEF Fields
<1>6. ASSUME NEW i \in DOMAIN nodes PROVE IsNode(nodes[i])
  <2>1. \A p \in d.nodes[i].attrs : p = <<p[1], p[2]>>
    BY <1>3 DEF IsDocument, IsNode
  <2> QED BY <1>3, <1>4, <2>1 DEF IsNode
<1>7. IsDocument(e)
  BY <1>3, <1>5, <1>6 DEF IsDocument
<1> QED BY <1>3, <1>4, <1>5, <1>7 DEF DropsHosts

LEMMA DroppingFollows ==
  ASSUME NEW d, NEW e, IsDocument(d), e = WithoutDangling(d)
  PROVE  Follows(d, e) /\ (IsNormal(d) => IsNormal(e))
<1>1. IsDocument(e) /\ DropsHosts(d, e)
  BY DroppingParts
<1>2. /\ e.groups = d.groups /\ e.findings = d.findings /\ e.edges = d.edges
      /\ DOMAIN e.nodes = DOMAIN d.nodes /\ e.provenance = d.provenance \ DroppedKeys(d, e.nodes)
  BY <1>1 DEF DropsHosts
<1>3. ASSUME NEW i \in DOMAIN d.nodes
      PROVE  /\ NodeFollows(d.nodes[i], e.nodes[i])
             /\ AcceptsAll(d.nodes[i]) => AcceptsAll(e.nodes[i])
  <2>1. PICK n, m, D : n = d.nodes[i] /\ m = e.nodes[i] /\ D = Dangling(d, i)
    OBVIOUS
  <2>2. /\ m.type = n.type /\ m.zone = n.zone /\ m.attrs = n.attrs \ D /\ m.notes = n.notes \cup D
        /\ \A p \in D : p[1] = "hosted_on"
    BY <1>1, <2>1 DEF DropsHosts, Dangling
  <2>3. \A p : Stands(p, n) => Stands(p, m)
    BY <2>2 DEF Stands
  <2>4. Keys(m) \subseteq Keys(n) /\ \A k \in Keys(n) \ Keys(m) : k = "hosted_on"
    BY <2>2 DEF Keys
  <2>5. AcceptsAll(n) => AcceptsAll(m)
    BY <2>2 DEF AcceptsAll
  <2> QED BY <2>1, <2>2, <2>3, <2>4, <2>5 DEF NodeFollows, Added
<1>4. \A i \in DOMAIN d.edges : EdgeFollows(d.edges[i], e.edges[i])
  BY <1>2 DEF EdgeFollows
<1>5. ASSUME NEW key \in d.provenance \ e.provenance PROVE IsGone(key, d, e)
  BY <1>2 DEF DroppedKeys, IsGone
<1>6. ASSUME NEW key \in e.provenance, Traced(d, key) PROVE Traced(e, key)
  <2>1. CASE \E i \in DOMAIN d.nodes : \E k \in Keys(d.nodes[i]) : key = <<i, k>>
    <3>1. PICK i \in DOMAIN d.nodes : \E k \in Keys(d.nodes[i]) : key = <<i, k>>
      BY <2>1
    <3> PICK k \in Keys(d.nodes[i]) : key = <<i, k>>
      BY <3>1
    <3>2. Len(key) = 2 /\ key[1] = i /\ key[2] = k
      OBVIOUS
    <3>3. k \in Keys(e.nodes[i])
      BY <1>2, <3>2 DEF DroppedKeys
    <3> QED BY <1>2, <3>1, <3>3 DEF Traced
  <2> QED BY <1>2, <1>6, <2>1 DEF Traced
<1>7. Follows(d, e)
  BY <1>2, <1>3, <1>4, <1>5, <1>6 DEF Follows
<1>8. IsNormal(d) => IsNormal(e)
  BY <1>2, <1>3 DEF IsNormal
<1> QED BY <1>7, <1>8

LEMMA DroppingRules ==
  ASSUME NEW d, NEW e, IsDocument(d), Rules(d), e = WithoutDangling(d)
  PROVE  Rules(e) /\ HostsHold(e)
<1>1. DropsHosts(d, e) /\ Follows(d, e)
  BY DroppingParts, DroppingFollows
<1>2. e.identities = d.identities /\ DOMAIN e.nodes = DOMAIN d.nodes
  BY <1>1 DEF DropsHosts
<1>3. ASSUME NEW i \in DOMAIN d.nodes PROVE NodeRefersTo(e.nodes[i], IdentityIds(d))
  <2>1. NodeRefersTo(d.nodes[i], IdentityIds(d))
    BY ReferenceParts DEF Rules
  <2>2. e.nodes[i].attrs \subseteq d.nodes[i].attrs
    BY <1>1 DEF DropsHosts
  <2> QED BY <2>1, <2>2 DEF NodeRefersTo
<1>4. Rules(e)
  BY <1>1, <1>2, <1>3, RulesOn
<1>5. ASSUME NEW i \in DOMAIN e.nodes PROVE Dangling(e, i) = {}
  <2>1. Hosts(e) = Hosts(d)
    BY <1>1, FollowsOn DEF Rules
  <2>2. e.nodes[i].type = d.nodes[i].type /\ e.nodes[i].attrs = d.nodes[i].attrs \ Dangling(d, i)
    BY <1>1, <1>2 DEF DropsHosts
  <2>3. ASSUME NEW p \in Dangling(e, i) PROVE FALSE
    <3>1. /\ p \in e.nodes[i].attrs /\ e.nodes[i].type \in HostedTypes /\ p[1] = "hosted_on"
          /\ p[2] # "" /\ (p[2] = i \/ p[2] \notin Hosts(e))
      BY DEF Dangling
    <3>2. p \in Dangling(d, i)
      BY <2>1, <2>2, <3>1 DEF Dangling
    <3> QED BY <2>2, <3>1, <3>2
  <2> QED BY <2>3
<1> QED BY <1>4, <1>5 DEF HostsHold

-----------------------------------------------------------------------------
\* What a version brought, of a document that may be upgraded.
VersionRules(d) ==
  /\ d.version \in {"0.9", "1.0"} => NamesSuffice(d)
  /\ d.version \in {"1.2", Current} => HostsHold(d)

\* A document on its way up, with all it was stored with.
IsUpgrading(was, d) ==
  IsDocument(d) /\ Rules(d) /\ VersionRules(d) /\ Keeps(was, d)

\* Writing the version leaves the rest.
LEMMA AtVersion ==
  ASSUME NEW d, IsDocument(d), NEW v, NEW e, e = At(d, v)
  PROVE  /\ IsDocument(e) /\ e.version = v /\ Follows(d, e)
         /\ \A f \in Fields \ {"version"} : e[f] = d[f]
         /\ IsNormal(d) => IsNormal(e)
         /\ Rules(d) => Rules(e)
         /\ HostsHold(d) => HostsHold(e)
         /\ NamesSuffice(d) => NamesSuffice(e)
<1>1. /\ e = [f \in Fields |-> e[f]] /\ e.version = v
      /\ e.nodes = d.nodes /\ e.edges = d.edges /\ e.groups = d.groups
      /\ e.identities = d.identities /\ e.findings = d.findings /\ e.provenance = d.provenance
  BY DEF At, IsDocument, Fields
<1>2. IsDocument(e) /\ (IsNormal(d) => IsNormal(e))
  BY <1>1 DEF IsDocument, IsNormal
<1>3. Follows(d, e)
  <2>1. \A i \in DOMAIN d.nodes : NodeFollows(d.nodes[i], e.nodes[i])
    BY <1>1 DEF NodeFollows
  <2>2. \A i \in DOMAIN d.edges : EdgeFollows(d.edges[i], e.edges[i])
    BY <1>1 DEF EdgeFollows
  <2>3. \A key : Traced(d, key) => Traced(e, key)
    BY <1>1 DEF Traced
  <2> QED BY <1>1, <2>1, <2>2, <2>3 DEF Follows
<1>4. UsedIds(e) = UsedIds(d)
  BY <1>1 DEF UsedIds
<1>5. Rules(d) => Rules(e)
  <2>1. ASSUME Rules(d), NEW i \in DOMAIN d.nodes PROVE NodeRefersTo(e.nodes[i], IdentityIds(d))
    BY <1>1, <2>1, ReferenceParts DEF Rules
  <2> QED BY <1>1, <1>3, <2>1, RulesOn
<1>6. HostsHold(d) => HostsHold(e)
  <2>1. Hosts(e) = Hosts(d)
    BY <1>1 DEF Hosts
  <2>2. \A i : Dangling(e, i) = Dangling(d, i)
    BY <1>1, <2>1 DEF Dangling
  <2> QED BY <1>1, <2>2 DEF HostsHold
<1>7. NamesSuffice(d) => NamesSuffice(e)
  BY <1>4 DEF NamesSuffice
<1>8. \A f \in Fields \ {"version"} : e[f] = d[f]
  BY <1>1 DEF Fields
<1> QED BY <1>1, <1>2, <1>3, <1>5, <1>6, <1>7, <1>8

\* The tolerant reading of a document on its way.
LEMMA ReadingUpgrades ==
  ASSUME NEW was, NEW d, IsUpgrading(was, d), NEW e, e = Normalized(d)
  PROVE  IsUpgrading(was, e) /\ IsNormal(e) /\ e.version = d.version
<1>1. IsDocument(e) /\ IsNormal(e) /\ e.version = d.version
  BY NormalizedParts DEF IsUpgrading, ReadsAs
<1>2. Rules(e) /\ UsedIds(e) = UsedIds(d) /\ (HostsHold(d) => HostsHold(e))
  BY ReadingRules DEF IsUpgrading
<1>3. Keeps(was, e)
  BY ReadingFollows, KeepsCarries DEF IsUpgrading
<1>4. NamesSuffice(d) => NamesSuffice(e)
  BY <1>2 DEF NamesSuffice
<1> QED BY <1>1, <1>2, <1>3, <1>4 DEF IsUpgrading, VersionRules

\* Every step of the list.
LEMMA StepUpgrades ==
  ASSUME NEW was, NEW d, IsUpgrading(was, d), d.version \in Migratable, NEW e, e = StepFrom(d)
  PROVE  /\ IsUpgrading(was, e) /\ e.version \in Supported
         /\ e.version = Current => IsNormal(e)
<1>1. PICK r : r = Normalized(d)
  OBVIOUS
<1>2. IsUpgrading(was, r) /\ IsNormal(r) /\ r.version = d.version
  BY <1>1, ReadingUpgrades
<1>3. CASE d.version = "0.9"
  <2>1. e = At(d, "1.0")
    BY <1>3 DEF StepFrom
  <2>2. /\ IsDocument(e) /\ e.version = "1.0" /\ Follows(d, e) /\ Rules(e) /\ NamesSuffice(e)
    BY <1>3, <2>1, AtVersion DEF IsUpgrading, VersionRules
  <2>3. Keeps(was, e)
    BY <2>2, KeepsCarries DEF IsUpgrading
  <2> QED BY <2>2, <2>3 DEF IsUpgrading, VersionRules, Supported, Migratable, Current
<1>4. CASE d.version = "1.0"
  <2>1. PICK w : w = WithIdentities(r)
    OBVIOUS
  <2>2. e = At(w, "1.1")
    BY <1>1, <1>4, <2>1 DEF StepFrom
  <2>3. IsDocument(w) /\ Follows(r, w)
    BY <1>2, <2>1, IdentityParts, IdentitiesFollow DEF IsUpgrading
  <2>4. Rules(w)
    BY <1>2, <1>4, <2>1, IdentityRules DEF IsUpgrading, VersionRules
  <2>5. Keeps(was, w)
    BY <1>2, <2>3, KeepsCarries DEF IsUpgrading
  <2>6. IsDocument(e) /\ e.version = "1.1" /\ Follows(w, e) /\ Rules(e)
    BY <2>2, <2>3, <2>4, AtVersion
  <2>7. Keeps(was, e)
    BY <2>5, <2>6, KeepsCarries
  <2> QED BY <2>6, <2>7 DEF IsUpgrading, VersionRules, Supported, Migratable, Current
<1>5. CASE d.version = "1.1"
  <2>1. PICK w : w = WithoutDangling(r)
    OBVIOUS
  <2>2. e = At(w, "1.2")
    BY <1>1, <1>5, <2>1 DEF StepFrom
  <2>3. IsDocument(w) /\ Follows(r, w) /\ Rules(w) /\ HostsHold(w)
    BY <1>2, <2>1, DroppingParts, DroppingFollows, DroppingRules DEF IsUpgrading
  <2>4. Keeps(was, w)
    BY <1>2, <2>3, KeepsCarries DEF IsUpgrading
  <2>5. IsDocument(e) /\ e.version = "1.2" /\ Follows(w, e) /\ Rules(e) /\ HostsHold(e)
    BY <2>2, <2>3, AtVersion
  <2>6. Keeps(was, e)
    BY <2>4, <2>5, KeepsCarries
  <2> QED BY <2>5, <2>6 DEF IsUpgrading, VersionRules, Supported, Migratable, Current
<1>6. CASE d.version = "1.2"
  <2>1. e = At(r, Current)
    BY <1>1, <1>6 DEF StepFrom
  <2>2. /\ IsDocument(e) /\ e.version = Current /\ Follows(r, e) /\ Rules(e) /\ HostsHold(e)
        /\ IsNormal(e)
    BY <1>2, <1>6, <2>1, AtVersion DEF IsUpgrading, VersionRules
  <2>3. Keeps(was, e)
    BY <1>2, <2>2, KeepsCarries DEF IsUpgrading
  <2> QED BY <2>2, <2>3 DEF IsUpgrading, VersionRules, Supported, Current
<1> QED BY <1>3, <1>4, <1>5, <1>6 DEF Migratable

\* What the upgrade and the reading leave keeps every rule of the current version.
LEMMA UpgradedIsValid ==
  ASSUME NEW was, NEW d, IsUpgrading(was, d), IsNormal(d), d.version = Current
  PROVE  Invariants(d)
<1>1. Rules(d) /\ HostsHold(d) /\ IsDocument(d)
  BY DEF IsUpgrading, VersionRules
<1>2. ValuesHold(d)
  <2>1. ASSUME NEW i \in DOMAIN d.nodes, NEW p \in d.nodes[i].attrs
        PROVE  p \in Rewritten(d.nodes[i].type, d.nodes[i].attrs, p[1], p[2])
    <3>1. p = <<p[1], p[2]>>
      BY <1>1 DEF IsDocument, IsNode
    <3>2. PICK t, A, k, v : t = d.nodes[i].type /\ A = d.nodes[i].attrs /\ k = p[1] /\ v = p[2]
      OBVIOUS
    <3>3. Accepts(t, k, v)
      BY <3>2 DEF IsNormal, AcceptsAll
    <3>4. Rewritten(t, A, k, v) = {<<k, v>>}
      BY <3>3, AcceptedStays
    <3> QED BY <3>1, <3>2, <3>4
  <2> QED BY <2>1 DEF ValuesHold
<1>3. ProvenanceResolves(d)
  <2>1. ASSUME NEW key \in d.provenance
        PROVE  \/ key[1] \in DOMAIN d.nodes /\ (Len(key) = 2 => key[2] \in Keys(d.nodes[key[1]]))
               \/ key[1] \in DOMAIN d.edges /\ (Len(key) = 2 => d.edges[key[1]].protocol # "")
    <3>1. Traced(d, key)
      BY <1>1 DEF Rules
    <3>2. CASE \E i \in DOMAIN d.nodes \cup DOMAIN d.edges : key = <<i>>
      <4>1. PICK i \in DOMAIN d.nodes \cup DOMAIN d.edges : key = <<i>>
        BY <3>2
      <4>2. key[1] = i /\ Len(key) = 1
        BY <4>1
      <4> QED BY <4>1, <4>2
    <3>3. CASE \E i \in DOMAIN d.nodes : \E k \in Keys(d.nodes[i]) : key = <<i, k>>
      <4>1. PICK i \in DOMAIN d.nodes : \E k \in Keys(d.nodes[i]) : key = <<i, k>>
        BY <3>3
      <4> PICK k \in Keys(d.nodes[i]) : key = <<i, k>>
        BY <4>1
      <4>2. key[1] = i /\ key[2] = k
        OBVIOUS
      <4> QED BY <4>1, <4>2
    <3>4. CASE \E i \in DOMAIN d.edges : key = <<i, "protocol">> /\ d.edges[i].protocol # ""
      <4>1. PICK i \in DOMAIN d.edges : key = <<i, "protocol">> /\ d.edges[i].protocol # ""
        BY <3>4
      <4>2. key[1] = i
        BY <4>1
      <4> QED BY <4>1, <4>2
    <3> QED BY <3>1, <3>2, <3>3, <3>4 DEF Traced
  <2> QED BY <2>1 DEF ProvenanceResolves
<1> QED BY <1>1, <1>2, <1>3 DEF Invariants, Rules

-----------------------------------------------------------------------------
\* An edge and a node have no id in common.
LEMMA IdsApart ==
  ASSUME NEW d, IsFiniteSet(UsedIds(d)), IsFiniteSet(d.identities), IdsAreUnique(d)
  PROVE  DOMAIN d.nodes \cap DOMAIN d.edges = {}
<1>1. PICK N, E, G, F, I, J :
        /\ N = DOMAIN d.nodes /\ E = DOMAIN d.edges /\ G = DOMAIN d.groups /\ F = d.findings
        /\ I = d.identities /\ J = {x.id : x \in d.identities}
  OBVIOUS
<1>2. UsedIds(d) = (((N \cup E) \cup G) \cup F) \cup J
  BY <1>1 DEF UsedIds
<1>3. IsFiniteSet(N) /\ IsFiniteSet(E) /\ IsFiniteSet(G) /\ IsFiniteSet(F) /\ IsFiniteSet(J)
  BY <1>2, FS_Subset
<1>4. Cardinality(J) <= Cardinality(I)
  <2> DEFINE f == [x \in I |-> x.id]
  <2>1. f \in [I -> J]
    BY <1>1
  <2>2. \A t \in J : \E x \in I : f[x] = t
    BY <1>1
  <2>3. f \in Surjection(I, J)
    BY <2>1, <2>2 DEF Surjection
  <2> HIDE DEF f
  <2> QED BY <1>1, <2>3, FS_Surjection
<1>5. /\ IsFiniteSet(N \cup E) /\ IsFiniteSet((N \cup E) \cup G) /\ IsFiniteSet(((N \cup E) \cup G) \cup F)
      /\ IsFiniteSet(N \cap E) /\ IsFiniteSet((N \cup E) \cap G) /\ IsFiniteSet(((N \cup E) \cup G) \cap F)
      /\ IsFiniteSet((((N \cup E) \cup G) \cup F) \cap J)
  BY <1>2, <1>3, FS_Subset
<1>6. /\ Cardinality(N \cup E) = Cardinality(N) + Cardinality(E) - Cardinality(N \cap E)
      /\ Cardinality((N \cup E) \cup G) =
           Cardinality(N \cup E) + Cardinality(G) - Cardinality((N \cup E) \cap G)
      /\ Cardinality(((N \cup E) \cup G) \cup F) =
           Cardinality((N \cup E) \cup G) + Cardinality(F) - Cardinality(((N \cup E) \cup G) \cap F)
      /\ Cardinality((((N \cup E) \cup G) \cup F) \cup J) =
           Cardinality(((N \cup E) \cup G) \cup F) + Cardinality(J)
             - Cardinality((((N \cup E) \cup G) \cup F) \cap J)
  BY <1>3, <1>5, FS_Union
<1>7. /\ Cardinality(N) \in Nat /\ Cardinality(E) \in Nat /\ Cardinality(G) \in Nat
      /\ Cardinality(F) \in Nat /\ Cardinality(J) \in Nat /\ Cardinality(I) \in Nat
      /\ Cardinality(N \cap E) \in Nat /\ Cardinality((N \cup E) \cap G) \in Nat
      /\ Cardinality(((N \cup E) \cup G) \cap F) \in Nat
      /\ Cardinality((((N \cup E) \cup G) \cup F) \cap J) \in Nat
  BY <1>1, <1>3, <1>5, FS_CardinalityType
<1>8. Cardinality((((N \cup E) \cup G) \cup F) \cup J) =
        Cardinality(N) + Cardinality(E) + Cardinality(G) + Cardinality(F) + Cardinality(I)
  BY <1>1, <1>2 DEF IdsAreUnique
<1>9. Cardinality(N \cap E) = 0
  <2>1. Cardinality((((N \cup E) \cup G) \cup F) \cup J) <=
          Cardinality(((N \cup E) \cup G) \cup F) + Cardinality(I)
    BY <1>4, <1>6, <1>7
  <2>2. Cardinality(((N \cup E) \cup G) \cup F) <= Cardinality(N \cup E) + Cardinality(G) + Cardinality(F)
    BY <1>6, <1>7
  <2>3. Cardinality(N) + Cardinality(E) <= Cardinality(N \cup E)
    BY <1>6, <1>7, <1>8, <2>1, <2>2
  <2> QED BY <1>6, <1>7, <2>3
<1> QED BY <1>1, <1>5, <1>9, FS_EmptySet

\* A stored document, before the first step.
LEMMA StoredUpgrades ==
  ASSUME NEW d \in Stored
  PROVE  IsDocument(d) /\ (d.version \in Supported => IsUpgrading(d, d))
<1>1. /\ d = [f \in Fields |-> d[f]]
      /\ d.nodes \in [DOMAIN d.nodes -> StoredNodes] /\ d.edges \in [DOMAIN d.edges -> StoredEdges]
  BY StoredAssumption DEF Fields
<1>2. ASSUME NEW i \in DOMAIN d.nodes PROVE IsNode(d.nodes[i])
  <2>1. d.nodes[i] \in StoredNodes
    BY <1>1
  <2> QED BY <2>1 DEF StoredNodes, IsNode
<1>3. ASSUME NEW i \in DOMAIN d.edges PROVE IsEdge(d.edges[i])
  <2>1. d.edges[i] \in StoredEdges
    BY <1>1
  <2> QED BY <2>1 DEF StoredEdges, IsEdge
<1>4. IsDocument(d)
  BY <1>1, <1>2, <1>3 DEF IsDocument
<1>5. Keeps(d, d)
  BY DEF Keeps, Stands, Reads
<1>6. ASSUME d.version \in Supported PROVE Rules(d) /\ VersionRules(d)
  <2>1. /\ IsFiniteSet(UsedIds(d)) /\ IsFiniteSet(d.identities)
        /\ FollowsItsVersion(d) /\ NamesSuffice(d)
        /\ d.provenance \subseteq StoredKeys(d)
    BY <1>6, StoredAssumption DEF Supported
  <2>2. /\ IdsAreUnique(d) /\ ReferencesHold(d) /\ GroupsHold(d) /\ ProvenanceResolves(d)
        /\ d.version \in {"1.2", Current} => HostsHold(d)
    BY <2>1 DEF FollowsItsVersion
  <2>3. DOMAIN d.nodes \cap DOMAIN d.edges = {}
    BY <2>1, <2>2, IdsApart
  <2>4. ASSUME NEW key \in d.provenance PROVE Traced(d, key)
    <3>1. \/ \E i \in DOMAIN d.nodes \cup DOMAIN d.edges : key = <<i>>
          \/ \E i \in DOMAIN d.edges : key = <<i, "protocol">>
          \/ \E i \in DOMAIN d.nodes : \E k \in Keys(d.nodes[i]) : key = <<i, k>>
      BY <2>1 DEF StoredKeys
    <3>2. CASE \E i \in DOMAIN d.edges : key = <<i, "protocol">>
      <4>1. PICK i \in DOMAIN d.edges : key = <<i, "protocol">>
        BY <3>2
      <4>2. key[1] = i /\ Len(key) = 2
        BY <4>1
      <4>3. i \notin DOMAIN d.nodes
        BY <2>3
      <4>4. d.edges[i].protocol # ""
        BY <2>2, <4>2, <4>3 DEF ProvenanceResolves
      <4> QED BY <4>1, <4>4 DEF Traced
    <3> QED BY <3>1, <3>2 DEF Traced
  <2> QED BY <2>1, <2>2, <2>4 DEF Rules, VersionRules
<1> QED BY <1>4, <1>5, <1>6 DEF IsUpgrading

-----------------------------------------------------------------------------
(***************************************************************************)
(* The inductive invariant of DocSpec.                                     *)
(***************************************************************************)

\* Shapes; what is saved, and what is about to be checked, is in the current shapes.
DocShape ==
  /\ docStored \in Stored /\ docEdits \in Nat
  /\ docPc \in {"reading", "checking", "accepted", "refused"}
  /\ IsDocument(docRead)
  /\ docSaved # NoDocument => IsDocument(docSaved) /\ IsNormal(docSaved) /\ docSaved.version = Current
  /\ docPc = "checking" => IsNormal(docRead) /\ docRead.version = Current
  /\ docPc = "accepted" => docSaved # NoDocument /\ docRead = docSaved

\* Before the first edit the document is on its way up, and is not refused.
DocUnedited ==
  docEdits = 0 =>
    /\ docPc # "accepted" => docSaved = NoDocument
    /\ docStored.version \in Supported =>
         docPc # "refused" /\ docRead.version \in Supported /\ IsUpgrading(docStored, docRead)
    /\ docStored.version \notin Supported =>
         docRead = docStored /\ docPc \in {"reading", "refused"}

\* After it there is a saved document to fall back on.
DocEdited ==
  docEdits > 0 => docSaved # NoDocument /\ docPc # "refused" /\ docRead.version = Current

DocInv == DocShape /\ DocUnedited /\ DocEdited

LEMMA DocumentIsOne ==
  ASSUME NEW d, IsDocument(d)
  PROVE  d # NoDocument
<1>1. "version" \in DOMAIN d
  BY DEF IsDocument, Fields
<1>2. DOMAIN << >> = {}
  OBVIOUS
<1> QED BY <1>1, <1>2 DEF NoDocument

LEMMA CurrentIsNotMigratable == Current \notin Migratable /\ Current \in Supported
BY DEF Current, Migratable, Supported

LEMMA DocStarts ==
  ASSUME DocInit
  PROVE  DocInv
<1>1. /\ docStored \in Stored /\ docRead = docStored /\ docSaved = NoDocument
      /\ docPc = "reading" /\ docEdits = 0
  BY DEF DocInit
<1>2. IsDocument(docRead) /\ (docStored.version \in Supported => IsUpgrading(docStored, docRead))
  BY <1>1, StoredUpgrades
<1> QED BY <1>1, <1>2 DEF DocInv, DocShape, DocUnedited, DocEdited

LEMMA UpgradeStepPreserves ==
  ASSUME DocInv, UpgradeStep
  PROVE  DocInv'
<1>1. /\ docPc = "reading" /\ docRead.version \in Migratable
      /\ docRead' = StepFrom(docRead)
      /\ docPc' = IF docRead'.version = Current THEN "checking" ELSE "reading"
      /\ docStored' = docStored /\ docSaved' = docSaved /\ docEdits' = docEdits
  BY DEF UpgradeStep
<1>2. docEdits = 0
  BY <1>1, CurrentIsNotMigratable DEF DocInv, DocEdited, DocShape
<1>3. docStored.version \in Supported /\ IsUpgrading(docStored, docRead)
  BY <1>1, <1>2 DEF DocInv, DocUnedited, Supported
<1>4. /\ IsUpgrading(docStored, docRead') /\ docRead'.version \in Supported
      /\ docRead'.version = Current => IsNormal(docRead')
  BY <1>1, <1>3, StepUpgrades
<1>5. IsDocument(docRead')
  BY <1>4 DEF IsUpgrading
<1>6. docSaved = NoDocument
  BY <1>1, <1>2 DEF DocInv, DocUnedited
<1>7. docPc' \in {"checking", "reading"} /\ (docPc' = "checking" => docRead'.version = Current)
  BY <1>1
<1>8. DocShape'
  BY <1>1, <1>4, <1>5, <1>6, <1>7 DEF DocInv, DocShape
<1> QED BY <1>1, <1>2, <1>3, <1>4, <1>6, <1>7, <1>8 DEF DocInv, DocUnedited, DocEdited

LEMMA ReadCurrentPreserves ==
  ASSUME DocInv, ReadCurrent
  PROVE  DocInv'
<1>1. /\ docPc = "reading" /\ docRead.version = Current
      /\ docRead' = Normalized(docRead) /\ docPc' = "checking"
      /\ docStored' = docStored /\ docSaved' = docSaved /\ docEdits' = docEdits
  BY DEF ReadCurrent
<1>2. IsDocument(docRead') /\ IsNormal(docRead') /\ docRead'.version = Current
  <2>1. IsDocument(docRead)
    BY DEF DocInv, DocShape
  <2>2. PICK d, e : d = docRead /\ e = docRead'
    OBVIOUS
  <2>3. IsDocument(e) /\ IsNormal(e) /\ ReadsAs(d, e)
    BY <1>1, <2>1, <2>2, NormalizedParts
  <2> QED BY <1>1, <2>2, <2>3 DEF ReadsAs
<1>3. DocShape'
  BY <1>1, <1>2 DEF DocInv, DocShape
<1>4. docEdits = 0 => docStored.version \in Supported
  BY <1>1, CurrentIsNotMigratable DEF DocInv, DocUnedited
<1>5. docEdits = 0 => IsUpgrading(docStored, docRead')
  <2>1. ASSUME docEdits = 0 PROVE IsUpgrading(docStored, docRead')
    <3>1. IsUpgrading(docStored, docRead)
      BY <1>4, <2>1 DEF DocInv, DocUnedited
    <3> QED BY <1>1, <3>1, ReadingUpgrades
  <2> QED BY <2>1
<1>6. DocUnedited'
  BY <1>1, <1>2, <1>4, <1>5, CurrentIsNotMigratable DEF DocInv, DocUnedited
<1>7. DocEdited'
  BY <1>1, <1>2 DEF DocInv, DocEdited
<1> QED BY <1>3, <1>6, <1>7 DEF DocInv

LEMMA RefuseVersionPreserves ==
  ASSUME DocInv, RefuseVersion
  PROVE  DocInv'
<1>1. /\ docPc = "reading" /\ docRead.version \notin Supported /\ docPc' = "refused"
      /\ docRead' = docRead /\ docStored' = docStored /\ docSaved' = docSaved /\ docEdits' = docEdits
  BY DEF RefuseVersion, Supported
<1>2. docEdits = 0
  BY <1>1, CurrentIsNotMigratable DEF DocInv, DocEdited, DocShape
<1>3. docStored.version \notin Supported
  BY <1>1, <1>2 DEF DocInv, DocUnedited
<1> QED BY <1>1, <1>2, <1>3 DEF DocInv, DocShape, DocUnedited, DocEdited

LEMMA CheckDocumentPreserves ==
  ASSUME DocInv, CheckDocument
  PROVE  DocInv'
<1>1. docPc = "checking" /\ docStored' = docStored /\ docEdits' = docEdits
  BY DEF CheckDocument
<1>2. IsDocument(docRead) /\ IsNormal(docRead) /\ docRead.version = Current /\ docRead # NoDocument
  BY <1>1, DocumentIsOne DEF DocInv, DocShape
<1>3. ASSUME docEdits = 0
      PROVE  docStored.version \in Supported /\ IsUpgrading(docStored, docRead) /\ Invariants(docRead)
  <2>1. docStored.version \in Supported /\ IsUpgrading(docStored, docRead)
    BY <1>1, <1>3 DEF DocInv, DocUnedited
  <2> QED BY <1>2, <2>1, UpgradedIsValid
<1>4. CASE Invariants(docRead)
  <2>1. docPc' = "accepted" /\ docSaved' = docRead /\ docRead' = docRead
    BY <1>4 DEF CheckDocument
  <2>2. DocShape'
    BY <1>1, <1>2, <2>1 DEF DocInv, DocShape
  <2> QED BY <1>1, <1>2, <1>3, <2>1, <2>2, CurrentIsNotMigratable DEF DocInv, DocUnedited, DocEdited
<1>5. CASE ~Invariants(docRead)
  <2>1. docEdits > 0 /\ docSaved # NoDocument
    BY <1>3, <1>5 DEF DocInv, DocShape, DocEdited
  <2>2. docPc' = "accepted" /\ docRead' = docSaved /\ docSaved' = docSaved
    BY <1>5, <2>1 DEF CheckDocument
  <2>3. docSaved.version = Current
    BY <2>1 DEF DocInv, DocShape
  <2>4. DocShape'
    BY <1>1, <2>1, <2>2 DEF DocInv, DocShape
  <2>5. DocUnedited'
    BY <1>1, <2>1 DEF DocInv, DocShape, DocUnedited
  <2> QED BY <1>1, <2>1, <2>2, <2>3, <2>4, <2>5 DEF DocInv, DocEdited
<1> QED BY <1>4, <1>5

LEMMA EditPreserves ==
  ASSUME DocInv, NEW d, NEW wrote, IsDocument(d), d.version = Current, Edit(d, wrote)
  PROVE  DocInv'
<1>1. /\ docPc = "accepted" /\ docRead' = d /\ docPc' = "reading" /\ docEdits' = docEdits + 1
      /\ docStored' = docStored /\ docSaved' = docSaved
  BY DEF Edit
<1>2. docEdits \in Nat /\ docSaved # NoDocument
  BY <1>1 DEF DocInv, DocShape
<1>3. docEdits' \in Nat /\ docEdits' > 0 /\ docEdits' # 0
  BY <1>1, <1>2
<1>4. DocShape'
  BY <1>1, <1>2, <1>3 DEF DocInv, DocShape
<1> QED BY <1>1, <1>2, <1>3, <1>4 DEF DocInv, DocUnedited, DocEdited

LEMMA WriteProtocolPreserves ==
  ASSUME DocInv, docPc = "accepted", NEW e \in DOMAIN docSaved.edges, NEW text, WriteProtocol(e, text)
  PROVE  DocInv'
<1>1. IsDocument(docSaved) /\ docSaved.version = Current
  BY DEF DocInv, DocShape
<1>2. PICK s, d, E : s = docSaved /\ E = [s.edges EXCEPT ![e].protocol = text]
                     /\ d = [s EXCEPT !.edges = E]
  OBVIOUS
<1>3. /\ DOMAIN E = DOMAIN s.edges /\ E = [i \in DOMAIN E |-> E[i]]
      /\ \A i \in DOMAIN s.edges \ {e} : E[i] = s.edges[i]
      /\ E[e] = [s.edges[e] EXCEPT !.protocol = text]
  BY <1>1, <1>2 DEF IsDocument
<1>4. ASSUME NEW i \in DOMAIN E PROVE IsEdge(E[i])
  <2>1. IsEdge(s.edges[i])
    BY <1>1, <1>2, <1>3 DEF IsDocument
  <2>2. CASE i = e
    BY <1>3, <2>1, <2>2 DEF IsEdge
  <2> QED BY <1>3, <2>1, <2>2
<1>5. /\ d = [f \in Fields |-> d[f]] /\ d.edges = E /\ d.nodes = s.nodes /\ d.version = s.version
  BY <1>1, <1>2 DEF IsDocument, Fields
<1>6. IsDocument(d) /\ d.version = Current
  <2>1. d.edges = [j \in DOMAIN d.edges |-> d.edges[j]] /\ \A j \in DOMAIN d.edges : IsEdge(d.edges[j])
    BY <1>3, <1>4, <1>5
  <2>2. d.nodes = [j \in DOMAIN d.nodes |-> d.nodes[j]] /\ \A j \in DOMAIN d.nodes : IsNode(d.nodes[j])
    BY <1>1, <1>2, <1>5 DEF IsDocument
  <2>3. d = [f \in Fields |-> d[f]] /\ d.version = Current
    BY <1>1, <1>2, <1>5
  <2> QED BY <2>1, <2>2, <2>3 DEF IsDocument
<1>7. d = [docSaved EXCEPT !.edges[e].protocol = text]
  BY <1>2
<1>8. Edit(d, [docWrote EXCEPT ![e] = text])
  BY <1>7 DEF WriteProtocol
<1> QED BY <1>6, <1>8, EditPreserves

LEMMA SetAttrPreserves ==
  ASSUME DocInv, docPc = "accepted", NEW i \in DOMAIN docSaved.nodes, NEW k, NEW v, SetAttr(i, k, v)
  PROVE  DocInv'
<1>1. IsDocument(docSaved) /\ docSaved.version = Current
  BY DEF DocInv, DocShape
<1>2. PICK s, d, N, A : /\ s = docSaved
                        /\ A = {p \in s.nodes[i].attrs : p[1] # k} \cup {<<k, v>>}
                        /\ N = [s.nodes EXCEPT ![i].attrs = A]
                        /\ d = [s EXCEPT !.nodes = N]
  OBVIOUS
<1>3. /\ DOMAIN N = DOMAIN s.nodes /\ N = [j \in DOMAIN N |-> N[j]]
      /\ \A j \in DOMAIN s.nodes \ {i} : N[j] = s.nodes[j]
      /\ N[i] = [s.nodes[i] EXCEPT !.attrs = A]
  BY <1>1, <1>2 DEF IsDocument
<1>4. ASSUME NEW j \in DOMAIN N PROVE IsNode(N[j])
  <2>1. IsNode(s.nodes[j])
    BY <1>1, <1>2, <1>3 DEF IsDocument
  <2>2. CASE j = i
    <3>1. \A p \in A : p = <<p[1], p[2]>>
      BY <1>2, <2>1, <2>2 DEF IsNode
    <3> QED BY <1>3, <2>1, <2>2, <3>1 DEF IsNode
  <2> QED BY <1>3, <2>1, <2>2
<1>5. /\ d = [f \in Fields |-> d[f]] /\ d.nodes = N /\ d.edges = s.edges /\ d.version = s.version
  BY <1>1, <1>2 DEF IsDocument, Fields
<1>6. IsDocument(d) /\ d.version = Current
  <2>1. d.edges = [j \in DOMAIN d.edges |-> d.edges[j]] /\ \A j \in DOMAIN d.edges : IsEdge(d.edges[j])
    BY <1>1, <1>2, <1>5 DEF IsDocument
  <2>2. d.nodes = [j \in DOMAIN d.nodes |-> d.nodes[j]] /\ \A j \in DOMAIN d.nodes : IsNode(d.nodes[j])
    BY <1>3, <1>4, <1>5
  <2>3. d = [f \in Fields |-> d[f]] /\ d.version = Current
    BY <1>1, <1>2, <1>5
  <2> QED BY <2>1, <2>2, <2>3 DEF IsDocument
<1>7. d = [docSaved EXCEPT !.nodes[i].attrs = {p \in @ : p[1] # k} \cup {<<k, v>>}]
  BY <1>2
<1>8. Edit(d, docWrote)
  BY <1>7 DEF SetAttr
<1> QED BY <1>6, <1>8, EditPreserves

LEMMA DeleteNodePreserves ==
  ASSUME DocInv, docPc = "accepted", NEW i \in DOMAIN docSaved.nodes, DeleteNode(i)
  PROVE  DocInv'
<1>1. IsDocument(docSaved) /\ docSaved.version = Current
  BY DEF DocInv, DocShape
<1>2. PICK s, d, N : /\ s = docSaved /\ N = [j \in DOMAIN s.nodes \ {i} |-> s.nodes[j]]
                     /\ d = [s EXCEPT !.nodes = N]
  OBVIOUS
<1>3. /\ N = [j \in DOMAIN N |-> N[j]]
      /\ \A j \in DOMAIN N : j \in DOMAIN s.nodes /\ N[j] = s.nodes[j]
  BY <1>2
<1>4. \A j \in DOMAIN N : IsNode(N[j])
  BY <1>1, <1>2, <1>3 DEF IsDocument
<1>5. /\ d = [f \in Fields |-> d[f]] /\ d.nodes = N /\ d.edges = s.edges /\ d.version = s.version
  BY <1>1, <1>2 DEF IsDocument, Fields
<1>6. IsDocument(d) /\ d.version = Current
  <2>1. d.edges = [j \in DOMAIN d.edges |-> d.edges[j]] /\ \A j \in DOMAIN d.edges : IsEdge(d.edges[j])
    BY <1>1, <1>2, <1>5 DEF IsDocument
  <2>2. d.nodes = [j \in DOMAIN d.nodes |-> d.nodes[j]] /\ \A j \in DOMAIN d.nodes : IsNode(d.nodes[j])
    BY <1>3, <1>4, <1>5
  <2>3. d = [f \in Fields |-> d[f]] /\ d.version = Current
    BY <1>1, <1>2, <1>5
  <2> QED BY <2>1, <2>2, <2>3 DEF IsDocument
<1>7. Edit(d, docWrote)
  BY <1>2 DEF DeleteNode
<1> QED BY <1>6, <1>7, EditPreserves

\* The reading, the upgrade, the check and the edits of a document keep the parts of the invariant:
\* what is saved is in the current shapes, and a stored document on its way up keeps every rule of
\* its version and everything it was stored with.
THEOREM DocInvariance == DocSpec => []DocInv
<1>1. DocInit => DocInv
  BY DocStarts
<1>2. DocInv /\ [DocNext]_docVars => DocInv'
  <2> SUFFICES ASSUME DocInv, [DocNext]_docVars PROVE DocInv'
    OBVIOUS
  <2>1. CASE UpgradeStep
    BY <2>1, UpgradeStepPreserves
  <2>2. CASE ReadCurrent
    BY <2>2, ReadCurrentPreserves
  <2>3. CASE RefuseVersion
    BY <2>3, RefuseVersionPreserves
  <2>4. CASE CheckDocument
    BY <2>4, CheckDocumentPreserves
  <2>5. ASSUME docPc = "accepted", NEW e \in DOMAIN docSaved.edges, NEW text \in Texts,
               WriteProtocol(e, text)
        PROVE  DocInv'
    BY <2>5, WriteProtocolPreserves
  <2>6. ASSUME docPc = "accepted", NEW i \in DOMAIN docSaved.nodes, DeleteNode(i)
        PROVE  DocInv'
    BY <2>6, DeleteNodePreserves
  <2>7. ASSUME docPc = "accepted", NEW i \in DOMAIN docSaved.nodes, NEW h, SetAttr(i, "hosted_on", h)
        PROVE  DocInv'
    BY <2>7, SetAttrPreserves
  <2>8. ASSUME docPc = "accepted", NEW i \in DOMAIN docSaved.nodes, SetAttr(i, "egress_policy", "true")
        PROVE  DocInv'
    BY <2>8, SetAttrPreserves
  <2>9. CASE UNCHANGED docVars
    BY <2>9 DEF docVars, DocInv, DocShape, DocUnedited, DocEdited
  <2> QED BY <2>1, <2>2, <2>3, <2>4, <2>5, <2>6, <2>7, <2>8, <2>9 DEF DocNext
<1> QED BY <1>1, <1>2, PTL DEF DocSpec

\* migrate.go, validate.go: a stored document that kept the rules of its version is never refused
\* after the upgrade, and what was accepted reads back as it is.
THEOREM StoredReadsBackHolds == DocSpec => []StoredReadsBack
<1>1. ASSUME DocInv PROVE StoredReadsBack
  <2>1. docPc = "refused" => docStored.version \notin Supported
    BY <1>1 DEF DocInv, DocShape, DocUnedited, DocEdited
  <2>2. docSaved # NoDocument => Normalized(docSaved) = docSaved
    BY <1>1, NormalStays DEF DocInv, DocShape
  <2> QED BY <2>1, <2>2 DEF StoredReadsBack, Supported
<1> QED BY <1>1, DocInvariance, PTL

\* migrate.go: until someone edits it, a document states everything it was stored with, and a
\* provenance key is gone only with its value.
THEOREM NothingIsLostHolds == DocSpec => []NothingIsLost
<1>1. ASSUME DocInv PROVE NothingIsLost
  <2> SUFFICES ASSUME docPc = "accepted", docEdits = 0
               PROVE  /\ \A i \in DOMAIN docStored.nodes : \A p \in docStored.nodes[i].attrs :
                           \/ p \in docSaved.nodes[i].attrs \cup docSaved.nodes[i].notes
                           \/ p = <<"authn", "">>
                           \/ \E v \in DOMAIN ListOf :
                                p = <<"authn", v>> /\ <<"authn", ListOf[v]>> \in docSaved.nodes[i].attrs
                      /\ \A e \in DOMAIN docStored.edges :
                           \/ docStored.edges[e].protocol = Blank
                           \/ <<docStored.edges[e].protocol, docSaved.edges[e].protocol>> \in SameSpelling
                           \/ \E i \in 1..Len(docSaved.edges[e].notes) :
                                docSaved.edges[e].notes[i] = docStored.edges[e].protocol
                           \/ docSaved.edges[e].protocol = docStored.edges[e].protocol
                      /\ \A key \in docStored.provenance \ docSaved.provenance :
                           IF key[1] \in DOMAIN docStored.nodes
                           THEN \A p \in docSaved.nodes[key[1]].attrs : p[1] # key[2]
                           ELSE docSaved.edges[key[1]].protocol = ""
    BY DEF NothingIsLost
  <2>1. docSaved = docRead /\ IsUpgrading(docStored, docRead)
    BY <1>1 DEF DocInv, DocShape, DocUnedited
  <2>2. Keeps(docStored, docSaved) /\ Rules(docSaved)
    BY <2>1 DEF IsUpgrading
  <2>3. DOMAIN docSaved.nodes = DOMAIN docStored.nodes /\ DOMAIN docSaved.edges = DOMAIN docStored.edges
    BY <2>2 DEF Keeps
  <2>4. DOMAIN docSaved.nodes \cap DOMAIN docSaved.edges = {}
    BY <2>2, IdsApart DEF Rules
  <2>5. ASSUME NEW i \in DOMAIN docStored.nodes, NEW p \in docStored.nodes[i].attrs
        PROVE  \/ p \in docSaved.nodes[i].attrs \cup docSaved.nodes[i].notes
               \/ p = <<"authn", "">>
               \/ \E v \in DOMAIN ListOf :
                    p = <<"authn", v>> /\ <<"authn", ListOf[v]>> \in docSaved.nodes[i].attrs
    <3>1. Stands(p, docSaved.nodes[i])
      BY <2>2 DEF Keeps
    <3>2. "oidc" \in DOMAIN ListOf /\ ListOf["oidc"] = "[oidc]"
      BY DEF ListOf
    <3> QED BY <3>1, <3>2 DEF Stands
  <2>6. ASSUME NEW e \in DOMAIN docStored.edges
        PROVE  \/ docStored.edges[e].protocol = Blank
               \/ <<docStored.edges[e].protocol, docSaved.edges[e].protocol>> \in SameSpelling
               \/ \E i \in 1..Len(docSaved.edges[e].notes) :
                    docSaved.edges[e].notes[i] = docStored.edges[e].protocol
               \/ docSaved.edges[e].protocol = docStored.edges[e].protocol
    <3>1. Reads(docStored.edges[e].protocol, docSaved.edges[e])
      BY <2>2 DEF Keeps
    <3> QED BY <3>1 DEF Reads
  <2>7. ASSUME NEW key \in docStored.provenance \ docSaved.provenance
        PROVE  IF key[1] \in DOMAIN docStored.nodes
               THEN \A p \in docSaved.nodes[key[1]].attrs : p[1] # key[2]
               ELSE docSaved.edges[key[1]].protocol = ""
    <3>1. \/ /\ key[1] \in DOMAIN docSaved.nodes
             /\ key[2] \notin Keys(docSaved.nodes[key[1]])
          \/ key[1] \in DOMAIN docSaved.edges /\ docSaved.edges[key[1]].protocol = ""
      BY <2>2 DEF Keeps
    <3> QED BY <2>3, <2>4, <3>1 DEF Keys
  <2> QED BY <2>5, <2>6, <2>7
<1> QED BY <1>1, DocInvariance, PTL
===========================================================================
