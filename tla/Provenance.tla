----------------------------- MODULE Provenance -----------------------------
(***************************************************************************)
(* A model and its provenance sidecar over its life: it is created (stored *)
(* before schema 1.1, posted by a client, or the accepted preview of an    *)
(* import or a diagram), then patched and merged with further imports.     *)
(* The server that calls model/provenance.go is not in the repository: its *)
(* order of calls is what the comments of that file say of it.             *)
(***************************************************************************)
EXTENDS Sidecar

CONSTANTS
  Snapshots,  \* what a source may hold: [id, hash, kind, carries]
  Dates,      \* dates a source may state, 0 for none
  Actors,     \* who accepts patches
  Importers,  \* who accepts models and imports
  EndChoices, \* ends a person may give an edge (a bound)
  Rewrites,   \* sets of members an import may write (a bound)
  Origins,    \* ways the model comes to be, of "stored", "posted", "preview", "drawn"
  MaxImports, MaxPatches \* bounds

VARIABLES
  arch,     \* the stored architecture
  now,      \* the server's clock: one unit per acceptance; 0 before the model exists
  patches,  \* patches accepted
  written,  \* ghost: the architecture of the last save before compaction
  typed,    \* ghost: what became of the fact a person's patch wrote
  latest    \* ghost: the last import accepted of each identifier

vars == <<arch, now, patches, written, typed, latest>>

Identifiers == {s.id : s \in Snapshots}

\* A source is named, what it holds is named by its hash, and an edge comes with its ends.
ASSUME SourceAssumption ==
  /\ \A s \in Snapshots :
       /\ s.id # "" /\ s.hash \in Nat \ {0} /\ s.kind \in {"imported", "observed"}
       /\ s.carries \subseteq Elements
       /\ \A e \in Edges : EdgeAt(e) \in s.carries => EndNodes(Ends, e) \subseteq s.carries
  /\ \A s, t \in Snapshots : s.id = t.id /\ s.hash = t.hash => s.carries = t.carries

ASSUME BoundsAssumption ==
  /\ Dates \subseteq Nat /\ EndChoices \subseteq Nodes \X Nodes /\ Rewrites \subseteq SUBSET Members
  /\ MaxImports \in Nat /\ MaxPatches \in Nat

\* What a model may hold: members of elements it holds, edges with their ends.
Shapes == {has \in SUBSET Pointers :
             /\ \A p \in has : IsRoot(p) \/ ElementOf(p) \in has
             /\ \A e \in Edges : EdgeAt(e) \in has => {EndAt(e, 1), EndAt(e, 2)} \subseteq has}

\* An edge goes between nodes the model holds; an absent one counts as its source states it.
EndsOf(has) ==
  {ends \in [Edges -> Nodes \X Nodes] :
     \A e \in Edges : IF EdgeAt(e) \in has THEN EndNodes(ends, e) \subseteq has ELSE ends[e] = Ends[e]}

DrawnEnds(has) == {ends \in EndsOf(has) : \A e \in Edges : ends[e] \in EndChoices \cup {Ends[e]}}

\* The sources of nodes a model holds are any, an absent node's is "design".
SourcesOf(has) ==
  {s \in [Nodes -> Sources] : \A n \in Nodes : NodeAt(n) \notin has => s[n] = "design"}

Tidy(a) ==
  [a EXCEPT !.source = [n \in Nodes |-> IF NodeAt(n) \in a.has THEN @[n] ELSE "design"],
            !.ends   = [e \in Edges |-> IF EdgeAt(e) \in a.has THEN @[e] ELSE Ends[e]]]

Save(a) == arch' = SyncSources(Compacted(Tidy(a))) /\ written' = Tidy(a)

Plain(has, ends) ==
  [has |-> has, source |-> [n \in Nodes |-> "design"], ends |-> ends, prov |-> NoEntries]

Init ==
  /\ arch = Plain({}, Ends) /\ written = arch
  /\ now = 0 /\ patches = 0
  /\ typed = [p \in Facts |-> "no"]
  /\ latest = [id \in Identifiers |-> [hash |-> 0, at |-> 0]]

-----------------------------------------------------------------------------
Created == now = 0 /\ now' = 1 /\ UNCHANGED <<patches, typed>>

\* A model written before the sidecar existed.
CreateStored ==
  /\ "stored" \in Origins /\ Created
  /\ \E has \in Shapes : \E source \in SourcesOf(has), ends \in DrawnEnds(has) :
       arch' = [has |-> has, source |-> source, ends |-> ends, prov |-> NoEntries]
  /\ written' = arch' /\ UNCHANGED latest

\* A model posted without the seal of a preview, whatever it claims.
CreatePosted ==
  /\ "posted" \in Origins /\ Created
  /\ \E has \in Shapes, actor \in Importers, k \in Facts, s \in Snapshots :
       \E source \in SourcesOf(has), ends \in DrawnEnds(has) :
         LET claimed == [has |-> has, source |-> source, ends |-> ends,
                         prov |-> Put(NoEntries, k, ImportEntry(s, 0, actor, 1, 1))]
         IN  Save(Accepted(DistrustProvenance(claimed), actor, 1))
  /\ UNCHANGED latest

\* A preview the server made of a source and a person accepts whole.
CreatePreview ==
  /\ "preview" \in Origins /\ Created
  /\ \E s \in Snapshots, date \in Dates, actor \in Importers, has \in Shapes :
       /\ has \cap Elements = s.carries
       /\ LET preview == RecordImport(Plain(has, Ends), ImportEntry(s, date, "", 0, now), s.carries)
          IN  Save(Accepted(preview, actor, 1))
       /\ latest' = [latest EXCEPT ![s.id] = [hash |-> s.hash, at |-> 1]]

\* A diagram a person drew, accepted whole.
CreateDrawn ==
  /\ "drawn" \in Origins /\ Created
  /\ \E has \in Shapes, actor \in Importers : \E ends \in DrawnEnds(has) :
       LET preview == RecordDeclared(Plain(has, ends), "drawing", has \cap Elements)
       IN  Save(Accepted(preview, actor, 1))
  /\ UNCHANGED latest

\* The ends the edges have after an import that rewrites the given pointers.
EndsWritten(ends, rewritten) ==
  LET End(e, i) == IF \E r \in rewritten : Under(EndAt(e, i), r) THEN Ends[e][i] ELSE ends[e][i]
  IN  [e \in Edges |-> <<End(e, 1), End(e, 2)>>]

\* An import merged into the model: it carries elements, adds those the model lacks, and
\* writes some members of theirs.
Import(s, date, actor, touched) ==
  /\ now \in 1..MaxImports
  /\ touched \subseteq {p \in Facts \cap Members : ElementOf(p) \in s.carries}
  /\ LET rewritten == (s.carries \ arch.has) \cup touched
         entry     == ImportEntry(s, date, actor, now + 1, now + 1)
         ends      == {p \in EndMembers : ElementOf(p) \in s.carries}
         grown     == [arch EXCEPT !.has = @ \cup s.carries \cup ends \cup touched,
                                   !.ends = EndsWritten(@, rewritten)]
     IN  /\ Save(Merged(grown, entry, s.carries, rewritten))
         /\ typed' = [p \in Facts |->
              IF typed[p] = "no" \/ \E r \in rewritten : Under(p, r) THEN "no"
              ELSE IF \E c \in s.carries : Under(p, c) THEN "carried" ELSE typed[p]]
  /\ now' = now + 1
  /\ latest' = [latest EXCEPT ![s.id] = [hash |-> s.hash, at |-> now + 1]]
  /\ UNCHANGED patches

\* Apply and StampPatch: the model holds has, with the given members altered.
Patch(has, ends, source, altered, actor) ==
  LET next    == Tidy([has |-> has, source |-> source, ends |-> ends, prov |-> arch.prov])
      changed == Changed(arch, next, altered)
  IN  /\ now > 0 /\ patches < MaxPatches
      /\ Allowed(arch, next, altered)
      /\ Save(StampPatch(arch, Pruned(next), changed, actor))
      /\ typed' = [p \in Facts |->
           IF p \notin has THEN "no"
           ELSE IF \E c \in changed : Under(p, c) THEN "typed" ELSE typed[p]]
      /\ patches' = patches + 1
      /\ UNCHANGED <<now, latest>>

\* A node with what the patch says of it, its source included.
AddNode(actor) ==
  \E n \in Nodes, s \in Sources : \E members \in SUBSET {q \in Members : Under(q, NodeAt(n))} :
    /\ NodeAt(n) \notin arch.has
    /\ Patch(arch.has \cup {NodeAt(n)} \cup members, arch.ends, [arch.source EXCEPT ![n] = s], {}, actor)

AddEdge(actor) ==
  \E e \in Edges, pair \in EndChoices : \E members \in SUBSET {q \in Members : Under(q, EdgeAt(e))} :
    /\ EdgeAt(e) \notin arch.has
    /\ Patch(arch.has \cup {EdgeAt(e)} \cup members, [arch.ends EXCEPT ![e] = pair], arch.source, {}, actor)

\* A member of an element the model holds, or a root attribute.
AddMember(actor) ==
  \E p \in Members \ arch.has :
    /\ IsRoot(p) \/ ElementOf(p) \in arch.has
    /\ Patch(arch.has \cup {p}, arch.ends, arch.source, {}, actor)

\* A value, or an element with the edges at it.
RemoveFact(actor) ==
  \E p \in arch.has :
    LET edges == {EdgeAt(e) : e \in {x \in Edges : p \in EndNodes(arch.ends, x)}}
    IN  Patch({q \in arch.has : \A r \in {p} \cup edges : ~Under(q, r)},
              arch.ends, arch.source, {}, actor)

AlterFacts(actor) ==
  \E altered \in (SUBSET (arch.has \cap (Members \ EndMembers))) \ {{}} :
    Patch(arch.has, arch.ends, arch.source, altered, actor)

\* Another node at one end of an edge, or at both.
ReendEdge(actor) ==
  \E e \in Edges, pair \in EndChoices :
    /\ EdgeAt(e) \in arch.has /\ pair # arch.ends[e]
    /\ Patch(arch.has, [arch.ends EXCEPT ![e] = pair], arch.source, {}, actor)

EditSource(actor) ==
  \E n \in Nodes, s \in Sources :
    /\ NodeAt(n) \in arch.has /\ s # arch.source[n]
    /\ Patch(arch.has, arch.ends, [arch.source EXCEPT ![n] = s], {}, actor)

\* The diff of what an identifier's latest import no longer carried, accepted.
RemoveDrifted(actor) ==
  \E id \in Identifiers :
    DriftedElements(arch, id) # {} /\ Patch(WithoutDrifted(arch, id), arch.ends, arch.source, {}, actor)

Next ==
  \/ CreateStored \/ CreatePosted \/ CreatePreview \/ CreateDrawn
  \/ \E s \in Snapshots, date \in Dates, actor \in Importers, touched \in Rewrites :
       Import(s, date, actor, touched)
  \/ \E actor \in Actors :
       \/ AddNode(actor) \/ AddEdge(actor) \/ AddMember(actor) \/ RemoveFact(actor)
       \/ AlterFacts(actor) \/ ReendEdge(actor) \/ EditSource(actor) \/ RemoveDrifted(actor)

Spec == Init /\ [][Next]_vars

-----------------------------------------------------------------------------
\* Types.
Entries ==
  [kind : {"declared", "imported", "observed"},
   id : Identifiers \cup {"", "drawing", PreV11Import} \cup {ExternalRef[n] : n \in Nodes},
   seen : {0} \cup {s.hash : s \in Snapshots},
   importedAt : 0..MaxImports + 1, fetched : 0..MaxImports + 1, by : Actors \cup Importers \cup {""}]

TypeOK ==
  /\ now \in 0..MaxImports + 1 /\ patches \in 0..MaxPatches
  /\ arch.has \in Shapes /\ arch.source \in SourcesOf(arch.has) /\ arch.ends \in EndsOf(arch.has)
  /\ \A k \in DOMAIN arch.prov : k \in Facts /\ arch.prov[k] \in Entries
  /\ typed \in [Facts -> {"no", "typed", "carried"}]

\* Whatever was created, merged, patched and removed, a save never meets the model's own
\* invariants with a sidecar the user could not repair: every key names a value the model
\* holds, there are no more keys than the schema allows, and the node sources older readers
\* still go by say what the sidecar says (provenanceProblems, compactProvenance, SyncSources).
SavedModelIsValid ==
  /\ \A k \in DOMAIN arch.prov : Resolves(arch, k)
  /\ Cardinality(DOMAIN arch.prov) <= KeyLimit
  /\ \A n \in Nodes : NodeAt(n) \in DOMAIN arch.prov =>
       arch.source[n] = KindToSource[KindOf(arch, NodeAt(n))]

\* Compaction only forgets in the safe direction: no fact resolves to a stronger kind than
\* before it, and while the sidecar fits without folding every fact keeps its whole claim
\* (compactProvenance).
CompactionUnderstates ==
  \A p \in Facts \cap arch.has :
    /\ Rank(KindOf(arch, p)) <= Rank(KindOf(written, p))
    /\ Fits(Thinned(written)) /\ StoredAbove(written, p) # {}
         => ProvenanceOf(arch, p) = ProvenanceOf(written, p)

\* A fact a person's patch wrote resolves declared for as long as no import carries its
\* element, through later imports of others, patches, prunes and folds.  Edges without an
\* entry are left out: they follow their ends (see TypedStaysDeclared).
TypedUntilCarried ==
  \A p \in Facts \cap arch.has :
    typed[p] = "typed" /\ (p[1] = "edges" => StoredAbove(arch, p) # {})
      => KindOf(arch, p) = "declared"

\* A member a person declared apart from its element stays declared when an import carries
\* the element and does not rewrite the member (MergeImport).
DeclaredMemberIsKept ==
  [][now' = now + 1 /\ now > 0 =>
       \A p \in Facts \cap Members :
         /\ p \in DOMAIN arch.prov /\ arch.prov[p].kind = "declared"
         /\ typed'[p] = typed[p] \/ typed'[p] = "carried"
         => KindOf(arch', p) = "declared"]_vars

\* What lies at or below an edge with other ends than before, and no key above says whose.
FollowsNewEnds(prev, next, p) ==
  p[1] = "edges" /\ next.ends[p[2]] # prev.ends[p[2]] /\ StoredAbove(next, p) = {}

\* A patch raises a fact in one way only, by drawing an edge between other nodes: over edited
\* node sources, removals that prune keys, sidecars created on the way and new ends, no fact
\* there before and after resolves to a stronger kind, but for an edge with new ends and what
\* lies below it, where no key says otherwise (StampPatch, MaterializeProvenance,
\* touchesNonDeclared).
OnlyNewEndsRaise ==
  [][now' = now =>
       \A p \in Facts \cap arch.has \cap arch'.has :
         ~FollowsNewEnds(arch, arch', p) => Rank(KindOf(arch', p)) <= Rank(KindOf(arch, p))]_vars

\* No accepted import with a cadence is believed for longer than that after a person accepted it,
\* whatever date its source states, in a preview or a merge (boundFetchedAt, StampAccepted).
StaleByAcceptance ==
  \A k \in DOMAIN arch.prov :
    LET e == arch.prov[k]
    IN  e.kind = "imported" /\ e.seen # 0 =>
          e.importedAt > 0 /\ (Cadence > 0 => Expired(e, e.importedAt + Cadence + 1))

\* While anything of the latest import of an identifier is still stored, the drifted elements
\* are those stored entries of the identifier the latest import did not carry, in whatever
\* order and with whatever dates of their own the states of the source were imported
\* (LatestImports, DriftedElements).
DriftIsWhatTheLatestLeftBehind ==
  \A id \in Identifiers :
    (\E k \in ImportKeys(arch, id) : arch.prov[k].importedAt = latest[id].at) =>
      \A s \in Snapshots : s.id = id /\ s.hash = latest[id].hash =>
        DriftedElements(arch, id) = (ImportKeys(arch, id) \cap Elements) \ s.carries

\* What a patch alters is reset to declared (StampPatch): a fact a person's patch wrote
\* resolves declared until an import carries its element.
TypedStaysDeclared ==
  \A p \in Facts \cap arch.has : typed[p] = "typed" => KindOf(arch, p) = "declared"
=============================================================================
