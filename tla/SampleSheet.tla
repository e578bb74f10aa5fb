---------------------------- MODULE SampleSheet ----------------------------
(***************************************************************************)
(* The sample sheet a reviewer draws from a bundle (verify/sample.go).     *)
(* While an architecture lives, findings appear and patches fix them; an   *)
(* export writes the members, storage may lose or change some, and         *)
(* SampleBundle draws from what is left.  What happens before the export is*)
(* external: only its members reach the code.                              *)
(***************************************************************************)
EXTENDS Integers, Sequences, FiniteSets

CONSTANTS
  Clauses,        \* the rows of the population, one per clause
  RegimeOf,       \* [clause -> its regime]
  Possible,       \* the findings the rules may raise: [clause, element, severity]
  Recorded,       \* the latest records: [clause -> [onChain, class, signer, signed]]
  Losses,         \* what storage may do: pairs <<members lost, members changed>>
  Parameters,     \* what a reviewer supplies: [method, seed, list, regimes, severities, provenances, size]
  DrawKey,        \* [seed -> [clause -> Nat]]: the hash, an injective number per seed
  MaxPatches      \* bound: accepted patches

\* The population is finite, a draw with a seed states an integer, and no two rows share a key.
ASSUME SampleAssumption ==
  /\ IsFiniteSet(Clauses)
  /\ \A p \in Parameters :
       DOMAIN p = {"method", "seed", "list", "regimes", "severities", "provenances", "size"}
  /\ \A p \in Parameters :
       p.method = "random_seeded" =>
         /\ p.size \in Int
         /\ DrawKey[p.seed] \in [Clauses -> Nat]
         /\ \A c, d \in Clauses : DrawKey[p.seed][c] = DrawKey[p.seed][d] => c = d

VARIABLES
  smOpen,      \* the findings the rules raise, or whose risk was accepted
  smPatches,   \* the accepted patches: [touched, stated: patches.json lists the elements, fixed]
  smRecord,    \* [clause -> its latest record]; clauses without one are left out
  smBundle,    \* the members as exported, [open, patches, record, lost, changed]; << >> before
  smSheet      \* the last draw: [params, error, rows, notInPop]; << >> before

sampleVars == <<smOpen, smPatches, smRecord, smBundle, smSheet>>

SeverityRank == [none |-> 0, info |-> 1, low |-> 2, medium |-> 3, high |-> 4, critical |-> 5]

-----------------------------------------------------------------------------
(***************************************************************************)
(* The draw.                                                               *)
(***************************************************************************)

\* sampleSource.read: a member the manifest lists is used as it is listed; one that is not there
\* is an error only when the sheet needs it.
Unreadable(b) == b.changed \ b.lost # {} \/ b.lost \cap {"population.json", "report.json"} # {}

\* The findings of the report that cite the clause.
Cited(b, c) == {f \in b.open : f.clause = c}

RowElements(b, c) == {f.element : f \in Cited(b, c)}

RowSeverity(b, c) ==
  LET severities == {f.severity : f \in Cited(b, c)} \cup {"none"}
  IN  CHOOSE s \in severities : \A t \in severities : SeverityRank[t] <= SeverityRank[s]

\* Where a record came from: the class it states, else a signature or a signer (on the chain, or in
\* custody.json), else a person.
RowProvenance(b, c) ==
  IF c \notin DOMAIN b.record THEN "none"
  ELSE LET r == b.record[c]
           signed == \/ r.signed \/ r.signer = "chain"
                     \/ r.signer = "custody" /\ "custody.json" \notin b.lost
       IN  IF ~r.onChain \/ "chain.json" \in b.lost THEN "declared"
           ELSE IF r.class # "" THEN r.class
           ELSE IF signed THEN "imported" ELSE "declared"

ReadPatches(b) == IF "patches.json" \in b.lost THEN << >> ELSE b.patches

\* PatchScope: every record of patches.json states its elements.
ByElement(b) == \A i \in 1..Len(ReadPatches(b)) : ReadPatches(b)[i].stated

\* The mistake (used by no specification): a row without elements lists the patches that touched
\* one of them, none.
RowPatches_ByElement(b, c) ==
  LET patches == ReadPatches(b)
  IN  IF ~ByElement(b) THEN 1..Len(patches)
      ELSE {i \in 1..Len(patches) : patches[i].touched \cap RowElements(b, c) # {}}

\* patchesOf: the versions a row lists.
RowPatches(b, c) ==
  LET patches == ReadPatches(b)
  IN  IF ~ByElement(b) \/ RowElements(b, c) = {} THEN 1..Len(patches)
      ELSE {i \in 1..Len(patches) : patches[i].touched \cap RowElements(b, c) # {}}

InStratum(allowed, v) == allowed = {} \/ v \in allowed

Stratum(b, p) ==
  {c \in Clauses :
     /\ InStratum(p.regimes, RegimeOf[c])
     /\ InStratum(p.severities, RowSeverity(b, c))
     /\ InStratum(p.provenances, RowProvenance(b, c))}

\* The mistake: the seed shuffles the stratum, so a row's place depends on the others.
Drawn_Shuffled(b, p) ==
  LET place(c) == (DrawKey[p.seed][c] * Cardinality(Stratum(b, p))) % 5
  IN  IF p.method = "list" THEN Stratum(b, p) \cap p.list
      ELSE {c \in Stratum(b, p) :
              Cardinality({d \in Stratum(b, p) : place(d) < place(c)}) < p.size}

\* The rows with the smallest keys, or the listed ones.
Drawn(b, p) ==
  IF p.method = "list" THEN Stratum(b, p) \cap p.list
  ELSE {c \in Stratum(b, p) :
          Cardinality({d \in Stratum(b, p) : DrawKey[p.seed][d] < DrawKey[p.seed][c]}) < p.size}

\* Normalise: random_seeded takes a seed and a size, list its clauses.
Accepted(p) ==
  \/ p.method = "random_seeded" /\ p.seed # "" /\ p.size > 0 /\ p.list = {}
  \/ p.method = "list" /\ p.list # {} /\ p.seed = "" /\ p.size \in {0, Cardinality(p.list)}

Row(b, c) ==
  [clause |-> c, severity |-> RowSeverity(b, c), provenance |-> RowProvenance(b, c),
   patches |-> RowPatches(b, c), byElement |-> ByElement(b) /\ RowElements(b, c) # {}]

Refused(p) == [params |-> p, error |-> TRUE, rows |-> {}, notInPop |-> {}]

Sheet(b, p) ==
  [params |-> p, error |-> FALSE, rows |-> {Row(b, c) : c \in Drawn(b, p)},
   notInPop |-> p.list \ Clauses]

-----------------------------------------------------------------------------
SampleInit ==
  /\ smOpen = {} /\ smPatches = << >>
  /\ smRecord \in Recorded
  /\ smBundle = << >> /\ smSheet = << >>

\* The rules raise a finding.
Raise(f) ==
  /\ smBundle = << >> /\ f \notin smOpen
  /\ smOpen' = smOpen \cup {f}
  /\ UNCHANGED <<smPatches, smRecord, smBundle, smSheet>>

\* A patch touches elements and fixes findings there.
AcceptPatch(touched, stated, fixed) ==
  /\ smBundle = << >> /\ Len(smPatches) < MaxPatches
  /\ touched # {} /\ fixed \subseteq {f \in smOpen : f.element \in touched}
  /\ smPatches' = Append(smPatches, [touched |-> touched, stated |-> stated, fixed |-> fixed])
  /\ smOpen' = smOpen \ fixed
  /\ UNCHANGED <<smRecord, smBundle, smSheet>>

\* The export writes the members; storage loses some and changes some.
ExportMembers(lost, changed) ==
  /\ smBundle = << >>
  /\ smBundle' = [open |-> smOpen, patches |-> smPatches, record |-> smRecord,
                  lost |-> lost, changed |-> changed]
  /\ UNCHANGED <<smOpen, smPatches, smRecord, smSheet>>

\* SampleBundle.
Draw(p) ==
  /\ smBundle # << >> /\ smSheet = << >>
  /\ smSheet' = IF ~Accepted(p) \/ Unreadable(smBundle) THEN Refused(p) ELSE Sheet(smBundle, p)
  /\ UNCHANGED <<smOpen, smPatches, smRecord, smBundle>>

SampleElements == {f.element : f \in Possible}

SampleNext ==
  \/ \E f \in Possible : Raise(f)
  \/ \E touched \in SUBSET SampleElements, stated \in BOOLEAN, fixed \in SUBSET smOpen :
       AcceptPatch(touched, stated, fixed)
  \/ \E loss \in Losses : ExportMembers(loss[1], loss[2])
  \/ \E p \in Parameters : Draw(p)

SampleSpec == SampleInit /\ [][SampleNext]_sampleVars

-----------------------------------------------------------------------------
\* The rows of the last sheet.
DrawnClauses == {r.clause : r \in smSheet.rows}

\* A drawn row lists every accepted patch a reviewer would ask about: each that touched an element
\* one of its open findings names, whether patches.json states its elements or not, and, when no
\* finding is open, the patch that fixed its last one.
PatchesAreListed ==
  (smSheet # << >> /\ "patches.json" \notin smBundle.lost) =>
    \A r \in smSheet.rows, i \in 1..Len(smPatches) :
      (\/ \E f \in smOpen : f.clause = r.clause /\ f.element \in smPatches[i].touched
       \/ /\ \A f \in smOpen : f.clause # r.clause
          /\ \E f \in smPatches[i].fixed : f.clause = r.clause)
      => i \in r.patches

Narrower(p, q) ==
  /\ p.method = q.method /\ p.seed = q.seed /\ p.list = q.list /\ p.size <= q.size
  /\ \A s \in {"regimes", "severities", "provenances"} : q[s] = {} \/ (p[s] # {} /\ p[s] \subseteq q[s])

\* The draw cannot be steered by drawing again: a sample is as large as its stratum allows; with
\* the same seed a larger one keeps every row a smaller one drew, and a row drawn from a wide
\* stratum is drawn again from every narrower one that holds it.
DrawIsConsistent ==
  (smSheet # << >> /\ ~smSheet.error /\ smSheet.params.method = "random_seeded") =>
    LET q == smSheet.params IN
    /\ LET held == Cardinality(Stratum(smBundle, q))
       IN  Cardinality(DrawnClauses) = IF held < q.size THEN held ELSE q.size
    /\ \A p \in {p \in Parameters : Accepted(p)} :
         /\ Narrower(q, p) /\ q.size = p.size =>
              Drawn(smBundle, p) \cap Stratum(smBundle, q) \subseteq DrawnClauses
         /\ p = [q EXCEPT !.size = p.size] /\ p.size >= q.size =>
              DrawnClauses \subseteq Drawn(smBundle, p)
=============================================================================
