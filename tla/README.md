# A TLA+ development of sixi-assure-rules

The repository is the public half of an assurance product: the rule packs, the engine that
evaluates them over a model of an architecture, and the verifier (`assure verify`,
`assure-check verify`) with which a reviewer re-checks an exported report, evidence chain or
bundle without the product. What both promise is narrow and strong: a finding list that is
complete for what was evaluated and honest about what was not, and a verdict on exported files
that anyone can reproduce, today and years later. This directory states those promises, models
the code that has to keep them, checks the models with TLC, and proves the central ones with
TLAPS.

## 1. Inventory

| part | state | operations | modelled in |
|---|---|---|---|
| **evidence chain** `verify/chain.go`, `zz_chainhash.go` | running hash, first break, intact prefix, verdicts | walk the export, compare count, head, marks, the report's head | `EvidenceChain` (whole) |
| **anchors** `verify/anchors.go`, `receipts.go` | results per receipt, rewritten in place by the long-term rule; receipt files beside the input | check a receipt, load files, long-term rule, records without receipts, tail | `Anchoring`, `LongTermRule` (whole) |
| **keys and signatures** `verify/keys.go`, `signatures.go`, `detached.go` | keyring: entries, why one is unusable, what it signed | parse, verify in window, compare an envelope, custody; spot checks; detached files | `KeyList` (part) |
| **verification run** `verify/verify.go`, `manifest.go`, `input.go`, `report.go`, `cli.go` | the source and its gate `listed`, the keyring, chain state, report, packs, the list of checks | open, verify the manifest, read members, one check after the other, result, exit code | `BundleRun` (bundles, lone reports) |
| **reproduction** `verify/reproduce.go`, `asof.go`, `advisories.go`, `records.go` | snapshot, packs, clock, policy | choose each, compare hashes, re-run, compare results | `BundleRun` (part) |
| **rule engine** `rules/engine.go`, `guard.go`, `evaluator.go` | findings, errors, coverage (decided, not checked) | a findings pass and a coverage pass per rule, timeouts, sort | `RuleEngine`, `Conditions` (whole) |
| **packs, causes, frameworks** `rules/pack.go`, `causes.go`, `cause_groups.go`, `framework.go` | the catalog, loaded once | parse, validate, hash, which packs apply | only which apply |
| **CEL environment** `rules/cel.go` | graph of the model, one cache per family of walks | the facts a rule reads; reachable, path through, path avoiding, upstream, data flow; `required()`, `capped()` | `GraphWalks`, `PolicyTable`; facts in `RuleEngine` |
| **policy** `rules/policy.go` | table of thresholds | numbers in force, required, capped | `PolicyTable` (part: no YAML, no regions) |
| **decoration, patches** `rules/decorate.go`, `patch.go` | none | render texts and a patch of a finding | no: string templates |
| **provenance** `model/provenance.go` | a sidecar from JSON pointers to entries | import, merge, declare, accept, distrust, patch, prune, compact, drift, expiry | `Sidecar`, `Provenance` (nearly whole) |
| **model** `model/patch.go`, `validate.go`, `types.go`, ... | the architecture | patch, read tolerantly, validate, canonical hash | `ModelDocument`, `Sidecar` (part) |
| **migration** `model/migrate/` | none | upgrade through every schema version | `ModelDocument` (part) |
| **review records** `verify/reviewrecord.go` | verified keys and assertions | registrations, assertions, statements, verdicts | `ReviewRecord`; whose record it is: `BundleRun` |
| **samples** `verify/sample.go` | none | stratum, draw, rows and their patches | `SampleSheet` (part) |
| **timestamp tokens** `verify/tsp/` | none | decode and verify RFC 3161 / CMS | no: byte formats; `Anchoring` takes a token's verdict |
| **diagrams, corpus, secret scan** `model/c4`, `corpus`, `secretguard` | none | conversion of text, pattern matching | no: stateless text handling |
| **command lines, SARIF** `cmd/`, `rules/sarif/` | none | flags, output, CI gates | only the verifier's exit code |
| **packs, golden sets, lenses, schema, scripts** | data | - | no |

How they meet. `Run` opens an input, checks the manifest, after which `source.read` only shows
listed members, builds the keyring, walks the chain (`verifyChain`), judges its anchors
(`verifyAnchors`), checks the report's signature and its ties to chain, corpus and snapshot,
loads the packs and calls the rule engine on the snapshot (`reproduce`), and ends with further
signatures, advisories and key custody. Everything meets in one list of checks, from which
`finish` and `Main` take result and exit code. Nothing is shared between runs. `SampleBundle`
reads the same members through a gate of its own. On the product's side a model enters by
`ValidateJSON` (upgrade or tolerant reading, then the invariants); imports and accepted patches
go through `model/provenance.go`, and what the sidecar says of a fact is what rules see as `prov`.

What is hard here. Concurrency is small: one goroutine evaluates, a context per rule bounds it.
The hard parts are *running state in long walks* (a break early in a chain colours everything
after it), *lists rewritten while they are read* (the long-term rule), *rules that fail or run
out of time half way*, *facts that are missing* and what may still be said about them, *gates
that open and close* (`listed`), *authorities and keys that expire* between export and
verification, *stores restored from backups*, *members of a bundle that are lost, damaged,
or from another export*, *claims about facts that are overwritten, inherited and compacted* in the
sidecar, *what a registry said on the day* of a signature, and *caches* shared by rules. `PROJECT.json` lists each hazard at its line with the property that
covers it, or the reason none does yet.

## 2. Modules

```
ChainHashing --- EvidenceChain --- MCEvidenceChain, EvidenceChain_proofs
AnchorOrder  --/                   (ChainAudit: abstract, implemented by EvidenceChain)
      \--- Anchoring --- MCAnchoring, Anchoring_proofs
LongTermRule --/    \--- LongTermRule_proofs
Conditions --- RuleEngine --- MCRuleEngine, RuleEngine_proofs
KeyList --- BundleRun --- MCBundleRun, BundleRun_proofs
Sidecar --- Provenance --- MCProvenance, Provenance_proofs
ReviewRecord --- MCReviewRecord, ReviewRecord_proofs
ModelDocument --- MCModelDocument --\
GraphWalks, PolicyTable, SampleSheet, LongTermRule --- MCAlgorithms
GraphWalks, PolicyTable --- RuleEngine_proofs; SampleSheet --- ReviewRecord_proofs
ModelDocument --- Provenance_proofs
FoldTheorems: what a fold computes, used by the proofs of the chain, the anchors, the engine and the sidecar
```

**ChainHashing** (the hash of an event over the previous one). A chain hash is the sequence of
what was hashed: ideal, injective, and comparable by prefix. The two conversions that lose
something are functions: `Canonical` (JSON rendering of a payload, or "not JSON") and `Text` (the
fields as printed, which drops fractions below a microsecond).

**EvidenceChain** (`verifyChain`, `checkAnchoredBy`, `okAnchors`, `hasHash`, the report-head check).
`pc` goes parse, links, head, marks, report, done; `next`, `prev`, `intact`, `broken`, `linksOK`
are the locals `i`, `prev`, `st.intact`, the text of the first break, `st.linksOK`. One action per
early return, per iteration that links (`LinkEvent`) or passes over (`SkipEvent`, the `continue`s),
and per later check. **ChainAudit** is the abstract specification: one step that looks at the whole
export and says links, head, report; `ImplementsAudit` is the refinement, with a mapping that shows
nothing until the walk is done.

**Anchoring** (`verifyAnchors`, `checkAnchor`, `chainValidAt`, `applyLongTerm`, `tailLine`, receipt files).
The environment (the product's store, time-stamp authorities, `assure reanchor`, none of them in
this repository) appends events, obtains tokens and records them, is rewound to a backup and goes
on, exports; then a copy may be edited, stray receipts put beside it, years pass, it is
re-anchored and verified again. **LongTermRule** is the rule alone, on any list of results, with
the in-place update of the code; Anchoring takes its operators by INSTANCE.

**Conditions** and **RuleEngine** (`evaluate`, `runRule`, `forEachElement`, `coverRule`, guards,
unknowns). A condition is a conjunction of disjunctions of tests; a test reads one path and holds,
does not, errors (a fact without a default) or is unknown. CEL's `&&`, `||` absorb errors and
unknowns as `Conjoin`, `Disjoin` say. `Skip`, `Pass`, `Fire`, `Fail`, `Interrupted` are the
outcomes for one element, `Discard` what a failing rule leaves behind, `Cover*` those of the
coverage pass. `counted` is a ghost beside the decided count: which elements were counted. After
an evaluation an author may declare a fact the coverage asked for (`Declare`) and evaluate again.

**KeyList** (operators over key lists and envelopes) and **BundleRun** (`Run` over a bundle
directory, zip or lone report, with `verifyManifest`, `keysFor`, `verifyReport`, `checkSnapshot`,
`loadPacks`, `reproduce`, `evaluationClock`, `checkRecordRows`, `checkAdvisories`,
`checkSampleSignature`, `finish`, `Main`). One action per check, in the code's order; `checks` is
`Report.Checks` as pairs of name and status; a content stands for its sha256. Before the run
the copy may lose, damage or mix up members and have its manifest written anew.

**Sidecar** (operators on `[has, source, ends, prov]`: which pointers hold a value, each node's source, the nodes each
edge goes from and to, the sidecar) and **Provenance** (its life). `Weaker`, `ProvenanceOf`, `Newer`, `BoundedDate`, `Merged`,
`Materialized`, `Thinned`, `Folded` are the functions of the same or a similar name. A model is stored
before schema 1.1, posted, accepted from a preview or drawn (`CreateStored` ... `CreateDrawn`); each
`Import` is a `MergeImport` and each patch an application followed by `StampPatch`, pruning and
`SyncSources`; every save ends in `compactProvenance`. Values are abstracted to pointers and the set a
patch alters. `written` (the architecture before the last compaction), `typed` (what became of a
fact a person wrote) and `latest` (the last import of each source) are ghosts. The order in which the
server calls these functions is taken from their comments; the server is not in the repository. An edge without a key
resolves by its ends as they are now: a patch may change them (`ReendEdge`; `patch.go` protects only ids and root fields), and an
import writes them back as its source states them (`EndsWritten`).

**ReviewRecord** (`checkReviewRecord` and what it calls). People register keys, acknowledge and revoke
them, submit assertions and statements in any order (external); the export writes `review_record.json`;
one place of the copy may be edited; `Check` runs `openKeys`, the loop over assertions and the one
over statements. A seal names its key and its exact message. `inForce` remembers which
submissions were good by the registry of that moment.

**ModelDocument** (`ValidateJSON`, `Normalize`, the steps of `model/migrate`, `Invariants`). A document
of any version is upgraded step by step (`UpgradeStep`) or read tolerantly (`ReadCurrent`), held to
the invariants (`CheckDocument`), then edited and checked again.

**GraphWalks** (the graph functions of `rules/cel.go`): one action per question, with the caches the
code keeps between questions; the reference is a walk as a sequence of nodes. **PolicyTable**
(`required`, `capped`): rows, regimes in their spellings, the organisation's own value.
**SampleSheet** (`SampleBundle`): findings appear and patches fix them before an export, storage
loses or changes members, then one draw.

In every module, an operator with a suffix (`Carries_Expired`) is a plausible mistake in the
operator of that name; no specification uses them. They show that each property depends on the
code it speaks about.

## 3. What TLC checks

| run | states | question |
|---|---|---|
| `evidence_chain` | 49,509 | every export of up to three events, well made, cut by a limit, with one or two edits, or re-written from some event on: are first break, head, report head and marks what the whole export says (`FirstBreakIsNamed`, `HeadCommitsToExport`, `ReportHeadCommits`, `MarksFollowReceipts`), do verdicts stand (`VerdictsStand`), is the walk the audit (`ImplementsAudit`) |
| `anchoring` | 5.3 M | store, backup, export, one edit, roots known, partly known or none, re-anchoring and expiry over time: what a pass vouches for (`PassIsWhatWasSigned`, `PassIsVouchedForToday`), removed receipts (`RemovedReceiptShows`), the tail (`TailIsUnanchored`), time and added receipts (`TimeHealsNothing`, `ReceiptsOnlyHelp`), and the purpose of it all, `ReanchorCarriesAll` |
| `rule_engine` | 0.25 M | three catalogs, every model with some of four facts open, interruption anywhere, a fact declared afterwards: `AllOrNothing`, `CoverageAccounts`, `DecidedIsSound`, `SilenceLasts`, `ReportIsCanonical` |
| `bundle_run` | 1.7 M | nine ways to call the verifier, four exports of two organisations, two edits: `HonestNeverFails`, `EditShows`, `OnlyListedIsUsed`, `StrictPassIsWhatWasSigned`, `AdvisoriesAreForThePinned` |
| `provenance` | 327,967 | four ways to create a model, imports of two sources with any stated date, patches of each kind: is what is saved valid and never overstated (`SavedModelIsValid`, `CompactionUnderstates`), does a declared fact stay so (`TypedUntilCarried`, `DeclaredMemberIsKept`), does a patch raise nothing but an edge it draws between other nodes (`OnlyNewEndsRaise`), are age and drift those of the accepted imports (`StaleByAcceptance`, `DriftIsWhatTheLatestLeftBehind`) |
| `review_records` | 2.4 M | two keys in every registration, acknowledged and revoked at any time, an assertion and a statement, one edit of the copy: is the verdict that of the day (`VerdictIsHistory`), are there two persons behind it (`SeparationSurvivesEdits`) |
| `algorithms` | 1.0 M | five sequential parts, each from initial states of its own: lists judged in place (`OrderDoesNotMatter`), graph questions through their caches (`AnswersAreWalks`), the policy numbers (`RegimesBind`), the sample sheet (`PatchesAreListed`, `DrawIsConsistent`), upgrade and reading of a document (`StoredReadsBack`, `NothingIsLost`) |
| `bundle_clock`, `bundle_record`, `provenance_edge`, `protocol_text` | - | four claims of comments that the code does not keep (below) |

The parts `algorithms` puts side by side share no state; a behaviour picks one of them. The state
machines that go through several phases also state `TypeOK`; for all of them (chain, anchoring, engine,
bundle, provenance, review record) it is proved (section 4), as are `IntactCommits`, `PassRestsOnValid` and
`GuardsHideNoError`, which no run repeats.

Bounds, and why they are enough.
- *Chain*: three events, the least at which a break has an event before and after it and a head can
  name a middle one; two edits so that one can hide the other. The verdict on an event depends only
  on it and its predecessor, which is what the proofs use to go to every length.
- *Long-term rule*: three results over two heads and two instants give every order of
  "covers / later / valid"; the theorems cover any length.
- *Anchoring*: times 0..2 with two authorities that expire at different times, one that is not
  trusted; three events, three tokens, two receipt files: an anchor, its carrier and a carrier that
  does not count.
- *Engine*: two nodes, two edges (one a self-loop), graph scope; rules with guards, domains, required
  facts, overrides, messages that fail to render. One declared fact between two evaluations.
- *Provenance*: two nodes and an edge between them or at the second one alone (`EndChoices`; a self-loop is an agent
  that delegates to itself), so that new ends may be of another source; an attribute of a node, a member of the edge and its two ends, a root
  attribute and a layout member; two states of one source and one of another; two merges, which rewrite no member,
  one, or all (`Rewrites`), and two patches by one person; a limit of three keys, so that both stages of compaction happen; a
  stated date of none, the past or the future. A patch of the run does one thing at a time; the lemma behind
  the theorems (`PatchStep`) is about a patch that adds, alters and redraws anything at once.
- *Review records*: one assertion and one statement (a verdict on a statement reads one assertion);
  times 1..5 with windows that open and close inside; after one edit of the copy no key is
  contradicted by the reviewer's own list as well.
- *Algorithms*: three nodes with every control the walks tell apart and two or three edges, sequences of
  questions long enough that every cache is hit; three regimes of different spellings with a
  row for a role; three clauses over two elements; a document of each version with each kind of value the
  upgrade rewrites, notes or drops, one edit.
- *Bundle*: two of a bundle's twelve members change (three edits in `bundle_record`: lost, mixed up, relisted);
  one key rotation; times 1..4 around an imported fact that goes stale at 3.
- `CHECK_DEADLOCK FALSE` where a run of the program simply ends (all runs but `evidence_chain`).

Fairness. None is assumed, because no run states liveness: every module is a sequential program over finite lists,
which ends because the lists do, and nothing in the code waits for anybody. What could be lost on the way, a
rule or an element passed over, is safety and stated as such (`CoverageAccounts`, `AllOrNothing`).

### Four disagreements between code and comment

The first two have one cause: `manifest.json` is read a second time through `source.read`, after
`verifyManifest` restricted reads to the members the manifest lists, which never include it.
- `bundle_clock`: `evaluationClock` is documented to use the bundle's `produced_at`; in a run over a
  bundle whose manifest was checked it uses the report's `generated_at` (`ProducedAt` is `NoTime`).
  For the findings this is the better clock, since the report was computed at it; the comment, the note the run
  prints and the unit test of the function disagree with it.
- `bundle_record`: `checkReviewRecord` is documented to compare the record's architecture with the
  manifest's and the report's; only the report's is compared, and a bundle without a report accepts the
  record of any architecture.
- `provenance_edge`: `StampPatch` promises that what a patch altered is reset to declared. On a model
  without a sidecar it decides whether there is anything to stamp on the model before the patch, where a
  new edge does not exist and counts as declared; in the saved model the edge takes the weaker claim of
  its ends and is imported or observed. So does an edge that was there, when the patch replaces its `from` or `to`: it resolves declared
  as long as one end is designed, nothing is stamped, and it follows its new ends. `TypedUntilCarried` (edges without a key
  left out) and `OnlyNewEndsRaise` (but for edges with new ends, nothing rises) are the properties that do hold.
- `protocol_text`: `ProtocolText` is documented as the protocol as its author wrote it. It is the first
  note of the edge whenever there is one, and no edit of the protocol removes the note.

## 4. What is proved

For every value of the constants, with TLAPS. Each state machine has one theorem `Invariance`, `Spec => []IInv`
with the inductive invariant `IInv` of its module, one lemma per action below it, and the properties
the runs check as consequences. `PROJECT.json` lists the theorems by property.

**EvidenceChain_proofs.** The five invariants of `evidence_chain` and the refinement
`WalkImplementsAudit`. `IntactCommits` alone is not inductive, since a step looks only at the previous hash.
`IInv` says in addition where the walk is (`next`), that `prev` is the stored hash of the event before it
as long as nothing broke, that every event of the intact prefix is authentic (links to the hash before
it and recomputes), and which verdicts exist at which `pc`. A hash is the sequence of the contents
hashed, so `ContentsStep` (hashing one more event appends its link) and `BreakDecides` (an event breaks
exactly when it is not authentic) carry the invariant over one event. `MarksInv` keeps the verdict on the
marks equal to what the whole list of receipts says; the fold in `okAnchors` is resolved by `FoldTheorems`.

**LongTermRule_proofs.** `RuleInvariance`, `OrderIrrelevant`, `PassIsBacked`. The invariant keeps, for what
was judged, that a failed result got its status from a carrier that does not exist in the list *as
given*, which makes the in-place update harmless: a result that failed was not valid today and carries nothing.

**Anchoring_proofs.** All seven invariants of `anchoring`, for any number of events, authorities, receipts,
files and verifications. `StoreInv`: a token signs what it says and lies in the past, a record states the hash of its token,
a record number names one record. `CopyInv`: while nothing is exported nothing runs; the events of a copy, edited or not,
are numbered in sequence and one with a record's number is that record; an anchor of the copy says what its
token says (or has lost the token) and names a written record; the files of the copy that can be used sign. `UneditedInv`: until something is edited, history, tokens, receipts and copy are those of one store.
`RunInv`: each result is the verdict on its receipt, the results the rule has judged are those of the rule on the whole
list (`Rule!RuleInv`, reused from the long-term rule), and the report is complete. `LastInv` says of the verification
before what `StandsAt` says of any time and any number of files; `StandsMonotone` (a standing receipt stands with more
files, and stood at any earlier time) then gives `TimeHealsNothing` and `ReceiptsOnlyHelp`, and a receipt that is
valid and later than all others gives `ReanchorCarriesAll`.

**RuleEngine_proofs.** The five invariants of `rule_engine`, for any catalog, any model, any number of declarations and
interruptions at any evaluation. First what the engine relies on in CEL's logic: `GuardsAreSound` (what
the guards exclude is false, so no error is hidden), `UnknownsAreSound` and `MissingFactsAreSound` (an outcome that is
decided with unknowns is the outcome of every completion). The properties speak of finished reports, so
`IInv` says what holds on the way: `TurnInv`, each rule id enters the error set and the maps only in its
turn; `WalkInv`, every element the finding pass went over evaluated or was excluded and false, and
`out` holds exactly those it fired on; `CoverInv`, every element gone over is counted, not checked or
outside the domain, and a counted one fires or is false under every completion; `PastInv`, a rule
that is through stays settled. A second invariant, `ReportInv`, rests on the first: `FoundInv`, the list holds each
finding of each rule that is through and did not fail, once; `OutInv` the same of the rule that runs; `CoveredInv`, which
rules have coverage; `EarlierInv`, today's facts differ from those of the report before in the declared one, and what that
report decided silently is false under every completion of the facts it read. For sorting, `SortedParts`: each entry has
a place of its own (the number of those before it) and the places are all taken. `SilenceLasts` follows because the facts as
they are now complete what was unknown then, wherever the condition looks.

The same module proves the two tables rules read through CEL. *Graph walks*, on every finite graph and for any questions in any
order: `GraphInv` says that each walk a cache keeps is the walk of every question with its key (`AvoidKeyTells`, `UpstreamKeyTells`: a
key leaves nothing out that the walk depends on), and that the last answer is the promised one. What a queue comes to hold is the
least set that holds the start and is closed (`SpreadFacts`); a node is in it exactly when a walk leads there (`SpreadIsReach`); and where a
walk exists, one exists of at most as many steps as there are nodes (`WalksAreBounded`, by cutting circles), so the bound in the
property's reference loses nothing. The backward walk of `upstreamWalk` and the meeting of a forward and a backward walk in
`pathThrough` become statements about forward walks by reversing them (`UpstreamIsInto`, `ThroughIsMeeting`). *Policy numbers*, for
any row, any number of regimes and any spelling: `RegimesBind`, from the canonical form of a code being its own.

**BundleRun_proofs.** The five invariants of `bundle_run`, for any formats of exports, settings of the verifier, edits and
interruptions. `StageInv`: which locals are set at which check. `FoundInv`: what each stage found is a function of the
copy, the options and the gate. `ToldInv`: each check that ran told what that function says. `HonestInv`: a run over an
untouched export of the organisation has no failing check. `EndInv`: how result and exit code follow from the list. A strict pass
then means that no check is missing, each passed, and the seal on the report ties the rest to one export
(`SealsAssumption`: a signature cannot be made without its key).

**Provenance_proofs.** The five invariants and the two action properties of `provenance`, for any model, any snapshots, dates, people
and limits that leave room for a key per element. `IInv` joins the claims to the ghosts: `Held` (entries
are well formed and lie at facts the model holds, only elements are imported), `TypedInv` (a member has an entry only since a
patch wrote it, and what a patch wrote is in the model), `LatestInv` and `AllWitnessed` (each entry of an accepted import names an
import that happened, of a source that carried the element, and the latest one where that carries it), next to `SavedModelIsValid`, `CompactionUnderstates` and
`TypedUntilCarried`, which need each other. A patch is proved as a whole (`PatchStep`, for whatever it adds, alters, removes and redraws), so
`OnlyNewEndsRaise` names the one way in which a claim rises: an edge without a key whose ends are other nodes now. The second pass of compaction is a fold of `FoldKey` over all keys; `FoldTheorems` gives it
an invariant (no claim rises, no element loses its entry, member keys go).

*Reading a document* is in the same module, for any store of documents: both invariants of `ModelDocument`. `Follows` relates a
document to what an operation makes of it (elements, zones and references stay; each value still stands, in a note or under its new key;
a sidecar key goes with its value only), and the tolerant reading, the new identities, the dropped hosts and the new version all satisfy it. `Keeps`
carries along it everything the document was stored with (`KeepsCarries`), in the inductive form that a value that is gone never comes
back under its key; `Rules` carries the rules of the invariants, the count of ids included (`AsManyMore`). `DocInv` joins both with
`IsNormal`: what is checked or saved is in the current shapes, so that reading it again changes nothing (`NormalStays`). From these,
`NothingIsLost`, and `StoredReadsBack`: the upgraded document satisfies every invariant (`UpgradedIsValid`).

**ReviewRecord_proofs.** Both invariants of `review_records`, for any keys, holders, models and moments, and any number of records.
`SealedRegistry` and `SealedRecords` say that the registry and the records carry their own seals;
`NothingIsLater`, that records and changes of the registry lie in the past; from these, `HistoryIsKept`: the registry of any
later day says of a record what could be said on its own (`RegistryStep`: a revocation comes after every earlier
record, an acknowledgement makes no earlier one good). `CopyInv` says that no edit makes a seal; since a seal names
key and message (`SealInjective`), what passes in an edited copy was signed as it reads (`SealedIsSubmitted`) under
a registration as the registry has it (`AcknowledgedAsRegistered`).

The *sample sheet* is in the same module, for any clauses, findings, patches, losses and parameters. `SampleInv` says what a row of
the last sheet is; `PatchesAreListed` is a case split over what the row was scoped to. `DrawIsConsistent` rests on the ranks of distinct keys
being 0, 1, 2 and so on (`RanksAreTaken`): the members of rank below `n` are `n`, or all (`SmallestKeys`), and a rank only falls in a narrower stratum.

**FoldTheorems.** What `FoldLeft` of the community modules computes, over sequences of any length, as lemmas a proof
instantiates with the loop's step. The induction theorems of the library cannot be used (they take an operator), so the induction is
over sets: the numbers where a claim fails have no least one. This is also how finite lists, places and counts are treated elsewhere.

Assumptions. Every `ASSUME` is named in the module that declares the constants and TLC evaluates it on the instance:
conversions and exports have the type of the decoded structs (`ChainHashing`, `EvidenceChain`, `ReviewRecord`); clocks and bounds are
numbers (`Anchoring`, `ReviewRecord`, `Provenance`); the loader refuses duplicate rule ids and the validator duplicate
element ids (`RulesAssumption`, `ElementsAssumption`), what a root names holds facts (`FactsAssumption`); an export has the members its
manifest lists, a report the packs whose hash it states, and a reviewer's key list verifies nothing the organisation did not
sign (`BundleRun`: `ExportsAssumption`, `PacksAssumption`, `SealsAssumption`, and `OursAssumption` on what an export of the
organisation is); provenance keys are pointers of elements, members and root attributes with no member below
another, and the key limit leaves room for every element (`Sidecar`). A graph is finite, its edges end at its nodes and
`pathAvoidingType` names one type (`WalksAssumption`); a row of the policy table has finitely many entries, all of them
integers like the tenant's values, and "unset" is none of them (`PolicyAssumption`); the digests that order a draw by seed differ for different clauses (`SampleAssumption`). A stored document decodes
into the struct and, if its version is known, keeps the rules of that version, its sidecar names elements and members it
has, and one of the two names the model tries for a new identity is free (`StoredAssumption`; `freeID` counts on until one is).

Every property of a passing run is a theorem; none is left to TLC alone. No liveness is stated, and nothing about ENABLED.

## 5. What the models leave out

- Hashes and signatures are ideal; token decoding and the cryptography behind it are a verdict.
  `NotBefore` of an authority and skew between clocks are not modelled.
- A passing anchor vouches for the events before its head only where the links up to it hold
  (`LinksHold` in `PassIsWhatWasSigned`); the code reports the two as separate checks and so does the model.
- The product's store is modelled only as far as its exports show it. Receipts with empty fields do not occur.
- A re-anchor receipt made after the earlier authority expired is accepted by the code, which asks only for
  a strictly later time; the model does the same and no property says otherwise.
- `SilenceLasts` speaks of rules that read facts under the names they require them by. A rule that
  requires `e.from.x` and reads `e.to.x` may fire on a self-loop after it was reported
  decided; the shipped packs have none.
- Engine timeouts are "this evaluation may be cut off here". In the re-run a rule that did not
  finish is only information, and the findings can pass with it (`hurried`).
- BundleRun: members that a bundle may lack without a check (`custody.json`, `sample.json`, the review
  record) are not tied to the report by a strict pass; `HonestNeverFails` is about bundles, a
  lone report being re-run under the default policy, as documented. A pack hash of another format, zip limits, `--policy`, `--roots`,
  `--reviewer-keys`, causes, per-pack differences and the content of review records are not modelled; a lost
  pack takes its directory with it.
- Provenance: a member's key below another member's (`PointerAssumption`), dates of declarations, notes, groups and identities, per-entry signature state and cadence, the
  scan of keys for secrets. The ends of an edge a model does not hold are those its source states (`Tidy`). Observed, without a property: compaction folds
  a person's attribute key into the element's key, and a later import of the element then makes the untouched attribute
  imported; drift of an import is forgotten once all entries of the latest import are gone; a drifted node that is
  observed cannot be removed by the offered patch.
- ReviewRecord: the printed lines, messages, and the parsing of the reviewer's own key file.
- GraphWalks: the order of an answer, `dataZones` and the projection of elements. `writersInto` is
  modelled but has no reference beside its definition. The key of `upstreamAvoiding`'s cache joins its lists,
  so that the lists `[]` and `[""]` share an entry although they block differently; no shipped rule writes the latter.
- PolicyTable: loading and regions. Enabling the first regime may lower a number below the default, as documented.
  An entry key is cut at its first "_", so that a table that wrote an alias containing one would never match.
- SampleSheet: the upper limit of a sample's size (500). A member the manifest lists and the bundle lacks is treated as absent, because the read
  returns before the manifest is asked; a lost `custody.json` turns an imported record into a declared one, and
  `PatchesAreListed` leaves a lost `patches.json` out. A row with another open finding is scoped to its
  elements and does not list the patch that fixed a finding on another element, as documented. A listed clause
  of the population outside the stratum is neither drawn nor reported as outside the population.
- ModelDocument: attributes are one of each kind the code treats differently; the length limit and the
  separators of a note are left out, as are findings' texts.

Not modelled at all, because they are stateless handling of text or bytes: timestamp tokens, diagrams, corpus,
secret scan, decoration, loading of packs, command lines, SARIF.

## 6. Plan

Done: the verifier's chain, anchors, run, review records and samples; the engine with its graph and policy;
models, migration and provenance; proofs of every safety property of the runs. Next:
spot checks and detached signatures, causes and the rendering of patches, the gates of `assure-check`.
