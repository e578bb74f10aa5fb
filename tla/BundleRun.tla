----------------------------- MODULE BundleRun -----------------------------
(***************************************************************************)
(* A run of the verifier over a reviewer bundle or a lone report           *)
(* (verify/verify.go Run, manifest.go, input.go read, reproduce.go,        *)
(* asof.go, records.go, advisories.go, report.go, cli.go).  The            *)
(* organisation exports a bundle; the copy a reviewer holds may have lost, *)
(* damaged or mixed up members by then; the run goes through it member     *)
(* after member and ends with a result and an exit code.                   *)
(*                                                                         *)
(* A content stands for its own sha256.  What the checks within a chain    *)
(* export find is EvidenceChain's and Anchoring's: here a chain comes with *)
(* its statuses and its intact hashes.                                     *)
(***************************************************************************)
EXTENDS KeyList, FiniteSets

CONSTANTS
  Member,      \* the members of a bundle, its manifest aside
  Absent,      \* a member a copy does not hold
  Unreadable,  \* a member that cannot be read (longer than the limit)
  Everything,  \* source.listed before a manifest was read: every member may be read
  Nothing,     \* no report, no chain, no snapshot, no packs to go on with
  Exports,     \* what was exported: records of files, manifest and zipSig
  Ours,        \* the exports of the organisation whose key list a reviewer asks for
  Settings,    \* how the verifier may be called
  Reports, Chains, KeyLists, Envelopes, Rows, Records,  \* what the contents of these members say
  Rule,                 \* the rules of all packs
  Results(_, _, _, _),  \* the rules that fire: packs, snapshot, time, policy
  DefaultPolicy,        \* the policy a bundle without policy.json is re-run under
  UpdatedAt,            \* each snapshot's updated_at
  MaxEdits              \* bound of the model: edits of a copy

VARIABLES
  export,    \* what was exported
  files,     \* the copy: the content of each member
  manifest,  \* the copy's manifest.json
  zipSig,    \* the signature beside the zip
  edits,     \* how often the copy was changed
  options,   \* the call: kind, keys, rules, lax (--allow-pack-mismatch), advisories, strict,
             \* and now, the time it runs at
  pc,        \* the next check
  listed,    \* source.listed
  keys,      \* the keyring's list
  chain,     \* the chain state: a chain content, or Nothing
  doc,       \* the report being verified: a report content, or Nothing
  snapshot,  \* the snapshot to re-run the rules on, or Nothing
  packs,     \* the packs to re-run, or Nothing
  clock,     \* the time the re-run reads, NoTime before it
  hurried,   \* the rules of the re-run that did not finish
  checks,    \* Report.Checks: pairs of name and status
  exit       \* the exit code at the end, -1 before

copy == <<export, files, manifest, zipSig, edits>>
found == <<listed, keys, chain, doc, snapshot, packs, clock, hurried>>
vars == <<copy, options, pc, found, checks, exit>>

Bundle == options.kind # "report"
Opens(content) == content \notin {Absent, Unreadable, Damaged}

Status == {"pass", "fail", "not_checked", "flag", "info"}
CheckName ==
  {"manifest", "members", "keys.json", "key list", "chain", "record rows", "report", "report signature",
   "report chain head", "corpus", "snapshot", "snapshot hash", "rule packs", "pack hash", "findings",
   "policy", "rule errors", "bundle signature", "sample signature", "review record", "advisories", "key"}

\* What the formats make of a member that can be read.
ASSUME FormatAssumption ==
  /\ {"chain", "report", "reportSig", "keys", "snapshot", "corpus", "rules", "policy", "custody",
      "sample", "sampleSig", "record"} \subseteq Member
  /\ \A r \in DOMAIN Reports : Reports[r].snapshot \in {Nothing, Damaged} \cup DOMAIN UpdatedAt
  /\ \A c \in DOMAIN Chains : Chains[c].statuses \subseteq Status
  /\ \A v \in DOMAIN Records : Records[v].statuses \subseteq Status
  /\ MaxEdits \in Nat /\ \A members \in SUBSET Member : members # Everything
  /\ Absent \notin DOMAIN UpdatedAt

\* An export is of these forms, and its manifest lists what it holds.
ASSUME ExportsAssumption ==
  \A x \in Exports :
    /\ x.files = [m \in Member |-> x.files[m]] /\ \A m \in Member : x.files[m] # Nothing
    /\ Opens(x.manifest) =>
         x.manifest.items = [m \in {n \in Member : x.files[n] # Absent} |-> x.files[m]]
    /\ x.files["rules"] # NoHash
    /\ Opens(x.files["chain"]) => x.files["chain"] \in DOMAIN Chains
    /\ Opens(x.files["report"]) => x.files["report"] \in DOMAIN Reports
    /\ Opens(x.files["reportSig"]) => x.files["reportSig"] \in DOMAIN Envelopes
    /\ Opens(x.files["snapshot"]) => x.files["snapshot"] \in DOMAIN UpdatedAt
    /\ Opens(x.files["record"]) => x.files["record"] \in DOMAIN Records

\* The calls there are; no set of packs and no entry of an advisory list is the missing hash.
ASSUME SettingsAssumption ==
  \A o \in Settings :
    /\ o.kind \in {"zip", "dir", "report"} /\ o.rules \notin {NoHash, Nothing}
    /\ o.advisories \notin {Absent, Damaged, Unreadable} => NoHash \notin o.advisories

\* A report lists the packs whose hash it states, and they can be read.
ASSUME PacksAssumption ==
  \A r \in DOMAIN Reports :
    /\ Reports[r].own["packs"] # NoHash => Reports[r].lists = {Reports[r].own["packs"]}
    /\ Reports[r].own["packs"] \notin {Damaged, Unreadable}

\* A seal cannot be made without its key: where a key list a reviewer asks for verifies the
\* signature beside a report, that report is one the organisation signed and exported.
ASSUME SealsAssumption ==
  \A o \in Settings, x \in Exports :
    LET sig == x.files["reportSig"] file == Envelopes[sig].file IN
    /\ o.keys \notin {NoKeys, Damaged} /\ Opens(sig)
    /\ Verifies(o.keys, Envelopes[sig]) /\ file \in DOMAIN Reports
    => \E e \in Ours : file = e.files["report"] /\ Reports[file].state = "signed"

\* Mistakes (names with a suffix, used by no specification): an undecodable content is gone
\* on with, what is not listed is read, unlisted members are no problem, the bundle's own key
\* list counts first, a signed report without its signature passes, unlisted packs are
\* loaded, the re-run reads the verifier's clock, advisories are read for the loaded packs.
Decoded_Damaged(raw) == IF raw \in {Absent, Unreadable} THEN Nothing ELSE raw

\* What of a content the run goes on with.
Decoded(raw) == IF Opens(raw) THEN raw ELSE Nothing


\* source.read: once a manifest was read, only what it lists is there.
Read_Any(m) == files[m]
Read(m) == IF listed = Everything \/ m \in listed THEN files[m] ELSE Absent

\* Report.add.
Add(more) == checks' = checks \cup more

Init ==
  /\ export \in Exports /\ options \in Settings
  /\ files = export.files /\ manifest = export.manifest /\ zipSig = export.zipSig
  /\ edits = 0
  /\ pc = "start" /\ listed = Everything /\ keys = NoKeys
  /\ chain = Nothing /\ doc = Nothing /\ snapshot = Nothing /\ packs = Nothing
  /\ clock = NoTime /\ hurried = {} /\ checks = {} /\ exit = -1

----------------------------------------------------------------------------
(* What the organisation exports, and the key lists it publishes.          *)

\* The lists a reviewer may bring whose entries all can be used, and the one in the export.
PublishedLists(x) ==
  {list \in {o.keys : o \in Settings} \ {NoKeys, Damaged} :
     \A i \in 1..Len(list) : Usable(list, list[i].id)}
  \cup {KeyLists[k] : k \in {x.files["keys"]} \ {Absent}}

\* The signature, if there is one, is the holder's over the file, and a key list lists its key as
\* the signature states it.
IsSigned(sig, file, own, lists) ==
  sig # Absent =>
    LET e == Envelopes[sig] IN
    /\ Opens(sig) /\ e # Damaged /\ e.file = file /\ Agrees(own, e)
    /\ e.at # NoTime /\ e.seal # Damaged
    /\ \A list \in lists : Verifies(list, e) /\ MatchesListed(KeyOf(list, e.key), e)

\* The model, the packs, the time and the policy a report is of.
SnapshotOf(x) ==
  LET embedded == Reports[x.files["report"]].snapshot IN
  IF embedded = Nothing THEN x.files["snapshot"] ELSE embedded
PacksOf(x) ==
  IF x.files["rules"] # Absent THEN x.files["rules"] ELSE Reports[x.files["report"]].own["packs"]
TimeOf(x) ==
  LET generated == Reports[x.files["report"]].generated IN
  IF generated # NoTime THEN generated ELSE UpdatedAt[SnapshotOf(x)]
PolicyOf(x) == IF x.files["policy"] # Absent THEN x.files["policy"] ELSE DefaultPolicy

\* The members of one of the organisation's exports are of one model, one chain and one set of
\* packs, at one time.
ASSUME OursAssumption ==
  Ours \subseteq Exports /\ \A x \in Ours :
    LET f == x.files
        r == Reports[f["report"]]
        stated(field, content) == r.own[field] \in {NoHash, content}
    IN
    /\ Opens(x.manifest) /\ f["report"] # Absent
    /\ \A m \in Member : f[m] \notin {Damaged, Unreadable}
    /\ \A list \in PublishedLists(x) : \A i \in 1..Len(list) :
         CustodyStatus(list, list[i].id) = "info"
    /\ f["reportSig"] = Absent => r.state # "signed"
    /\ IsSigned(f["reportSig"], f["report"], r.own, PublishedLists(x))
    /\ IsSigned(f["sampleSig"], f["sample"], Unstated, PublishedLists(x))
    /\ IsSigned(x.zipSig, <<f, x.manifest>>, Unstated, PublishedLists(x))
    /\ f["chain"] # Absent =>
         /\ "fail" \notin Chains[f["chain"]].statuses
         /\ r.own["head"] \in Chains[f["chain"]].intact \cup {NoHash}
         /\ f["custody"] # Absent => Rows[f["custody"]] \subseteq Chains[f["chain"]].records
    /\ f["record"] # Absent =>
         Records[f["record"]].arch = r.arch /\ "fail" \notin Records[f["record"]].statuses
    /\ f["corpus"] # Absent => stated("corpus", f["corpus"])
    /\ f["snapshot"] \in {Absent, SnapshotOf(x)} /\ SnapshotOf(x) # Damaged
    /\ stated("snapshot", SnapshotOf(x)) /\ stated("packs", PacksOf(x))
    /\ SnapshotOf(x) # Absent /\ PacksOf(x) # NoHash =>
         /\ TimeOf(x) # NoTime
         /\ Results(PacksOf(x), SnapshotOf(x), TimeOf(x), PolicyOf(x)) = r.results

----------------------------------------------------------------------------
(* Before the run: the copy changes.                                       *)

Edit ==
  /\ pc = "start" /\ edits < MaxEdits /\ edits' = edits + 1
  /\ UNCHANGED <<export, options, pc, found, checks, exit>>

DamageMember == Edit /\ UNCHANGED <<manifest, zipSig>> /\ \E m \in Member, bad \in {Absent, Damaged, Unreadable} :
  files[m] # Absent /\ files' = [files EXCEPT ![m] = bad]

DamageManifest == Edit /\ UNCHANGED <<files, zipSig>> /\ manifest' \in {Absent, Damaged, Unreadable}

LoseZipSignature == Edit /\ UNCHANGED <<files, manifest>> /\ zipSig' \in {Absent, Damaged, Unreadable}

\* A member comes from another export.
MixUp == Edit /\ UNCHANGED <<manifest, zipSig>> /\ \E m \in Member, other \in Exports :
  other.files[m] # files[m] /\ files' = [files EXCEPT ![m] = other.files[m]]

\* The manifest is written anew over what the copy holds.
Relist ==
  /\ Edit /\ Opens(manifest) /\ UNCHANGED <<files, zipSig>>
  /\ manifest' = [items |-> [m \in {n \in Member : files[n] # Absent} |-> files[m]],
                  produced |-> manifest.produced, arch |-> manifest.arch]

----------------------------------------------------------------------------
(* open, --keys and the manifest.                                          *)

\* --keys does not parse, or a lone file is no report: the run cannot start.
CannotStart ==
  /\ pc = "start"
  /\ options.keys = Damaged \/ (~Bundle /\ ~Opens(files["report"]))
  /\ pc' = "end" /\ exit' = 2 /\ UNCHANGED <<copy, options, found, checks>>

Open ==
  /\ pc = "start" /\ options.keys # Damaged /\ (Bundle \/ Opens(files["report"]))
  /\ pc' = IF Bundle THEN "manifest" ELSE "keys"
  /\ UNCHANGED <<copy, options, found, checks, exit>>

Step(from, to) == pc = from /\ pc' = to /\ UNCHANGED <<copy, options, exit>>

NoManifest ==
  /\ Step("manifest", "keys") /\ ~Opens(manifest)
  /\ Add({<<"manifest", IF manifest = Absent THEN "not_checked" ELSE "fail">>})
  /\ listed' = IF manifest = Damaged THEN {} ELSE listed
  /\ UNCHANGED <<keys, chain, doc, snapshot, packs, clock, hurried>>

\* The members whose sha256 is the listed one, and the others' shortcomings.
Matched == {m \in DOMAIN manifest.items : files[m] # Unreadable /\ files[m] = manifest.items[m]}
Problems_Listed == DOMAIN manifest.items \ Matched
Problems == {m \in Member : IF m \in DOMAIN manifest.items THEN m \notin Matched ELSE files[m] # Absent}

MembersStatus == IF Problems = {} THEN "pass" ELSE "fail"

VerifyManifest ==
  /\ Step("manifest", "keys") /\ Opens(manifest)
  /\ Add({<<"members", MembersStatus>>})
  /\ listed' = Matched
  /\ UNCHANGED <<keys, chain, doc, snapshot, packs, clock, hurried>>

----------------------------------------------------------------------------
(* keysFor.                                                                *)

BundledKeys == IF Bundle /\ Opens(Read("keys")) THEN KeyLists[Read("keys")] ELSE NoKeys

\* The bundle lists a key of the reviewer's list with another public key.
Disagrees(mine, bundled) ==
  \E j \in 1..Len(bundled) : LET listings == Entries(mine, bundled[j].id) IN
    \E i \in listings : (\A k \in listings : k <= i) /\ mine[i].pub # bundled[j].pub

KeyListUsed_Bundled == IF BundledKeys # NoKeys THEN BundledKeys ELSE options.keys
KeyListUsed == IF options.keys # NoKeys THEN options.keys ELSE BundledKeys

KeysFor ==
  /\ Step("keys", IF Bundle THEN "chain" ELSE "report")
  /\ keys' = KeyListUsed
  /\ Add((IF Bundle /\ Read("keys") \in {Unreadable, Damaged} THEN {<<"keys.json", "fail">>} ELSE {})
         \cup (IF options.keys # NoKeys /\ BundledKeys # NoKeys
               THEN {<<"keys.json", IF Disagrees(options.keys, BundledKeys) THEN "fail" ELSE "pass">>} ELSE {})
         \cup {<<"key list", IF KeyListUsed = NoKeys THEN "not_checked" ELSE "info">>})
  /\ UNCHANGED <<listed, chain, doc, snapshot, packs, clock, hurried>>

----------------------------------------------------------------------------
(* The chain export, and the record rows that refer to it.                 *)

CheckChain ==
  /\ Step("chain", "rows")
  /\ LET raw == Read("chain") IN
     /\ Add({"chain"} \X (IF raw = Absent THEN {"not_checked"} ELSE IF ~Opens(raw) THEN {"fail"}
                          ELSE Chains[raw].statuses))
     /\ chain' = Decoded(raw)
  /\ UNCHANGED <<listed, keys, doc, snapshot, packs, clock, hurried>>

RowsStatus(raw) ==
  IF ~Opens(raw) THEN "fail"
  ELSE IF chain # Nothing /\ ~(Rows[raw] \subseteq Chains[chain].records) THEN "fail"
  ELSE IF chain = Nothing THEN "not_checked" ELSE "pass"

CheckRecordRows ==
  /\ Step("rows", "report")
  /\ LET raw == Read("custody") IN
     Add(IF raw = Absent \/ (Opens(raw) /\ Rows[raw] = {}) THEN {} ELSE {<<"record rows", RowsStatus(raw)>>})
  /\ UNCHANGED found

----------------------------------------------------------------------------
(* verifyReport.                                                           *)

AfterReport == CASE options.kind = "zip" -> "zip" [] options.kind = "dir" -> "sample" [] OTHER -> "advisories"

ReportMeant == IF Bundle THEN Read("report") ELSE files["report"]

OpenReport ==
  /\ Step("report", IF Opens(ReportMeant) THEN "signature" ELSE AfterReport)
  /\ doc' = Decoded(ReportMeant)
  /\ Add({<<"report", IF Opens(ReportMeant) THEN "info"
                      ELSE IF ReportMeant = Absent THEN "not_checked" ELSE "fail">>})
  /\ UNCHANGED <<listed, keys, chain, snapshot, packs, clock, hurried>>

\* The status of a detached signature that is there.
Judged(sig, file, own) ==
  IF sig = Unreadable THEN "fail"
  ELSE EnvelopeStatus(keys, file, IF sig = Damaged THEN Damaged ELSE Envelopes[sig], own)

UnsignedStatus_Trusted == "info"
UnsignedStatus == IF Reports[doc].state = "signed" /\ Bundle THEN "fail" ELSE "not_checked"

SignatureStatus ==
  LET sig == Read("reportSig") IN
  IF sig = Absent THEN UnsignedStatus ELSE Judged(sig, doc, Reports[doc].own)

CheckSignature ==
  /\ Step("signature", "head") /\ Add({<<"report signature", SignatureStatus>>})
  /\ UNCHANGED found

HeadStatus ==
  LET head == Reports[doc].own["head"] IN
  IF head = NoHash \/ chain = Nothing THEN "not_checked"
  ELSE IF head \in Chains[chain].intact THEN "pass" ELSE "fail"

CheckHead ==
  /\ Step("head", IF Bundle THEN "corpus" ELSE "snapshot")
  /\ Add({<<"report chain head", HeadStatus>>})
  /\ UNCHANGED found

CorpusStatus ==
  LET raw == Read("corpus") want == Reports[doc].own["corpus"] IN
  IF raw = Unreadable THEN "fail" ELSE IF raw = Absent \/ want = NoHash THEN "not_checked"
  ELSE IF raw = want THEN "pass" ELSE "fail"

CheckCorpus ==
  /\ Step("corpus", "snapshot") /\ Add({<<"corpus", CorpusStatus>>})
  /\ UNCHANGED found

\* checkSnapshot: the embedded snapshot, or snapshot.json where the report embeds none.
Embedded == Reports[doc].snapshot
SnapshotFile == IF Bundle THEN Read("snapshot") ELSE Absent
FileIsThere == SnapshotFile \notin {Absent, Unreadable}
SnapshotMeant == IF Embedded = Nothing /\ FileIsThere THEN SnapshotFile ELSE Embedded

SnapshotIsBad ==
  \/ Embedded # Nothing /\ FileIsThere /\ SnapshotFile # Embedded
  \/ SnapshotMeant = Damaged
  \/ Reports[doc].own["snapshot"] \notin {NoHash, SnapshotMeant}

SnapshotFound == IF SnapshotMeant = Nothing \/ SnapshotIsBad THEN Nothing ELSE SnapshotMeant

SnapshotChecks ==
  (IF SnapshotFile = Unreadable THEN {<<"snapshot", "fail">>} ELSE {})
  \cup {IF SnapshotMeant = Nothing THEN <<"snapshot", "not_checked">>
        ELSE IF SnapshotIsBad THEN <<"snapshot", "fail">>
        ELSE <<"snapshot hash", IF Reports[doc].own["snapshot"] = NoHash THEN "not_checked" ELSE "pass">>}

CheckSnapshot ==
  /\ Step("snapshot", "packs") /\ Add(SnapshotChecks)
  /\ snapshot' = SnapshotFound
  /\ UNCHANGED <<listed, keys, chain, doc, packs, clock, hurried>>

----------------------------------------------------------------------------
(* reproduce.                                                              *)

\* packFiles: a bundle's own packs when it has any, of them those listed; else --rules.
PacksOffered_Unlisted == IF Bundle /\ files["rules"] # Absent THEN files["rules"] ELSE options.rules
PacksOffered ==
  IF Bundle /\ files["rules"] # Absent THEN (IF Read("rules") = Absent THEN Damaged ELSE files["rules"])
  ELSE options.rules

PackHashStatus(offered) ==
  LET want == Reports[doc].own["packs"] IN
  IF want = NoHash THEN "not_checked" ELSE IF offered = want THEN "pass" ELSE IF options.lax THEN "flag" ELSE "fail"

PacksLoad == Opens(PacksOffered) /\ PackHashStatus(PacksOffered) # "fail"
PacksFound == IF PacksLoad THEN PacksOffered ELSE Nothing

PackChecks ==
  {IF Opens(PacksOffered) THEN <<"pack hash", PackHashStatus(PacksOffered)>>
   ELSE <<"rule packs", IF PacksOffered = Absent THEN "not_checked" ELSE "fail">>}

LoadPacks ==
  /\ Step("packs", IF PacksLoad /\ snapshot # Nothing THEN "rerun" ELSE AfterReport)
  /\ packs' = PacksFound /\ Add(PackChecks)
  /\ UNCHANGED <<listed, keys, chain, doc, snapshot, clock, hurried>>

\* Read of manifest.json: a manifest that was checked is not among the members it lists.
ManifestAgain == IF Bundle /\ listed = Everything THEN manifest ELSE Absent

\* evaluationClock.
ProducedAt == IF Opens(ManifestAgain) THEN ManifestAgain.produced ELSE NoTime

EvaluationClock_Now == options.now
EvaluationClock ==
  IF ProducedAt # NoTime THEN ProducedAt
  ELSE IF Reports[doc].generated # NoTime THEN Reports[doc].generated
  ELSE IF UpdatedAt[snapshot] # NoTime THEN UpdatedAt[snapshot] ELSE options.now

\* Reproduce: a rule that does not finish produces nothing, and is told of as information.
Reproduce ==
  /\ Step("rerun", AfterReport)
  /\ clock' = EvaluationClock /\ hurried' \in SUBSET Rule
  /\ LET raw == IF Bundle THEN Read("policy") ELSE Absent
         got == Results(packs, snapshot, clock', IF Opens(raw) THEN raw ELSE DefaultPolicy) \ hurried'
     IN Add({<<"findings", IF got = Reports[doc].results THEN "pass" ELSE "fail">>}
            \cup (IF raw \in {Unreadable, Damaged} THEN {<<"policy", "fail">>} ELSE {})
            \cup (IF hurried' # {} THEN {<<"rule errors", "info">>} ELSE {}))
  /\ UNCHANGED <<listed, keys, chain, doc, snapshot, packs>>

----------------------------------------------------------------------------
(* The other signatures, the advisories, the custody of the keys, the end. *)

CheckBundleSignature ==
  /\ Step("zip", "sample")
  /\ Add({<<"bundle signature", IF zipSig = Absent THEN "not_checked"
                                ELSE Judged(zipSig, <<files, manifest>>, Unstated)>>})
  /\ UNCHANGED found

CheckSampleSignature ==
  /\ Step("sample", "review")
  /\ LET sample == Read("sample") sig == Read("sampleSig") IN
     Add(IF sample = Absent THEN {}
         ELSE {<<"sample signature", IF sample = Unreadable THEN "fail" ELSE IF sig = Absent THEN "not_checked"
                                     ELSE Judged(sig, sample, Unstated)>>})
  /\ UNCHANGED found

\* checkReviewRecord, up to whether the record is this bundle's.
BundleArchs ==
  (IF Opens(ManifestAgain) THEN {ManifestAgain.arch} ELSE {})
  \cup (IF doc = Nothing THEN {} ELSE {Reports[doc].arch})

CheckReviewRecord ==
  /\ Step("review", "advisories")
  /\ LET raw == Read("record") IN
     Add({"review record"} \X (IF raw = Absent THEN {"info"} ELSE IF ~Opens(raw) THEN {"fail"}
                               ELSE IF BundleArchs \subseteq {Records[raw].arch} THEN Records[raw].statuses
                               ELSE {"fail"}))
  /\ UNCHANGED found

\* The packs the input pins: those loaded when they are the report's, else those it lists.
Pinned_Loaded == IF packs # Nothing THEN {packs} ELSE IF doc = Nothing THEN {} ELSE Reports[doc].lists
Pinned ==
  IF doc = Nothing THEN {}
  ELSE IF packs \notin {Nothing, NoHash} /\ packs = Reports[doc].own["packs"] THEN {packs} ELSE Reports[doc].lists

CannotReadAdvisories ==
  /\ pc = "advisories" /\ options.advisories = Unreadable
  /\ pc' = "end" /\ exit' = 2 /\ UNCHANGED <<copy, options, found, checks>>

CheckAdvisories ==
  /\ options.advisories # Unreadable /\ Step("advisories", "custody")
  /\ Add(IF options.advisories = Absent THEN {<<"advisories", "not_checked">>}
         ELSE IF options.advisories = Damaged THEN {<<"advisories", "fail">>}
         ELSE {<<"advisories", IF Pinned = {} THEN "not_checked"
                               ELSE IF Pinned \cap options.advisories # {} THEN "flag" ELSE "pass">>})
  /\ UNCHANGED found

Custody ==
  /\ Step("custody", "finish")
  /\ Add(IF keys = NoKeys THEN {} ELSE {<<"key", CustodyStatus(keys, keys[i].id)>> : i \in 1..Len(keys)})
  /\ UNCHANGED found

AnyCheck(status) == \E c \in checks : c[2] = status

\* Report.finish, OK, and Main's exit code.
Finish ==
  /\ pc = "finish" /\ pc' = "end"
  /\ exit' = IF AnyCheck("fail") \/ (options.strict /\ AnyCheck("not_checked")) THEN 1 ELSE 0
  /\ UNCHANGED <<copy, options, found, checks>>

Before == DamageMember \/ DamageManifest \/ LoseZipSignature \/ MixUp \/ Relist
Run ==
  \/ CannotStart \/ Open \/ NoManifest \/ VerifyManifest \/ KeysFor \/ CheckChain \/ CheckRecordRows
  \/ OpenReport \/ CheckSignature \/ CheckHead \/ CheckCorpus \/ CheckSnapshot \/ LoadPacks \/ Reproduce
  \/ CheckBundleSignature \/ CheckSampleSignature \/ CheckReviewRecord \/ CheckAdvisories \/ CannotReadAdvisories \/ Custody
  \/ Finish
Next == Before \/ Run
Spec == Init /\ [][Next]_vars

----------------------------------------------------------------------------
(* Properties.                                                             *)

Checked(name, statuses) == \E s \in statuses : <<name, s>> \in checks
Unedited == files = export.files /\ manifest = export.manifest /\ zipSig = export.zipSig

\* Each variable has its type; a member of the copy comes from an export, or is gone or broken.
TypeOK ==
  /\ export \in Exports /\ options \in Settings
  /\ files = [m \in Member |-> files[m]] /\ edits \in 0..MaxEdits
  /\ \A m \in Member : files[m] \in {x.files[m] : x \in Exports} \cup {Absent, Damaged, Unreadable}
  /\ Opens(manifest) => DOMAIN manifest.items \subseteq Member
  /\ listed = Everything \/ listed \subseteq Member
  /\ doc = Nothing \/ doc \in DOMAIN Reports
  /\ chain = Nothing \/ chain \in DOMAIN Chains
  /\ snapshot = Nothing \/ snapshot \in DOMAIN UpdatedAt
  /\ hurried \subseteq Rule /\ exit \in -1..2
  /\ checks \subseteq CheckName \X Status

\* An export that nobody touched never fails, whenever it is verified and whether the reviewer
\* brings the published keys or the bundle's own list counts (asof.go: a valid bundle reproduces
\* whenever it is verified; keys.go: a key retired later still verifies what it signed before).
\* Not so: a bundle without packs against others, a key listed twice, a damaged advisory list,
\* a re-run in a hurry.
HonestNeverFails ==
  (/\ exit \in {0, 1} /\ Bundle /\ Unedited /\ export \in Ours /\ hurried = {}
   /\ options.advisories # Damaged
   /\ options.keys # NoKeys => \A i \in 1..Len(options.keys) : Usable(options.keys, options.keys[i].id)
   /\ export.files["rules"] # Absent \/ options.rules \in {Absent, Reports[export.files["report"]].own["packs"]})
    => ~AnyCheck("fail")

\* Under the exported manifest no change of a member, no loss and no addition goes unnoticed,
\* whatever the other checks found (manifest.go verifyManifest).
EditShows ==
  (exit \in {0, 1} /\ Bundle /\ Opens(export.manifest) /\ manifest = export.manifest /\ files # export.files)
    => exit = 1

\* What a run goes on with after it read a manifest is what that manifest lists: the packs as
\* much as the members read one by one (manifest.go: "From then on only members whose hash
\* matched are read").
OnlyListedIsUsed ==
  (Bundle /\ listed # Everything) =>
    /\ chain # Nothing => "chain" \in listed
    /\ doc # Nothing => "report" \in listed
    /\ (packs # Nothing /\ files["rules"] # Absent) => "rules" \in listed
    /\ (snapshot # Nothing /\ Reports[doc].snapshot = Nothing) => "snapshot" \in listed
    /\ (keys # NoKeys /\ options.keys = NoKeys) => "keys" \in listed

\* A strict pass with the organisation's own key list is about one thing the organisation
\* signed: the members may be mixed up and the manifest rewritten, still the report is one of
\* its reports, its chain holds that report's head, and the snapshot, the corpus and the packs
\* (another pack set only where the reviewer allowed it, and flagged) are that report's.
StrictPassIsWhatWasSigned ==
  (exit = 0 /\ options.strict /\ Bundle /\ options.keys # NoKeys) =>
    \E e \in Ours :
      LET own == Reports[e.files["report"]].own IN
      /\ doc = e.files["report"] /\ Reports[doc].state = "signed"
      /\ own["head"] \in Chains[chain].intact
      /\ snapshot = own["snapshot"] /\ Read("corpus") = own["corpus"]
      /\ packs = own["packs"] \/ (options.lax /\ Checked("pack hash", {"flag"}))
      /\ Checked("findings", {"pass"})

\* An advisory list passes only where it was read against the packs the report pins, whichever
\* packs were loaded for the re-run (advisories.go checkAdvisories).
AdvisoriesAreForThePinned ==
  Checked("advisories", {"pass"}) =>
    Reports[doc].own["packs"] \notin options.advisories /\ Reports[doc].lists \cap options.advisories = {}

\* The doc comment of evaluationClock (asof.go:10-11): the re-run of a bundle reads the bundle's
\* produced_at.  It does not: the manifest is never among the members the manifest lists.
RerunIsAtProducedAt ==
  (clock # NoTime /\ Bundle /\ Unedited /\ Opens(manifest)) => clock = manifest.produced

\* The comment in checkReviewRecord (reviewrecord.go:394-395): the architecture a review record
\* names is the manifest's and the report's.  Only the report's is compared once the manifest
\* was checked, and a bundle without a report takes any record.
RecordIsOfThisBundle ==
  (exit \in {0, 1} /\ Bundle /\ Opens(manifest) /\ Opens(Read("record"))
   /\ Records[Read("record")].arch # manifest.arch) => Checked("review record", {"fail"})
----------------------------------------------------------------------------
(* The inductive invariant behind the properties.                          *)

\* The checks up to one, in the order of the run.
UpToManifest == {"start", "manifest"}
UpToKeys == UpToManifest \cup {"keys"}
UpToChain == UpToKeys \cup {"chain"}
UpToReport == UpToChain \cup {"rows", "report"}
UpToSignature == UpToReport \cup {"signature"}
UpToHead == UpToSignature \cup {"head"}
UpToCorpus == UpToHead \cup {"corpus"}
UpToSnapshot == UpToCorpus \cup {"snapshot"}
UpToPacks == UpToSnapshot \cup {"packs"}
UpToRerun == UpToPacks \cup {"rerun"}
UpToAdvisories == UpToRerun \cup {"zip", "sample", "review", "advisories"}
UpToFinish == UpToAdvisories \cup {"custody", "finish"}

\* The run is past a check: it ended elsewhere than at its start.
Past(upTo) == pc \notin upTo /\ (exit = 2 => checks # {})

\* Nothing is found before its check, and a check runs only where there is something to check.
StageInv ==
  /\ pc \in UpToFinish \cup {"end"} /\ (exit = -1 <=> pc # "end")
  /\ pc = "start" => checks = {}
  /\ pc \notin UpToKeys => checks # {} \/ exit = 2
  /\ exit = 2 => checks # {} \/ listed = Everything
  /\ Past({"start"}) => options.keys # Damaged
  /\ pc \in UpToManifest => listed = Everything
  /\ pc \in UpToKeys => keys = NoKeys
  /\ pc \in UpToChain => chain = Nothing
  /\ pc \in UpToReport => doc = Nothing
  /\ pc \in UpToSnapshot => snapshot = Nothing
  /\ pc \in UpToPacks => packs = Nothing
  /\ pc \in UpToRerun => hurried = {}
  /\ pc \in {"signature", "head", "corpus", "snapshot", "packs", "rerun"} => doc # Nothing
  /\ pc = "rerun" => packs # Nothing /\ snapshot # Nothing
  /\ pc \in {"manifest", "chain", "rows", "corpus", "zip", "sample", "review"} => Bundle

\* What was found is what the copy holds, read the way it is read from the manifest on.
FoundInv ==
  /\ ~Bundle => listed = Everything /\ chain = Nothing
  /\ Bundle /\ Past(UpToManifest) =>
       listed = IF Opens(manifest) THEN Matched ELSE IF manifest = Damaged THEN {} ELSE Everything
  /\ Past(UpToKeys) => keys = KeyListUsed
  /\ Bundle /\ Past(UpToChain) => chain = Decoded(Read("chain"))
  /\ Past(UpToReport) => doc = Decoded(ReportMeant)
  /\ doc = Nothing => snapshot = Nothing /\ packs = Nothing
  /\ doc # Nothing /\ Past(UpToSnapshot) => snapshot = SnapshotFound
  /\ doc # Nothing /\ Past(UpToPacks) => packs = PacksFound

\* What the checks of a strict pass told.
ToldInv ==
  /\ Bundle /\ Opens(manifest) /\ Past(UpToManifest) => <<"members", MembersStatus>> \in checks
  /\ Past(UpToReport) /\ doc = Nothing => Checked("report", {"not_checked", "fail"})
  /\ doc # Nothing /\ Past(UpToSignature) => <<"report signature", SignatureStatus>> \in checks
  /\ doc # Nothing /\ Past(UpToHead) => <<"report chain head", HeadStatus>> \in checks
  /\ Bundle /\ doc # Nothing /\ Past(UpToCorpus) => <<"corpus", CorpusStatus>> \in checks
  /\ doc # Nothing /\ Past(UpToSnapshot) => SnapshotChecks \subseteq checks
  /\ doc # Nothing /\ Past(UpToPacks) => PackChecks \subseteq checks
  /\ packs # Nothing /\ snapshot # Nothing /\ Past(UpToRerun) => Checked("findings", {"pass", "fail"})

\* Where a run may be of an export nobody touched, nothing has failed so far.
Honest ==
  /\ exit # 2 /\ Bundle /\ Unedited /\ export \in Ours /\ hurried = {}
  /\ options.advisories # Damaged
  /\ options.keys \notin {NoKeys, Damaged} => \A i \in 1..Len(options.keys) : Usable(options.keys, options.keys[i].id)
  /\ export.files["rules"] # Absent \/ options.rules \in {Absent, Reports[export.files["report"]].own["packs"]}

HonestInv == Honest => ~AnyCheck("fail")

\* The exit code is of the checks, and an advisory list is judged once.
EndInv ==
  /\ exit \in {0, 1} => (exit = 1 <=> AnyCheck("fail") \/ (options.strict /\ AnyCheck("not_checked")))
  /\ Checked("advisories", {"pass"}) => pc \notin UpToAdvisories

IInv == TypeOK /\ StageInv /\ FoundInv /\ ToldInv /\ HonestInv /\ EndInv /\ AdvisoriesAreForThePinned
=============================================================================
