-------------------------- MODULE BundleRun_proofs ---------------------------
(***************************************************************************)
(* Proofs about a run of the verifier, for every bundle, every key list    *)
(* and every way of calling it.                                            *)
(***************************************************************************)
EXTENDS BundleRun, TLAPS

-----------------------------------------------------------------------------
(* What a step may change.                                                 *)

\* A run never changes what it looks at, and takes no check back.
LEMMA RunFrame ==
  ASSUME Run
  PROVE  UNCHANGED <<export, files, manifest, zipSig, edits, options>> /\ checks \subseteq checks'
BY DEF Run, CannotStart, Open, NoManifest, VerifyManifest, KeysFor, CheckChain, CheckRecordRows,
       OpenReport, CheckSignature, CheckHead, CheckCorpus, CheckSnapshot, LoadPacks, Reproduce,
       CheckBundleSignature, CheckSampleSignature, CheckReviewRecord, CheckAdvisories,
       CannotReadAdvisories, Custody, Finish, Step, Add, copy, found

\* Before the run a copy changes, and nothing else.
LEMMA BeforeFrame ==
  ASSUME Before
  PROVE  /\ pc = "start"
         /\ UNCHANGED <<export, options, pc, listed, keys, chain, doc, snapshot, packs, clock,
                        hurried, checks, exit>>
BY DEF Before, DamageMember, DamageManifest, LoseZipSignature, MixUp, Relist, Edit, found

-----------------------------------------------------------------------------
(* What the copy holds.                                                    *)

\* A member that opens is an export's.
LEMMA OpensExported ==
  ASSUME TypeOK, NEW m \in Member, Opens(files[m])
  PROVE  \E x \in Exports : files[m] = x.files[m]
BY DEF TypeOK, Opens

\* A member that is read is the copy's.
LEMMA ReadIs ==
  ASSUME NEW m
  PROVE  /\ Read(m) \in {files[m], Absent}
         /\ Opens(Read(m)) => Read(m) = files[m]
BY DEF Read, Opens

\* The report that is opened is one of those there are.
LEMMA ReportMeantType ==
  ASSUME TypeOK, Opens(ReportMeant)
  PROVE  ReportMeant = files["report"] /\ ReportMeant \in DOMAIN Reports /\ ReportMeant # Nothing
<1>1. ReportMeant = files["report"]
  BY ReadIs DEF ReportMeant
<1>2. "report" \in Member
  BY FormatAssumption
<1>3. PICK x \in Exports : files["report"] = x.files["report"]
  BY <1>1, <1>2, OpensExported
<1> QED
  BY <1>1, <1>2, <1>3, ExportsAssumption

\* Packs that are offered are something.
LEMMA PacksOfferedAre ==
  ASSUME TypeOK, Opens(PacksOffered)
  PROVE  PacksOffered # Nothing
<1>1. CASE Bundle /\ files["rules"] # Absent
  <2>1. PacksOffered = files["rules"] /\ "rules" \in Member
    BY <1>1, FormatAssumption DEF PacksOffered, Opens
  <2>2. PICK x \in Exports : files["rules"] = x.files["rules"]
    BY <2>1, OpensExported
  <2> QED
    BY <1>1, <2>1, <2>2, ExportsAssumption
<1>2. CASE ~(Bundle /\ files["rules"] # Absent)
  BY <1>2, SettingsAssumption DEF PacksOffered, TypeOK
<1> QED
  BY <1>1, <1>2

-----------------------------------------------------------------------------
(* The order of the checks.                                                *)

LEMMA StageInit == Init => StageInv
BY DEF Init, StageInv, UpToFinish, UpToAdvisories, UpToRerun, UpToPacks, UpToSnapshot, UpToCorpus,
       UpToHead, UpToSignature, UpToReport, UpToChain, UpToKeys, UpToManifest, Past

\* The order of the checks, spelled out.
LEMMA Order ==
  /\ UpToManifest = {"start", "manifest"}
  /\ UpToKeys = {"start", "manifest", "keys"}
  /\ UpToChain = {"start", "manifest", "keys", "chain"}
  /\ UpToReport = {"start", "manifest", "keys", "chain", "rows", "report"}
  /\ UpToSignature = {"start", "manifest", "keys", "chain", "rows", "report", "signature"}
  /\ UpToHead = {"start", "manifest", "keys", "chain", "rows", "report", "signature", "head"}
  /\ UpToCorpus = {"start", "manifest", "keys", "chain", "rows", "report", "signature", "head", "corpus"}
  /\ UpToSnapshot = {"start", "manifest", "keys", "chain", "rows", "report", "signature", "head", "corpus",
        "snapshot"}
  /\ UpToPacks = {"start", "manifest", "keys", "chain", "rows", "report", "signature", "head", "corpus",
        "snapshot", "packs"}
  /\ UpToRerun = {"start", "manifest", "keys", "chain", "rows", "report", "signature", "head", "corpus",
        "snapshot", "packs", "rerun"}
  /\ UpToAdvisories = {"start", "manifest", "keys", "chain", "rows", "report", "signature", "head", "corpus",
        "snapshot", "packs", "rerun", "zip", "sample", "review", "advisories"}
  /\ UpToFinish = {"start", "manifest", "keys", "chain", "rows", "report", "signature", "head", "corpus",
        "snapshot", "packs", "rerun", "zip", "sample", "review", "advisories", "custody",
        "finish"}
BY DEF UpToFinish, UpToAdvisories, UpToRerun, UpToPacks, UpToSnapshot, UpToCorpus, UpToHead,
       UpToSignature, UpToReport, UpToChain, UpToKeys, UpToManifest

\* Where a run goes on after the report.
LEMMA AfterReportIs ==
  ASSUME options \in Settings
  PROVE  \/ Bundle /\ AfterReport \in {"zip", "sample"}
         \/ ~Bundle /\ AfterReport = "advisories"
<1>1. options.kind \in {"zip", "dir", "report"}
  BY SettingsAssumption
<1> QED
  BY <1>1 DEF AfterReport, Bundle

\* Each check runs in its turn.
LEMMA StageStep ==
  ASSUME TypeOK, StageInv, Next
  PROVE  StageInv'
<1> USE Order DEF StageInv, Past
<1>1. CASE Before
  BY <1>1, BeforeFrame DEF Bundle
<1>r. CASE Run
  <2>0. options' = options /\ (checks # {} => checks' # {})
    BY <1>r, RunFrame
  <2>1. /\ Bundle' <=> Bundle
        /\ \/ Bundle /\ AfterReport \in {"zip", "sample"}
           \/ ~Bundle /\ AfterReport = "advisories"
    BY <2>0, AfterReportIs DEF Bundle, TypeOK
  <2>2. CASE CannotStart
    BY <2>0, <2>1, <2>2 DEF CannotStart, found
  <2>3. CASE Open
    BY <2>0, <2>1, <2>3 DEF Open, found
  <2>4. CASE NoManifest
    <3>1. /\ pc = "manifest" /\ pc' = "keys"
          /\ UNCHANGED <<keys, chain, doc, snapshot, packs, clock, hurried, exit>>
      BY <2>4 DEF NoManifest, Step, found
    <3> QED
      BY <2>0, <2>1, <3>1
  <2>5. CASE VerifyManifest
    <3>1. /\ pc = "manifest" /\ pc' = "keys"
          /\ UNCHANGED <<keys, chain, doc, snapshot, packs, clock, hurried, exit>>
      BY <2>5 DEF VerifyManifest, Step, found
    <3> QED
      BY <2>0, <2>1, <3>1
  <2>6. CASE KeysFor
    <3>1. /\ pc = "keys" /\ pc' = IF Bundle THEN "chain" ELSE "report"
          /\ UNCHANGED <<listed, chain, doc, snapshot, packs, clock, hurried, exit>>
          /\ checks' # {}
      BY <2>6 DEF KeysFor, Step, found, Add
    <3> QED
      BY <2>0, <2>1, <3>1
  <2>7. CASE CheckChain
    <3>1. /\ pc = "chain" /\ pc' = "rows"
          /\ UNCHANGED <<listed, keys, doc, snapshot, packs, clock, hurried, exit>>
      BY <2>7 DEF CheckChain, Step, found
    <3> QED
      BY <2>0, <2>1, <3>1
  <2>8. CASE CheckRecordRows
    <3>1. /\ pc = "rows" /\ pc' = "report"
          /\ UNCHANGED <<listed, keys, chain, doc, snapshot, packs, clock, hurried, exit>>
      BY <2>8 DEF CheckRecordRows, Step, found
    <3> QED
      BY <2>0, <2>1, <3>1
  <2>9. CASE OpenReport
    <3>1. /\ pc = "report" /\ pc' = IF Opens(ReportMeant) THEN "signature" ELSE AfterReport
          /\ UNCHANGED <<listed, keys, chain, snapshot, packs, clock, hurried, exit>>
          /\ doc' = Decoded(ReportMeant)
      BY <2>9 DEF OpenReport, Step, found
    <3> QED
      BY <2>0, <2>1, <3>1, ReportMeantType DEF Decoded
  <2>10. CASE CheckSignature
    <3>1. /\ pc = "signature" /\ pc' = "head"
          /\ UNCHANGED <<listed, keys, chain, doc, snapshot, packs, clock, hurried, exit>>
      BY <2>10 DEF CheckSignature, Step, found
    <3> QED
      BY <2>0, <2>1, <3>1
  <2>11. CASE CheckHead
    <3>1. /\ pc = "head" /\ pc' = IF Bundle THEN "corpus" ELSE "snapshot"
          /\ UNCHANGED <<listed, keys, chain, doc, snapshot, packs, clock, hurried, exit>>
      BY <2>11 DEF CheckHead, Step, found
    <3> QED
      BY <2>0, <2>1, <3>1
  <2>12. CASE CheckCorpus
    <3>1. /\ pc = "corpus" /\ pc' = "snapshot"
          /\ UNCHANGED <<listed, keys, chain, doc, snapshot, packs, clock, hurried, exit>>
      BY <2>12 DEF CheckCorpus, Step, found
    <3> QED
      BY <2>0, <2>1, <3>1
  <2>13. CASE CheckSnapshot
    <3>1. /\ pc = "snapshot" /\ pc' = "packs"
          /\ UNCHANGED <<listed, keys, chain, doc, packs, clock, hurried, exit>>
      BY <2>13 DEF CheckSnapshot, Step, found
    <3> QED
      BY <2>0, <2>1, <3>1
  <2>14. CASE LoadPacks
    <3>1. /\ pc = "packs" /\ pc' = IF PacksLoad /\ snapshot # Nothing THEN "rerun" ELSE AfterReport
          /\ UNCHANGED <<listed, keys, chain, doc, snapshot, clock, hurried, exit>>
          /\ packs' = PacksFound
      BY <2>14 DEF LoadPacks, Step, found
    <3> QED
      BY <2>0, <2>1, <3>1, PacksOfferedAre DEF PacksFound, PacksLoad
  <2>15. CASE Reproduce
    <3>1. /\ pc = "rerun" /\ pc' = AfterReport
          /\ UNCHANGED <<listed, keys, chain, doc, snapshot, packs, exit>>
      BY <2>15 DEF Reproduce, Step, found
    <3> QED
      BY <2>0, <2>1, <3>1
  <2>16. CASE CheckBundleSignature
    <3>1. /\ pc = "zip" /\ pc' = "sample"
          /\ UNCHANGED <<listed, keys, chain, doc, snapshot, packs, clock, hurried, exit>>
      BY <2>16 DEF CheckBundleSignature, Step, found
    <3> QED
      BY <2>0, <2>1, <3>1
  <2>17. CASE CheckSampleSignature
    <3>1. /\ pc = "sample" /\ pc' = "review"
          /\ UNCHANGED <<listed, keys, chain, doc, snapshot, packs, clock, hurried, exit>>
      BY <2>17 DEF CheckSampleSignature, Step, found
    <3> QED
      BY <2>0, <2>1, <3>1
  <2>18. CASE CheckReviewRecord
    <3>1. /\ pc = "review" /\ pc' = "advisories"
          /\ UNCHANGED <<listed, keys, chain, doc, snapshot, packs, clock, hurried, exit>>
      BY <2>18 DEF CheckReviewRecord, Step, found
    <3> QED
      BY <2>0, <2>1, <3>1
  <2>19. CASE CheckAdvisories
    <3>1. /\ pc = "advisories" /\ pc' = "custody"
          /\ UNCHANGED <<listed, keys, chain, doc, snapshot, packs, clock, hurried, exit>>
      BY <2>19 DEF CheckAdvisories, Step, found
    <3> QED
      BY <2>0, <2>1, <3>1
  <2>20. CASE CannotReadAdvisories
    BY <2>0, <2>1, <2>20 DEF CannotReadAdvisories, found
  <2>21. CASE Custody
    <3>1. /\ pc = "custody" /\ pc' = "finish"
          /\ UNCHANGED <<listed, keys, chain, doc, snapshot, packs, clock, hurried, exit>>
      BY <2>21 DEF Custody, Step, found
    <3> QED
      BY <2>0, <2>1, <3>1
  <2>22. CASE Finish
    BY <2>0, <2>1, <2>22 DEF Finish, found
  <2> QED
    BY <1>r, <2>2, <2>3, <2>4, <2>5, <2>6, <2>7, <2>8, <2>9, <2>10, <2>11, <2>12, <2>13, <2>14, <2>15, <2>16, <2>17, <2>18, <2>19, <2>20, <2>21, <2>22 DEF Run
<1> QED
  BY <1>1, <1>r DEF Next

-----------------------------------------------------------------------------
(* What is found.                                                          *)

\* What is read depends on the copy, the call and what the manifest listed.
LEMMA KeptReads ==
  ASSUME UNCHANGED <<files, manifest, options, listed>>
  PROVE  /\ Bundle' <=> Bundle
         /\ Matched' = Matched /\ KeyListUsed' = KeyListUsed
         /\ Read("chain")' = Read("chain") /\ Decoded(Read("chain"))' = Decoded(Read("chain"))
         /\ ReportMeant' = ReportMeant /\ Decoded(ReportMeant)' = Decoded(ReportMeant)
         /\ SnapshotFile' = SnapshotFile /\ PacksOffered' = PacksOffered
         /\ Read("reportSig")' = Read("reportSig") /\ Read("corpus")' = Read("corpus")
<1>1. Bundle' <=> Bundle
  BY DEF Bundle
<1>2. \A m : Read(m)' = Read(m)
  BY DEF Read
<1>3. Matched' = Matched
  BY DEF Matched
<1>4. BundledKeys' = BundledKeys
  BY <1>1, <1>2 DEF BundledKeys, Opens
<1> QED
  BY <1>1, <1>2, <1>3, <1>4 DEF KeyListUsed, ReportMeant, Decoded, Opens, SnapshotFile, PacksOffered

\* What is made of the snapshot and the packs depends on the report besides.
LEMMA KeptByReport ==
  ASSUME UNCHANGED <<files, manifest, options, listed, doc>>
  PROVE  /\ SnapshotFound' = SnapshotFound /\ SnapshotChecks' = SnapshotChecks
         /\ PacksFound' = PacksFound /\ PackChecks' = PackChecks
         /\ CorpusStatus' = CorpusStatus /\ UnsignedStatus' = UnsignedStatus
<1>1. /\ Bundle' <=> Bundle
      /\ SnapshotFile' = SnapshotFile /\ PacksOffered' = PacksOffered
      /\ Read("corpus")' = Read("corpus")
  BY KeptReads
<1>2. Embedded' = Embedded /\ (FileIsThere' <=> FileIsThere)
  BY <1>1 DEF Embedded, FileIsThere
<1>3. SnapshotMeant' = SnapshotMeant
  BY <1>1, <1>2 DEF SnapshotMeant
<1>4. SnapshotIsBad' <=> SnapshotIsBad
  BY <1>1, <1>2, <1>3 DEF SnapshotIsBad
<1>5. PackHashStatus(PacksOffered)' = PackHashStatus(PacksOffered)
  BY <1>1 DEF PackHashStatus
<1> QED
  BY <1>1, <1>3, <1>4, <1>5
  DEF SnapshotFound, SnapshotChecks, PacksFound, PacksLoad, PackChecks, CorpusStatus, UnsignedStatus, Opens

LEMMA FoundInit == Init => FoundInv
BY Order DEF Init, FoundInv, Past

\* Each finding is made by its check and kept by the others.
LEMMA FoundStep ==
  ASSUME TypeOK, StageInv, FoundInv, Next
  PROVE  FoundInv'
<1> USE Order DEF FoundInv, Past
<1>1. CASE Before
  BY <1>1, BeforeFrame DEF Bundle, StageInv
<1>r. CASE Run
  <2>0. /\ UNCHANGED <<files, manifest, options>> /\ (checks # {} => checks' # {})
        /\ (Bundle' <=> Bundle)
    BY <1>r, RunFrame DEF Bundle
  <2>1. (exit = -1 <=> pc # "end") /\ (pc \notin UpToKeys => checks # {} \/ exit = 2)
    BY DEF StageInv
  <2>2. CASE CannotStart
    BY <2>0, <2>1, <2>2, KeptReads, KeptByReport DEF CannotStart, found, StageInv
  <2>3. CASE Open
    BY <2>0, <2>1, <2>3, KeptReads, KeptByReport DEF Open, found, StageInv
  <2>4. CASE NoManifest
    <3>1. /\ pc = "manifest" /\ pc' = "keys"
          /\ UNCHANGED <<keys, chain, doc, snapshot, packs, clock, hurried, exit>>
          /\ ~Opens(manifest) /\ listed' = IF manifest = Damaged THEN {} ELSE listed
      BY <2>4 DEF NoManifest, Step, found
    <3> QED
      BY <2>0, <2>1, <3>1, KeptByReport DEF StageInv
  <2>5. CASE VerifyManifest
    <3>1. /\ pc = "manifest" /\ pc' = "keys"
          /\ UNCHANGED <<keys, chain, doc, snapshot, packs, clock, hurried, exit>>
          /\ Opens(manifest) /\ listed' = Matched
      BY <2>5 DEF VerifyManifest, Step, found
    <3> QED
      BY <2>0, <2>1, <3>1, KeptReads, KeptByReport DEF StageInv, Matched
  <2>6. CASE KeysFor
    <3>1. /\ pc = "keys" /\ pc' = IF Bundle THEN "chain" ELSE "report"
          /\ UNCHANGED <<listed, chain, doc, snapshot, packs, clock, hurried, exit>>
          /\ keys' = KeyListUsed
      BY <2>6 DEF KeysFor, Step, found
    <3> QED
      BY <2>0, <2>1, <3>1, KeptReads, KeptByReport DEF StageInv
  <2>7. CASE CheckChain
    <3>1. /\ pc = "chain" /\ pc' = "rows"
          /\ UNCHANGED <<listed, keys, doc, snapshot, packs, clock, hurried, exit>>
          /\ chain' = Decoded(Read("chain"))
      BY <2>7 DEF CheckChain, Step, found
    <3> QED
      BY <2>0, <2>1, <3>1, KeptReads, KeptByReport DEF StageInv
  <2>8. CASE CheckRecordRows
    <3>1. /\ pc = "rows" /\ pc' = "report"
          /\ UNCHANGED <<listed, keys, chain, doc, snapshot, packs, clock, hurried, exit>>
      BY <2>8 DEF CheckRecordRows, Step, found
    <3> QED
      BY <2>0, <2>1, <3>1, KeptReads, KeptByReport
  <2>9. CASE OpenReport
    <3>1. /\ pc = "report" /\ pc' = IF Opens(ReportMeant) THEN "signature" ELSE AfterReport
          /\ UNCHANGED <<listed, keys, chain, snapshot, packs, clock, hurried, exit>>
          /\ doc' = Decoded(ReportMeant) /\ (~Opens(ReportMeant) => doc' = Nothing)
      BY <2>9 DEF OpenReport, Step, found, Decoded
    <3> QED
      BY <2>0, <2>1, <3>1, KeptReads DEF StageInv
  <2>10. CASE CheckSignature
    <3>1. /\ pc = "signature" /\ pc' = "head"
          /\ UNCHANGED <<listed, keys, chain, doc, snapshot, packs, clock, hurried, exit>>
      BY <2>10 DEF CheckSignature, Step, found
    <3> QED
      BY <2>0, <2>1, <3>1, KeptReads, KeptByReport
  <2>11. CASE CheckHead
    <3>1. /\ pc = "head" /\ pc' = IF Bundle THEN "corpus" ELSE "snapshot"
          /\ UNCHANGED <<listed, keys, chain, doc, snapshot, packs, clock, hurried, exit>>
      BY <2>11 DEF CheckHead, Step, found
    <3> QED
      BY <2>0, <2>1, <3>1, KeptReads, KeptByReport
  <2>12. CASE CheckCorpus
    <3>1. /\ pc = "corpus" /\ pc' = "snapshot"
          /\ UNCHANGED <<listed, keys, chain, doc, snapshot, packs, clock, hurried, exit>>
      BY <2>12 DEF CheckCorpus, Step, found
    <3> QED
      BY <2>0, <2>1, <3>1, KeptReads, KeptByReport
  <2>13. CASE CheckSnapshot
    <3>1. /\ pc = "snapshot" /\ pc' = "packs"
          /\ UNCHANGED <<listed, keys, chain, doc, packs, clock, hurried, exit>>
          /\ snapshot' = SnapshotFound
      BY <2>13 DEF CheckSnapshot, Step, found
    <3> QED
      BY <2>0, <2>1, <3>1, KeptReads, KeptByReport DEF StageInv
  <2>14. CASE LoadPacks
    <3>1. /\ pc = "packs" /\ pc' = IF PacksLoad /\ snapshot # Nothing THEN "rerun" ELSE AfterReport
          /\ UNCHANGED <<listed, keys, chain, doc, snapshot, clock, hurried, exit>>
          /\ packs' = PacksFound
      BY <2>14 DEF LoadPacks, Step, found
    <3> QED
      BY <2>0, <2>1, <3>1, KeptReads, KeptByReport DEF StageInv
  <2>15. CASE Reproduce
    <3>1. /\ pc = "rerun" /\ pc' = AfterReport
          /\ UNCHANGED <<listed, keys, chain, doc, snapshot, packs, exit>>
      BY <2>15 DEF Reproduce, Step, found
    <3> QED
      BY <2>0, <2>1, <3>1, KeptReads, KeptByReport
  <2>16. CASE CheckBundleSignature
    <3>1. /\ pc = "zip" /\ pc' = "sample"
          /\ UNCHANGED <<listed, keys, chain, doc, snapshot, packs, clock, hurried, exit>>
      BY <2>16 DEF CheckBundleSignature, Step, found
    <3> QED
      BY <2>0, <2>1, <3>1, KeptReads, KeptByReport
  <2>17. CASE CheckSampleSignature
    <3>1. /\ pc = "sample" /\ pc' = "review"
          /\ UNCHANGED <<listed, keys, chain, doc, snapshot, packs, clock, hurried, exit>>
      BY <2>17 DEF CheckSampleSignature, Step, found
    <3> QED
      BY <2>0, <2>1, <3>1, KeptReads, KeptByReport
  <2>18. CASE CheckReviewRecord
    <3>1. /\ pc = "review" /\ pc' = "advisories"
          /\ UNCHANGED <<listed, keys, chain, doc, snapshot, packs, clock, hurried, exit>>
      BY <2>18 DEF CheckReviewRecord, Step, found
    <3> QED
      BY <2>0, <2>1, <3>1, KeptReads, KeptByReport
  <2>19. CASE CheckAdvisories
    <3>1. /\ pc = "advisories" /\ pc' = "custody"
          /\ UNCHANGED <<listed, keys, chain, doc, snapshot, packs, clock, hurried, exit>>
      BY <2>19 DEF CheckAdvisories, Step, found
    <3> QED
      BY <2>0, <2>1, <3>1, KeptReads, KeptByReport
  <2>20. CASE CannotReadAdvisories
    BY <2>0, <2>1, <2>20, KeptReads, KeptByReport DEF CannotReadAdvisories, found, StageInv
  <2>21. CASE Custody
    <3>1. /\ pc = "custody" /\ pc' = "finish"
          /\ UNCHANGED <<listed, keys, chain, doc, snapshot, packs, clock, hurried, exit>>
      BY <2>21 DEF Custody, Step, found
    <3> QED
      BY <2>0, <2>1, <3>1, KeptReads, KeptByReport
  <2>22. CASE Finish
    BY <2>0, <2>1, <2>22, KeptReads, KeptByReport DEF Finish, found, StageInv
  <2> QED
    BY <1>r, <2>2, <2>3, <2>4, <2>5, <2>6, <2>7, <2>8, <2>9, <2>10, <2>11, <2>12, <2>13, <2>14, <2>15, <2>16, <2>17, <2>18, <2>19, <2>20, <2>21, <2>22 DEF Run
<1> QED
  BY <1>1, <1>r DEF Next

-----------------------------------------------------------------------------
(* What is told.                                                           *)

\* What the checks say of the members, the signature and the chain head is said for good.
LEMMA KeptStatuses ==
  ASSUME UNCHANGED <<files, manifest, options, listed>>
  PROVE  /\ MembersStatus' = MembersStatus
         /\ UNCHANGED <<doc, keys>> => SignatureStatus' = SignatureStatus
         /\ UNCHANGED <<doc, chain>> => HeadStatus' = HeadStatus
<1>1. MembersStatus' = MembersStatus
  BY DEF MembersStatus, Problems, Matched
<1>2. ASSUME UNCHANGED <<doc, keys>> PROVE SignatureStatus' = SignatureStatus
  BY <1>2, KeptReads, KeptByReport DEF SignatureStatus, Judged
<1>3. ASSUME UNCHANGED <<doc, chain>> PROVE HeadStatus' = HeadStatus
  BY <1>3 DEF HeadStatus
<1> QED
  BY <1>1, <1>2, <1>3

\* A run gets past a check by that check, and keeps what it found from then on.
LEMMA PastStep ==
  ASSUME TypeOK, StageInv, Run
  PROVE  /\ Past(UpToManifest) => listed' = listed
         /\ Past(UpToKeys) => keys' = keys
         /\ Past(UpToChain) => chain' = chain
         /\ Past(UpToReport) => doc' = doc
         /\ Past(UpToSnapshot) => snapshot' = snapshot
         /\ Past(UpToPacks) => packs' = packs
         /\ Bundle /\ Past(UpToManifest)' => Past(UpToManifest) \/ NoManifest \/ VerifyManifest
         /\ Past(UpToReport)' => Past(UpToReport) \/ OpenReport
         /\ Past(UpToSignature)' => Past(UpToSignature) \/ CheckSignature \/ (OpenReport /\ doc' = Nothing)
         /\ Past(UpToHead)' => Past(UpToHead) \/ CheckHead \/ (OpenReport /\ doc' = Nothing)
         /\ Bundle /\ Past(UpToCorpus)' => Past(UpToCorpus) \/ CheckCorpus \/ (OpenReport /\ doc' = Nothing)
         /\ Past(UpToSnapshot)' => Past(UpToSnapshot) \/ CheckSnapshot \/ (OpenReport /\ doc' = Nothing)
         /\ Past(UpToPacks)' => Past(UpToPacks) \/ LoadPacks \/ (OpenReport /\ doc' = Nothing)
         /\ Past(UpToRerun)' =>
              Past(UpToRerun) \/ Reproduce \/ (OpenReport /\ doc' = Nothing)
              \/ (LoadPacks /\ (packs' = Nothing \/ snapshot' = Nothing))
<1> USE Order DEF Past
<1>0. /\ checks # {} => checks' # {}
      /\ AfterReport \notin UpToRerun
  BY RunFrame, AfterReportIs DEF TypeOK
<1>1. (exit = -1 <=> pc # "end") /\ (pc = "start" => checks = {})
      /\ (pc \notin UpToKeys => checks # {} \/ exit = 2)
  BY DEF StageInv
<1>2. CASE CannotStart
  BY <1>0, <1>1, <1>2 DEF CannotStart, found
<1>3. CASE Open
  BY <1>0, <1>1, <1>3 DEF Open, found
<1>4. CASE NoManifest
  <2>1. /\ pc = "manifest" /\ pc' = "keys"
        /\ UNCHANGED <<keys, chain, doc, snapshot, packs, clock, hurried, exit>>
    BY <1>4 DEF NoManifest, Step, found
  <2> QED
    BY <1>0, <1>1, <1>4, <2>1
<1>5. CASE VerifyManifest
  <2>1. /\ pc = "manifest" /\ pc' = "keys"
        /\ UNCHANGED <<keys, chain, doc, snapshot, packs, clock, hurried, exit>>
    BY <1>5 DEF VerifyManifest, Step, found
  <2> QED
    BY <1>0, <1>1, <1>5, <2>1
<1>6. CASE KeysFor
  <2>1. /\ pc = "keys" /\ pc' = IF Bundle THEN "chain" ELSE "report"
        /\ UNCHANGED <<listed, chain, doc, snapshot, packs, clock, hurried, exit>>
    BY <1>6 DEF KeysFor, Step, found
  <2> QED
    BY <1>0, <1>1, <1>6, <2>1
<1>7. CASE CheckChain
  <2>1. /\ pc = "chain" /\ pc' = "rows"
        /\ UNCHANGED <<listed, keys, doc, snapshot, packs, clock, hurried, exit>>
    BY <1>7 DEF CheckChain, Step, found
  <2> QED
    BY <1>0, <1>1, <1>7, <2>1
<1>8. CASE CheckRecordRows
  <2>1. /\ pc = "rows" /\ pc' = "report"
        /\ UNCHANGED <<listed, keys, chain, doc, snapshot, packs, clock, hurried, exit>>
    BY <1>8 DEF CheckRecordRows, Step, found
  <2> QED
    BY <1>0, <1>1, <1>8, <2>1
<1>9. CASE OpenReport
  <2>1. /\ pc = "report" /\ pc' = IF Opens(ReportMeant) THEN "signature" ELSE AfterReport
        /\ UNCHANGED <<listed, keys, chain, snapshot, packs, clock, hurried, exit>>
        /\ ~Opens(ReportMeant) => doc' = Nothing
    BY <1>9 DEF OpenReport, Step, found, Decoded
  <2> QED
    BY <1>0, <1>1, <1>9, <2>1
<1>10. CASE CheckSignature
  <2>1. /\ pc = "signature" /\ pc' = "head"
        /\ UNCHANGED <<listed, keys, chain, doc, snapshot, packs, clock, hurried, exit>>
    BY <1>10 DEF CheckSignature, Step, found
  <2> QED
    BY <1>0, <1>1, <1>10, <2>1
<1>11. CASE CheckHead
  <2>1. /\ pc = "head" /\ pc' = IF Bundle THEN "corpus" ELSE "snapshot"
        /\ UNCHANGED <<listed, keys, chain, doc, snapshot, packs, clock, hurried, exit>>
    BY <1>11 DEF CheckHead, Step, found
  <2> QED
    BY <1>0, <1>1, <1>11, <2>1
<1>12. CASE CheckCorpus
  <2>1. /\ pc = "corpus" /\ pc' = "snapshot"
        /\ UNCHANGED <<listed, keys, chain, doc, snapshot, packs, clock, hurried, exit>>
    BY <1>12 DEF CheckCorpus, Step, found
  <2> QED
    BY <1>0, <1>1, <1>12, <2>1
<1>13. CASE CheckSnapshot
  <2>1. /\ pc = "snapshot" /\ pc' = "packs"
        /\ UNCHANGED <<listed, keys, chain, doc, packs, clock, hurried, exit>>
    BY <1>13 DEF CheckSnapshot, Step, found
  <2> QED
    BY <1>0, <1>1, <1>13, <2>1
<1>14. CASE LoadPacks
  <2>1. /\ pc = "packs" /\ pc' = IF PacksLoad /\ snapshot # Nothing THEN "rerun" ELSE AfterReport
        /\ UNCHANGED <<listed, keys, chain, doc, snapshot, clock, hurried, exit>>
        /\ ~PacksLoad => packs' = Nothing
    BY <1>14 DEF LoadPacks, Step, found, PacksFound
  <2> QED
    BY <1>0, <1>1, <1>14, <2>1
<1>15. CASE Reproduce
  <2>1. /\ pc = "rerun" /\ pc' = AfterReport
        /\ UNCHANGED <<listed, keys, chain, doc, snapshot, packs, exit>>
    BY <1>15 DEF Reproduce, Step, found
  <2> QED
    BY <1>0, <1>1, <1>15, <2>1
<1>16. CASE CheckBundleSignature
  <2>1. /\ pc = "zip" /\ pc' = "sample"
        /\ UNCHANGED <<listed, keys, chain, doc, snapshot, packs, clock, hurried, exit>>
    BY <1>16 DEF CheckBundleSignature, Step, found
  <2> QED
    BY <1>0, <1>1, <1>16, <2>1
<1>17. CASE CheckSampleSignature
  <2>1. /\ pc = "sample" /\ pc' = "review"
        /\ UNCHANGED <<listed, keys, chain, doc, snapshot, packs, clock, hurried, exit>>
    BY <1>17 DEF CheckSampleSignature, Step, found
  <2> QED
    BY <1>0, <1>1, <1>17, <2>1
<1>18. CASE CheckReviewRecord
  <2>1. /\ pc = "review" /\ pc' = "advisories"
        /\ UNCHANGED <<listed, keys, chain, doc, snapshot, packs, clock, hurried, exit>>
    BY <1>18 DEF CheckReviewRecord, Step, found
  <2> QED
    BY <1>0, <1>1, <1>18, <2>1
<1>19. CASE CheckAdvisories
  <2>1. /\ pc = "advisories" /\ pc' = "custody"
        /\ UNCHANGED <<listed, keys, chain, doc, snapshot, packs, clock, hurried, exit>>
    BY <1>19 DEF CheckAdvisories, Step, found
  <2> QED
    BY <1>0, <1>1, <1>19, <2>1
<1>20. CASE CannotReadAdvisories
  BY <1>0, <1>1, <1>20 DEF CannotReadAdvisories, found
<1>21. CASE Custody
  <2>1. /\ pc = "custody" /\ pc' = "finish"
        /\ UNCHANGED <<listed, keys, chain, doc, snapshot, packs, clock, hurried, exit>>
    BY <1>21 DEF Custody, Step, found
  <2> QED
    BY <1>0, <1>1, <1>21, <2>1
<1>22. CASE Finish
  BY <1>0, <1>1, <1>22 DEF Finish, found
<1> QED
  BY <1>2, <1>3, <1>4, <1>5, <1>6, <1>7, <1>8, <1>9, <1>10, <1>11, <1>12, <1>13, <1>14, <1>15, <1>16, <1>17, <1>18, <1>19, <1>20, <1>21, <1>22 DEF Run

LEMMA ToldInit == Init => ToldInv
BY Order DEF Init, ToldInv, Past

\* Each check tells what it finds, and nothing told is taken back.
LEMMA ToldStep ==
  ASSUME TypeOK, StageInv, ToldInv, Run
  PROVE  ToldInv'
<1>0. /\ UNCHANGED <<files, manifest, options>> /\ checks \subseteq checks'
      /\ (Bundle' <=> Bundle) /\ (Opens(manifest)' <=> Opens(manifest))
  BY RunFrame DEF Bundle, Opens
<1>1. /\ \A upTo \in {UpToReport, UpToSignature, UpToHead, UpToCorpus, UpToSnapshot, UpToPacks, UpToRerun} :
           Past(upTo) => Past(UpToManifest) /\ Past(UpToKeys) /\ Past(UpToChain) /\ Past(UpToReport)
      /\ Past(UpToPacks) => Past(UpToSnapshot)
      /\ Past(UpToRerun) => Past(UpToPacks) /\ Past(UpToSnapshot)
  BY Order DEF Past
<1>2. (Bundle /\ Opens(manifest) /\ Past(UpToManifest) => <<"members", MembersStatus>> \in checks)'
  <2>1. SUFFICES ASSUME Bundle, Opens(manifest), Past(UpToManifest)'
                 PROVE  <<"members", MembersStatus'>> \in checks'
    BY <1>0
  <2>2. MembersStatus' = MembersStatus
    BY <1>0 DEF MembersStatus, Problems, Matched
  <2>3. CASE Past(UpToManifest)
    BY <1>0, <2>1, <2>2, <2>3 DEF ToldInv
  <2>4. CASE VerifyManifest
    BY <2>2, <2>4 DEF VerifyManifest, Add
  <2> QED
    BY <2>1, <2>3, <2>4, PastStep DEF NoManifest
<1>3. (Past(UpToReport) /\ doc = Nothing => Checked("report", {"not_checked", "fail"}))'
  <2>1. CASE Past(UpToReport)
    BY <1>0, <1>1, <2>1, PastStep DEF ToldInv, Checked
  <2>2. CASE OpenReport
    BY <2>2, ReportMeantType DEF OpenReport, Add, Checked, Decoded
  <2> QED
    BY <2>1, <2>2, PastStep
<1>4. (doc # Nothing /\ Past(UpToSignature) => <<"report signature", SignatureStatus>> \in checks)'
  <2>1. CASE Past(UpToSignature)
    BY <1>0, <1>1, <2>1, PastStep, KeptStatuses DEF ToldInv
  <2>2. CASE CheckSignature
    BY <1>0, <2>2, KeptStatuses DEF CheckSignature, Add, found
  <2> QED
    BY <2>1, <2>2, PastStep
<1>5. (doc # Nothing /\ Past(UpToHead) => <<"report chain head", HeadStatus>> \in checks)'
  <2>1. CASE Past(UpToHead)
    BY <1>0, <1>1, <2>1, PastStep, KeptStatuses DEF ToldInv
  <2>2. CASE CheckHead
    BY <1>0, <2>2, KeptStatuses DEF CheckHead, Add, found
  <2> QED
    BY <2>1, <2>2, PastStep
<1>6. (Bundle /\ doc # Nothing /\ Past(UpToCorpus) => <<"corpus", CorpusStatus>> \in checks)'
  <2>1. CASE Past(UpToCorpus)
    BY <1>0, <1>1, <2>1, PastStep, KeptByReport DEF ToldInv
  <2>2. CASE CheckCorpus
    BY <1>0, <2>2, KeptByReport DEF CheckCorpus, Add, found
  <2> QED
    BY <1>0, <2>1, <2>2, PastStep
<1>7. (doc # Nothing /\ Past(UpToSnapshot) => SnapshotChecks \subseteq checks)'
  <2>1. CASE Past(UpToSnapshot)
    BY <1>0, <1>1, <2>1, PastStep, KeptByReport DEF ToldInv
  <2>2. CASE CheckSnapshot
    BY <1>0, <2>2, KeptByReport DEF CheckSnapshot, Add
  <2> QED
    BY <2>1, <2>2, PastStep
<1>8. (doc # Nothing /\ Past(UpToPacks) => PackChecks \subseteq checks)'
  <2>1. CASE Past(UpToPacks)
    BY <1>0, <1>1, <2>1, PastStep, KeptByReport DEF ToldInv
  <2>2. CASE LoadPacks
    BY <1>0, <2>2, KeptByReport DEF LoadPacks, Add
  <2> QED
    BY <2>1, <2>2, PastStep
<1>9. (packs # Nothing /\ snapshot # Nothing /\ Past(UpToRerun) => Checked("findings", {"pass", "fail"}))'
  <2>1. CASE Past(UpToRerun)
    BY <1>0, <1>1, <2>1, PastStep DEF ToldInv, Checked
  <2>2. CASE Reproduce
    BY <2>2 DEF Reproduce, Add, Checked
  <2>3. CASE OpenReport
    BY <2>3, Order DEF OpenReport, Step, StageInv
  <2> QED
    BY <2>1, <2>2, <2>3, PastStep
<1> QED
  BY <1>2, <1>3, <1>4, <1>5, <1>6, <1>7, <1>8, <1>9 DEF ToldInv

-----------------------------------------------------------------------------
(* Types.                                                                  *)

LEMMA TypeInit == Init => TypeOK
<1> SUFFICES ASSUME Init PROVE TypeOK
  OBVIOUS
<1>1. export \in Exports /\ files = export.files /\ manifest = export.manifest
  BY DEF Init
<1>2. Opens(manifest) => DOMAIN manifest.items \subseteq Member
  BY <1>1, ExportsAssumption
<1>3. files = [m \in Member |-> files[m]]
  BY <1>1, ExportsAssumption
<1>4. edits \in 0..MaxEdits
  BY FormatAssumption DEF Init
<1> QED
  BY <1>1, <1>2, <1>3, <1>4 DEF Init, TypeOK

\* A copy that was changed holds what some export held, or what is gone or broken.
LEMMA TypeBefore == TypeOK /\ Before => TypeOK'
<1> SUFFICES ASSUME TypeOK, Before PROVE TypeOK'
  OBVIOUS
<1> DEFINE Content(m) == {x.files[m] : x \in Exports} \cup {Absent, Damaged, Unreadable}
<1>0. /\ files = [m \in Member |-> files[m]] /\ \A m \in Member : files[m] \in Content(m)
      /\ Opens(manifest) => DOMAIN manifest.items \subseteq Member
      /\ edits \in 0..MaxEdits
  BY DEF TypeOK
<1>1. edits' \in 0..MaxEdits
  <2>1. edits < MaxEdits /\ edits' = edits + 1
    BY DEF Before, DamageMember, DamageManifest, LoseZipSignature, MixUp, Relist, Edit
  <2> QED
    BY <1>0, <2>1, FormatAssumption
<1>2. /\ files' = [m \in Member |-> files'[m]]
      /\ \A m \in Member : files'[m] \in Content(m)
  <2>1. CASE files' = files
    BY <1>0, <2>1
  <2>2. CASE DamageMember \/ MixUp
    <3>1. \E m \in Member : \E new \in Content(m) : files' = [files EXCEPT ![m] = new]
      BY <2>2 DEF DamageMember, MixUp
    <3>2. PICK m \in Member : \E new \in Content(m) : files' = [files EXCEPT ![m] = new]
      BY <3>1
    <3>3. PICK new \in Content(m) : files' = [files EXCEPT ![m] = new]
      BY <3>2
    <3>4. files' = [n \in Member |-> IF n = m THEN new ELSE files[n]]
      BY <1>0, <3>3
    <3> QED
      BY <1>0, <3>4
  <2> QED
    BY <2>1, <2>2 DEF Before, DamageManifest, LoseZipSignature, Relist
<1>3. Opens(manifest') => DOMAIN manifest'.items \subseteq Member
  <2>1. CASE manifest' = manifest
    BY <1>0, <2>1 DEF Opens
  <2>2. CASE DamageManifest
    BY <2>2 DEF DamageManifest, Opens
  <2>3. CASE Relist
    BY <2>3 DEF Relist
  <2> QED
    BY <2>1, <2>2, <2>3 DEF Before, DamageMember, LoseZipSignature, MixUp
<1>4. UNCHANGED <<export, options, listed, doc, chain, snapshot, hurried, exit, checks>>
  BY BeforeFrame
<1> QED
  BY <1>1, <1>2, <1>3, <1>4 DEF TypeOK, Opens

\* A signature is judged with one of the statuses.
LEMMA JudgedType ==
  ASSUME NEW sig, NEW file, NEW own
  PROVE  Judged(sig, file, own) \in {"pass", "fail", "not_checked"}
BY DEF Judged, EnvelopeStatus

\* A chain, a review record or a snapshot that is read is one of those there are.
LEMMA ReadType ==
  ASSUME TypeOK
  PROVE  /\ Opens(Read("chain")) => Read("chain") \in DOMAIN Chains
         /\ Opens(Read("record")) => Read("record") \in DOMAIN Records
         /\ Opens(Read("reportSig")) => Read("reportSig") \in DOMAIN Envelopes
         /\ Opens(Read("snapshot")) => Read("snapshot") \in DOMAIN UpdatedAt
<1>1. {"chain", "record", "reportSig", "snapshot"} \subseteq Member
  BY FormatAssumption
<1>2. ASSUME NEW m \in {"chain", "record", "reportSig", "snapshot"}, Opens(Read(m))
      PROVE  \E x \in Exports : Read(m) = x.files[m]
  BY <1>1, <1>2, ReadIs, OpensExported
<1> QED
  BY <1>2, ExportsAssumption

\* The snapshot to go on with is one of those there are.
LEMMA SnapshotFoundType ==
  ASSUME TypeOK, doc \in DOMAIN Reports
  PROVE  SnapshotFound = Nothing \/ SnapshotFound \in DOMAIN UpdatedAt
<1>1. Embedded \in {Nothing, Damaged} \cup DOMAIN UpdatedAt
  BY FormatAssumption DEF Embedded
<1>2. FileIsThere => SnapshotFile \in {Damaged} \cup DOMAIN UpdatedAt
  BY ReadType DEF FileIsThere, SnapshotFile, Opens
<1> QED
  BY <1>1, <1>2 DEF SnapshotFound, SnapshotMeant, SnapshotIsBad

\* Every check ends with one of the statuses.
LEMMA StatusStep ==
  ASSUME TypeOK, StageInv, FoundInv, Run
  PROVE  checks' \subseteq CheckName \X Status
<1> DEFINE T == CheckName \X Status
<1>t. \A name \in CheckName, status \in Status : <<name, status>> \in T
  OBVIOUS
<1>c. checks \subseteq T
  BY DEF TypeOK
<1> HIDE DEF T
<1> SUFFICES checks' \subseteq T
  BY DEF T
<1>n. /\ {"manifest", "members", "keys.json", "key list", "chain", "record rows", "report"} \subseteq CheckName
      /\ {"report signature", "report chain head", "corpus", "snapshot", "snapshot hash"} \subseteq CheckName
      /\ {"rule packs", "pack hash", "findings", "policy", "rule errors", "bundle signature"} \subseteq CheckName
      /\ {"sample signature", "review record", "advisories", "key"} \subseteq CheckName
  BY DEF CheckName
<1>s. {"pass", "fail", "not_checked", "flag", "info"} = Status
  BY DEF Status
<1>1. CASE NoManifest
  <2> DEFINE status == IF manifest = Absent THEN "not_checked" ELSE "fail"
  <2>1. status \in Status
    BY <1>s, JudgedType
  <2>2. Add({<<"manifest", status>>})
    BY <1>1 DEF NoManifest
  <2> HIDE DEF status
  <2> QED
    BY <2>1, <2>2, <1>c, <1>n, <1>t DEF Add
<1>2. CASE VerifyManifest
  <2> DEFINE status == MembersStatus
  <2>1. status \in Status
    BY <1>s, JudgedType DEF MembersStatus
  <2>2. Add({<<"members", status>>})
    BY <1>2 DEF VerifyManifest
  <2> HIDE DEF status
  <2> QED
    BY <2>1, <2>2, <1>c, <1>n, <1>t DEF Add
<1>3. CASE OpenReport
  <2> DEFINE status == IF Opens(ReportMeant) THEN "info" ELSE IF ReportMeant = Absent THEN "not_checked" ELSE "fail"
  <2>1. status \in Status
    BY <1>s, JudgedType
  <2>2. Add({<<"report", status>>})
    BY <1>3 DEF OpenReport
  <2> HIDE DEF status
  <2> QED
    BY <2>1, <2>2, <1>c, <1>n, <1>t DEF Add
<1>4. CASE CheckSignature
  <2> DEFINE status == SignatureStatus
  <2>1. status \in Status
    BY <1>s, JudgedType DEF SignatureStatus, UnsignedStatus
  <2>2. Add({<<"report signature", status>>})
    BY <1>4 DEF CheckSignature
  <2> HIDE DEF status
  <2> QED
    BY <2>1, <2>2, <1>c, <1>n, <1>t DEF Add
<1>5. CASE CheckHead
  <2> DEFINE status == HeadStatus
  <2>1. status \in Status
    BY <1>s, JudgedType DEF HeadStatus
  <2>2. Add({<<"report chain head", status>>})
    BY <1>5 DEF CheckHead
  <2> HIDE DEF status
  <2> QED
    BY <2>1, <2>2, <1>c, <1>n, <1>t DEF Add
<1>6. CASE CheckCorpus
  <2> DEFINE status == CorpusStatus
  <2>1. status \in Status
    BY <1>s, JudgedType DEF CorpusStatus
  <2>2. Add({<<"corpus", status>>})
    BY <1>6 DEF CheckCorpus
  <2> HIDE DEF status
  <2> QED
    BY <2>1, <2>2, <1>c, <1>n, <1>t DEF Add
<1>7. CASE CheckBundleSignature
  <2> DEFINE status == IF zipSig = Absent THEN "not_checked" ELSE Judged(zipSig, <<files, manifest>>, Unstated)
  <2>1. status \in Status
    BY <1>s, JudgedType
  <2>2. Add({<<"bundle signature", status>>})
    BY <1>7 DEF CheckBundleSignature
  <2> HIDE DEF status
  <2> QED
    BY <2>1, <2>2, <1>c, <1>n, <1>t DEF Add
<1>8. CASE CheckRecordRows
  <2> DEFINE status == RowsStatus(Read("custody"))
  <2>1. status \in Status
    BY <1>s, JudgedType DEF RowsStatus
  <2>2. checks' = checks \/ checks' = checks \cup {<<"record rows", status>>}
    BY <1>8 DEF CheckRecordRows, Add
  <2> HIDE DEF status
  <2>3. <<"record rows", status>> \in T
    BY <2>1, <1>n, <1>t
  <2> QED
    BY <2>2, <2>3, <1>c
<1>9. CASE CheckSampleSignature
  <2> DEFINE status == IF Read("sample") = Unreadable THEN "fail" ELSE IF Read("sampleSig") = Absent THEN "not_checked"
                       ELSE Judged(Read("sampleSig"), Read("sample"), Unstated)
  <2>1. status \in Status
    BY <1>s, JudgedType
  <2>2. checks' = checks \/ checks' = checks \cup {<<"sample signature", status>>}
    BY <1>9 DEF CheckSampleSignature, Add
  <2> HIDE DEF status
  <2>3. <<"sample signature", status>> \in T
    BY <2>1, <1>n, <1>t
  <2> QED
    BY <2>2, <2>3, <1>c
<1>10. CASE CheckAdvisories
  <2> DEFINE status == IF options.advisories = Absent THEN "not_checked" ELSE IF options.advisories = Damaged THEN "fail"
                       ELSE IF Pinned = {} THEN "not_checked"
                       ELSE IF Pinned \cap options.advisories # {} THEN "flag" ELSE "pass"
  <2>1. status \in Status
    BY <1>s, JudgedType
  <2>2. Add({<<"advisories", status>>})
    BY <1>10 DEF CheckAdvisories
  <2> HIDE DEF status
  <2> QED
    BY <2>1, <2>2, <1>c, <1>n, <1>t DEF Add
<1>11. CASE CheckChain
  <2>1. PICK statuses \in SUBSET Status : Add({"chain"} \X statuses)
    BY <1>11, <1>s, ReadType, FormatAssumption DEF CheckChain
  <2> QED
    BY <2>1, <1>c, <1>n DEF Add, T
<1>12. CASE CheckReviewRecord
  <2>1. PICK statuses \in SUBSET Status : Add({"review record"} \X statuses)
    BY <1>12, <1>s, ReadType, FormatAssumption DEF CheckReviewRecord
  <2> QED
    BY <2>1, <1>c, <1>n DEF Add, T
<1>13. CASE CheckSnapshot
  <2> QED
    BY <1>13, <1>c, <1>n, <1>t, <1>s DEF Add, CheckSnapshot, SnapshotChecks
<1>14. CASE LoadPacks
  <2> QED
    BY <1>14, <1>c, <1>n, <1>t, <1>s DEF Add, LoadPacks, PackChecks, PackHashStatus
<1>15. CASE KeysFor
  <2> QED
    BY <1>15, <1>c, <1>n, <1>t, <1>s DEF Add, KeysFor
<1>16. CASE Reproduce
  <2> QED
    BY <1>16, <1>c, <1>n, <1>t, <1>s DEF Add, Reproduce
<1>17. CASE Custody
  <2> QED
    BY <1>17, <1>c, <1>n, <1>t, <1>s DEF Add, Custody, CustodyStatus
<1>18. CASE CannotStart \/ Open \/ CannotReadAdvisories \/ Finish
  BY <1>18, <1>c DEF CannotStart, Open, CannotReadAdvisories, Finish
<1> QED
  BY <1>1, <1>2, <1>3, <1>4, <1>5, <1>6, <1>7, <1>8, <1>9, <1>10, <1>11, <1>12, <1>13, <1>14, <1>15, <1>16, <1>17, <1>18 DEF Run

LEMMA TypeRun == TypeOK /\ StageInv /\ FoundInv /\ Run => TypeOK'
<1> SUFFICES ASSUME TypeOK, StageInv, FoundInv, Run PROVE TypeOK'
  OBVIOUS
<1>0. UNCHANGED <<export, files, manifest, edits, options>>
  BY RunFrame
<1>1. listed' = Everything \/ listed' \subseteq Member
  <2>1. CASE NoManifest
    BY <2>1 DEF NoManifest, TypeOK
  <2>2. CASE VerifyManifest
    BY <2>2 DEF VerifyManifest, Matched, TypeOK
  <2>3. CASE listed' = listed
    BY <2>3 DEF TypeOK
  <2> QED
    BY <2>1, <2>2, <2>3 DEF Run, CannotStart, Open, KeysFor, CheckChain, CheckRecordRows,
       OpenReport, CheckSignature, CheckHead, CheckCorpus, CheckSnapshot, LoadPacks, Reproduce,
       CheckBundleSignature, CheckSampleSignature, CheckReviewRecord, CheckAdvisories,
       CannotReadAdvisories, Custody, Finish, found
<1>2. doc' = Nothing \/ doc' \in DOMAIN Reports
  <2>1. CASE OpenReport
    BY <2>1, ReportMeantType DEF OpenReport, Decoded
  <2>2. CASE doc' = doc
    BY <2>2 DEF TypeOK
  <2> QED
    BY <2>1, <2>2 DEF Run, CannotStart, Open, NoManifest, VerifyManifest, KeysFor, CheckChain,
       CheckRecordRows, CheckSignature, CheckHead, CheckCorpus, CheckSnapshot, LoadPacks, Reproduce,
       CheckBundleSignature, CheckSampleSignature, CheckReviewRecord, CheckAdvisories,
       CannotReadAdvisories, Custody, Finish, found
<1>3. chain' = Nothing \/ chain' \in DOMAIN Chains
  <2>1. CASE CheckChain
    BY <2>1, ReadType DEF CheckChain, Decoded
  <2>2. CASE chain' = chain
    BY <2>2 DEF TypeOK
  <2> QED
    BY <2>1, <2>2 DEF Run, CannotStart, Open, NoManifest, VerifyManifest, KeysFor, OpenReport,
       CheckRecordRows, CheckSignature, CheckHead, CheckCorpus, CheckSnapshot, LoadPacks, Reproduce,
       CheckBundleSignature, CheckSampleSignature, CheckReviewRecord, CheckAdvisories,
       CannotReadAdvisories, Custody, Finish, found
<1>4. snapshot' = Nothing \/ snapshot' \in DOMAIN UpdatedAt
  <2>1. CASE CheckSnapshot
    <3>1. doc \in DOMAIN Reports
      BY <2>1 DEF CheckSnapshot, Step, StageInv, TypeOK
    <3> QED
      BY <2>1, <3>1, SnapshotFoundType DEF CheckSnapshot
  <2>2. CASE snapshot' = snapshot
    BY <2>2 DEF TypeOK
  <2> QED
    BY <2>1, <2>2 DEF Run, CannotStart, Open, NoManifest, VerifyManifest, KeysFor, OpenReport,
       CheckRecordRows, CheckSignature, CheckHead, CheckCorpus, CheckChain, LoadPacks, Reproduce,
       CheckBundleSignature, CheckSampleSignature, CheckReviewRecord, CheckAdvisories,
       CannotReadAdvisories, Custody, Finish, found
<1>5. hurried' \subseteq Rule
  <2>1. CASE Reproduce
    BY <2>1 DEF Reproduce
  <2>2. CASE hurried' = hurried
    BY <2>2 DEF TypeOK
  <2> QED
    BY <2>1, <2>2 DEF Run, CannotStart, Open, NoManifest, VerifyManifest, KeysFor, OpenReport,
       CheckRecordRows, CheckSignature, CheckHead, CheckCorpus, CheckChain, CheckSnapshot, LoadPacks,
       CheckBundleSignature, CheckSampleSignature, CheckReviewRecord, CheckAdvisories,
       CannotReadAdvisories, Custody, Finish, found
<1>6. exit' \in -1..2
  <2>1. exit \in -1..2
    BY DEF TypeOK
  <2>2. exit' \in {exit, 0, 1, 2}
    BY DEF Run, CannotStart, Open, NoManifest, VerifyManifest, KeysFor, OpenReport,
     CheckRecordRows, CheckSignature, CheckHead, CheckCorpus, CheckChain, CheckSnapshot, LoadPacks,
     Reproduce, CheckBundleSignature, CheckSampleSignature, CheckReviewRecord, CheckAdvisories,
     CannotReadAdvisories, Custody, Finish, Step
  <2> QED
    BY <2>1, <2>2
<1> QED
  BY <1>0, <1>1, <1>2, <1>3, <1>4, <1>5, <1>6, StatusStep DEF TypeOK, Opens
-----------------------------------------------------------------------------
(* The end of a run, and the advisories.                                   *)

\* A run goes on until its end, and only Finish gives it a result.
LEMMA ExitStep ==
  ASSUME StageInv, Run
  PROVE  /\ exit = -1
         /\ exit' = -1 \/ CannotStart \/ CannotReadAdvisories \/ Finish
         /\ CannotStart \/ CannotReadAdvisories => exit' = 2
<1>1. exit = -1 <=> pc # "end"
  BY DEF StageInv
<1>2. pc # "end"
  BY DEF Run, CannotStart, Open, NoManifest, VerifyManifest, KeysFor, CheckChain, CheckRecordRows, OpenReport, CheckSignature, CheckHead, CheckCorpus, CheckSnapshot, LoadPacks, Reproduce, CheckBundleSignature, CheckSampleSignature, CheckReviewRecord, CheckAdvisories, CannotReadAdvisories, Custody, Finish, Step
<1>3. exit' = exit \/ CannotStart \/ CannotReadAdvisories \/ Finish
  BY DEF Run, Open, NoManifest, VerifyManifest, KeysFor, CheckChain, CheckRecordRows,
       OpenReport, CheckSignature, CheckHead, CheckCorpus, CheckSnapshot, LoadPacks, Reproduce,
       CheckBundleSignature, CheckSampleSignature, CheckReviewRecord, CheckAdvisories, Custody, Step
<1>4. CannotStart \/ CannotReadAdvisories => exit' = 2
  BY DEF CannotStart, CannotReadAdvisories
<1> QED
  BY <1>1, <1>2, <1>3, <1>4

\* Only the check of the advisories says something of them.
LEMMA AdvisoriesOnly ==
  ASSUME Run, Checked("advisories", {"pass"})'
  PROVE  Checked("advisories", {"pass"}) \/ CheckAdvisories
<1> SUFFICES ASSUME ~CheckAdvisories, <<"advisories", "pass">> \in checks'
             PROVE  <<"advisories", "pass">> \in checks
  BY DEF Checked
<1>1. CASE CannotStart
  BY <1>1 DEF CannotStart
<1>2. CASE Open
  BY <1>2 DEF Open
<1>3. CASE NoManifest
  BY <1>3 DEF NoManifest, Add
<1>4. CASE VerifyManifest
  BY <1>4 DEF VerifyManifest, Add
<1>5. CASE KeysFor
  BY <1>5 DEF KeysFor, Add
<1>6. CASE CheckChain
  BY <1>6 DEF CheckChain, Add
<1>7. CASE CheckRecordRows
  BY <1>7 DEF CheckRecordRows, Add
<1>8. CASE OpenReport
  BY <1>8 DEF OpenReport, Add
<1>9. CASE CheckSignature
  BY <1>9 DEF CheckSignature, Add
<1>10. CASE CheckHead
  BY <1>10 DEF CheckHead, Add
<1>11. CASE CheckCorpus
  BY <1>11 DEF CheckCorpus, Add
<1>12. CASE CheckSnapshot
  BY <1>12 DEF CheckSnapshot, Add, SnapshotChecks
<1>13. CASE LoadPacks
  BY <1>13 DEF LoadPacks, Add, PackChecks
<1>14. CASE Reproduce
  BY <1>14 DEF Reproduce, Add
<1>15. CASE CheckBundleSignature
  BY <1>15 DEF CheckBundleSignature, Add
<1>16. CASE CheckSampleSignature
  BY <1>16 DEF CheckSampleSignature, Add
<1>17. CASE CheckReviewRecord
  BY <1>17 DEF CheckReviewRecord, Add
<1>18. CASE CannotReadAdvisories
  BY <1>18 DEF CannotReadAdvisories
<1>19. CASE Custody
  BY <1>19 DEF Custody, Add
<1>20. CASE Finish
  BY <1>20 DEF Finish
<1> QED
  BY <1>1, <1>2, <1>3, <1>4, <1>5, <1>6, <1>7, <1>8, <1>9, <1>10, <1>11, <1>12, <1>13, <1>14, <1>15, <1>16, <1>17, <1>18, <1>19, <1>20 DEF Run

\* A run does not go back before the advisories.
LEMMA PastAdvisories ==
  ASSUME Run, StageInv, options \in Settings, pc \notin UpToAdvisories
  PROVE  pc' \notin UpToAdvisories
BY Order DEF Run, CannotStart, Open, NoManifest, VerifyManifest, KeysFor, CheckChain, CheckRecordRows,
       OpenReport, CheckSignature, CheckHead, CheckCorpus, CheckSnapshot, LoadPacks, Reproduce,
       CheckBundleSignature, CheckSampleSignature, CheckReviewRecord, CheckAdvisories,
       CannotReadAdvisories, Custody, Finish, Step

LEMMA EndInit == Init => EndInv
BY DEF Init, EndInv, Checked

LEMMA EndStep ==
  ASSUME TypeOK, StageInv, EndInv, Next
  PROVE  EndInv'
<1>1. CASE Before
  BY <1>1, BeforeFrame DEF EndInv, AnyCheck, Checked
<1>2. CASE Run
  <2>1. (exit \in {0, 1} => (exit = 1 <=> AnyCheck("fail") \/ (options.strict /\ AnyCheck("not_checked"))))'
    <3>1. CASE Finish
      BY <3>1 DEF Finish, AnyCheck
    <3>2. CASE ~Finish
      BY <1>2, <3>2, ExitStep
    <3> QED
      BY <3>1, <3>2
  <2>2. (Checked("advisories", {"pass"}) => pc \notin UpToAdvisories)'
    <3>1. CASE Checked("advisories", {"pass"})
      BY <1>2, <3>1, PastAdvisories DEF EndInv, TypeOK, UpToAdvisories, UpToRerun, UpToPacks, UpToSnapshot,
         UpToCorpus, UpToHead, UpToSignature, UpToReport, UpToChain, UpToKeys, UpToManifest
    <3>2. CASE CheckAdvisories
      BY <3>2, Order DEF CheckAdvisories, Step
    <3> QED
      BY <1>2, <3>1, <3>2, AdvisoriesOnly, Order
  <2> QED
    BY <2>1, <2>2 DEF EndInv
<1> QED
  BY <1>1, <1>2 DEF Next

\* What is checked against the advisories is what the report pins.
LEMMA PinnedIs ==
  ASSUME doc \in DOMAIN Reports, doc # Nothing, NEW advisories, NoHash \notin advisories,
         Pinned # {}, Pinned \cap advisories = {}
  PROVE  Reports[doc].own["packs"] \notin advisories /\ Reports[doc].lists \cap advisories = {}
<1> DEFINE own == Reports[doc].own["packs"]
<1>1. own # NoHash => Reports[doc].lists = {own}
  BY PacksAssumption
<1>2. Pinned \in {{packs}, Reports[doc].lists}
      /\ (Pinned # Reports[doc].lists => packs = own /\ packs # NoHash)
  BY DEF Pinned
<1> HIDE DEF own
<1>3. CASE own = NoHash
  BY <1>2, <1>3 DEF own
<1>4. CASE own # NoHash
  <2>1. Pinned = {own}
    BY <1>1, <1>2, <1>4
  <2> QED
    BY <1>1, <1>4, <2>1 DEF own
<1> QED
  BY <1>3, <1>4

LEMMA AdvisoriesStep ==
  ASSUME TypeOK, StageInv, EndInv, AdvisoriesAreForThePinned, Next
  PROVE  AdvisoriesAreForThePinned'
<1>1. CASE Before
  BY <1>1, BeforeFrame DEF AdvisoriesAreForThePinned, Checked
<1>2. CASE Run
  <2>1. CASE Checked("advisories", {"pass"})
    <3>1. pc \notin UpToAdvisories /\ checks # {}
      BY <2>1 DEF EndInv, Checked
    <3>2. Past(UpToReport)
      BY <3>1, Order DEF Past
    <3>3. doc' = doc /\ options' = options
      BY <1>2, <3>2, PastStep, RunFrame
    <3> QED
      BY <2>1, <3>3 DEF AdvisoriesAreForThePinned
  <2>2. CASE CheckAdvisories /\ ~Checked("advisories", {"pass"}) /\ Checked("advisories", {"pass"})'
    <3>1. /\ options.advisories \notin {Absent, Damaged, Unreadable}
          /\ Pinned # {} /\ Pinned \cap options.advisories = {}
          /\ doc' = doc /\ options' = options
      BY <2>2 DEF CheckAdvisories, Add, Checked, found, Step
    <3>2. doc # Nothing /\ doc \in DOMAIN Reports /\ options \in Settings
      BY <3>1 DEF Pinned, TypeOK
    <3>3. NoHash \notin options.advisories
      BY <3>1, <3>2, SettingsAssumption
    <3> QED
      BY <3>1, <3>2, <3>3, PinnedIs DEF AdvisoriesAreForThePinned
  <2> QED
    BY <1>2, <2>1, <2>2, AdvisoriesOnly DEF AdvisoriesAreForThePinned
<1> QED
  BY <1>1, <1>2 DEF Next
-----------------------------------------------------------------------------
(* What the invariant says of a run at its end.                            *)

\* A run that ends with a result is past every check.
LEMMA AtTheEnd ==
  ASSUME StageInv, exit \in {0, 1}
  PROVE  /\ Past({"start"}) /\ Past(UpToManifest) /\ Past(UpToKeys) /\ Past(UpToChain) /\ Past(UpToReport)
         /\ Past(UpToSignature) /\ Past(UpToHead) /\ Past(UpToCorpus) /\ Past(UpToSnapshot)
         /\ Past(UpToPacks) /\ Past(UpToRerun)
<1>1. pc = "end" /\ exit # 2
  BY DEF StageInv
<1> QED
  BY <1>1, Order DEF Past

LEMMA EditIsSeen ==
  ASSUME TypeOK, StageInv, ToldInv, EndInv
  PROVE  EditShows
<1> SUFFICES ASSUME exit \in {0, 1}, Bundle, Opens(export.manifest), manifest = export.manifest,
                    files # export.files
             PROVE  exit = 1
  BY DEF EditShows
<1>1. <<"members", MembersStatus>> \in checks
  BY AtTheEnd DEF ToldInv
<1>2. Problems # {}
  <2>1. /\ files = [m \in Member |-> files[m]] /\ export.files = [m \in Member |-> export.files[m]]
        /\ manifest.items = [m \in {n \in Member : export.files[n] # Absent} |-> export.files[m]]
    BY ExportsAssumption DEF TypeOK
  <2>2. PICK m \in Member : files[m] # export.files[m]
    BY <2>1
  <2>3. CASE export.files[m] = Absent
    BY <2>1, <2>2, <2>3 DEF Problems
  <2>4. CASE export.files[m] # Absent
    BY <2>1, <2>2, <2>4 DEF Problems, Matched
  <2> QED
    BY <2>3, <2>4
<1>3. AnyCheck("fail")
  BY <1>1, <1>2 DEF MembersStatus, AnyCheck
<1> QED
  BY <1>3 DEF EndInv

LEMMA ListedIsUsed ==
  ASSUME TypeOK, StageInv, FoundInv
  PROVE  OnlyListedIsUsed
<1> SUFFICES ASSUME Bundle, listed # Everything
             PROVE  /\ chain # Nothing => "chain" \in listed
                    /\ doc # Nothing => "report" \in listed
                    /\ (packs # Nothing /\ files["rules"] # Absent) => "rules" \in listed
                    /\ (snapshot # Nothing /\ Reports[doc].snapshot = Nothing) => "snapshot" \in listed
                    /\ (keys # NoKeys /\ options.keys = NoKeys) => "keys" \in listed
  BY DEF OnlyListedIsUsed
<1>1. exit = 2 => checks # {}
  BY DEF StageInv
<1>2. \A m : Opens(Read(m)) => m \in listed
  BY DEF Read, Opens
<1>3. chain # Nothing => "chain" \in listed
  <2>1. chain # Nothing => Past(UpToChain)
    BY <1>1 DEF Past, StageInv
  <2> QED
    BY <1>2, <2>1 DEF FoundInv, Decoded
<1>4. doc # Nothing => "report" \in listed
  <2>1. doc # Nothing => Past(UpToReport)
    BY <1>1 DEF Past, StageInv
  <2> QED
    BY <1>2, <2>1 DEF FoundInv, Decoded, ReportMeant
<1>5. (packs # Nothing /\ files["rules"] # Absent) => "rules" \in listed
  <2>1. packs # Nothing => doc # Nothing /\ Past(UpToPacks)
    BY <1>1 DEF Past, StageInv, FoundInv
  <2>2. packs # Nothing => Opens(PacksOffered)
    BY <2>1 DEF FoundInv, PacksFound, PacksLoad
  <2> QED
    BY <2>2 DEF PacksOffered, Opens, Read
<1>6. (snapshot # Nothing /\ Reports[doc].snapshot = Nothing) => "snapshot" \in listed
  <2>1. snapshot # Nothing => doc # Nothing /\ Past(UpToSnapshot)
    BY <1>1 DEF Past, StageInv, FoundInv
  <2>2. (snapshot # Nothing /\ Reports[doc].snapshot = Nothing) => FileIsThere
    BY <2>1 DEF FoundInv, SnapshotFound, SnapshotMeant, Embedded
  <2> QED
    BY <2>2 DEF FileIsThere, SnapshotFile, Read
<1>7. (keys # NoKeys /\ options.keys = NoKeys) => "keys" \in listed
  <2>1. keys # NoKeys => Past(UpToKeys)
    BY <1>1 DEF Past, StageInv
  <2> QED
    BY <1>2, <2>1 DEF FoundInv, KeyListUsed, BundledKeys
<1> QED
  BY <1>3, <1>4, <1>5, <1>6, <1>7

\* A signature that passes against a key list is the sealed one over the file.
LEMMA JudgedPass ==
  ASSUME NEW sig, NEW file, NEW own, keys # NoKeys, sig # Absent,
         Judged(sig, file, own) \notin {"fail", "not_checked"}
  PROVE  Opens(sig) /\ Envelopes[sig].file = file /\ Verifies(keys, Envelopes[sig])
BY DEF Judged, EnvelopeStatus, Opens

LEMMA StrictPass ==
  ASSUME TypeOK, StageInv, FoundInv, ToldInv, EndInv
  PROVE  StrictPassIsWhatWasSigned
<1> SUFFICES ASSUME exit = 0, options.strict, Bundle, options.keys # NoKeys
             PROVE  \E e \in Ours :
                      LET own == Reports[e.files["report"]].own IN
                      /\ doc = e.files["report"] /\ Reports[doc].state = "signed"
                      /\ own["head"] \in Chains[chain].intact
                      /\ snapshot = own["snapshot"] /\ Read("corpus") = own["corpus"]
                      /\ packs = own["packs"] \/ (options.lax /\ Checked("pack hash", {"flag"}))
                      /\ Checked("findings", {"pass"})
  BY DEF StrictPassIsWhatWasSigned
<1> DEFINE own == Reports[doc].own
<1>1. \A name, status : <<name, status>> \in checks => status \notin {"fail", "not_checked"}
  <2>1. ~AnyCheck("fail") /\ ~AnyCheck("not_checked")
    BY DEF EndInv
  <2> QED
    BY <2>1 DEF AnyCheck
<1>2. doc # Nothing
  BY <1>1, AtTheEnd DEF ToldInv, Checked
<1>3. keys = options.keys /\ keys \notin {NoKeys, Damaged}
  BY AtTheEnd DEF FoundInv, StageInv, KeyListUsed
<1>4. \E e \in Ours : doc = e.files["report"] /\ Reports[doc].state = "signed"
  <2> DEFINE sig == Read("reportSig")
  <2>1. SignatureStatus \notin {"fail", "not_checked"}
    BY <1>1, <1>2, AtTheEnd DEF ToldInv
  <2>2. sig # Absent
    BY <2>1 DEF SignatureStatus, UnsignedStatus
  <2>3. Opens(sig) /\ Envelopes[sig].file = doc /\ Verifies(keys, Envelopes[sig])
    BY <1>3, <2>1, <2>2, JudgedPass DEF SignatureStatus
  <2>4. sig = files["reportSig"] /\ "reportSig" \in Member
    BY <2>3, ReadIs, FormatAssumption
  <2>5. PICK x \in Exports : sig = x.files["reportSig"]
    BY <2>3, <2>4, OpensExported
  <2>6. options \in Settings /\ doc \in DOMAIN Reports
    BY <1>2 DEF TypeOK
  <2> HIDE DEF sig
  <2> QED
    BY <1>3, <2>3, <2>5, <2>6, SealsAssumption
<1>5. own["head"] \in Chains[chain].intact
  <2>1. HeadStatus \notin {"fail", "not_checked"}
    BY <1>1, <1>2, AtTheEnd DEF ToldInv
  <2> QED
    BY <2>1 DEF HeadStatus
<1>6. snapshot = own["snapshot"] /\ snapshot # Nothing
  <2>1. SnapshotChecks \subseteq checks /\ snapshot = SnapshotFound
    BY <1>2, AtTheEnd DEF ToldInv, FoundInv
  <2>2. SnapshotMeant # Nothing
    BY <1>1, <2>1 DEF SnapshotChecks
  <2>3. ~SnapshotIsBad
    BY <1>1, <2>1, <2>2 DEF SnapshotChecks
  <2>4. own["snapshot"] # NoHash
    BY <1>1, <2>1, <2>2, <2>3 DEF SnapshotChecks
  <2> QED
    BY <2>1, <2>2, <2>3, <2>4 DEF SnapshotFound, SnapshotIsBad
<1>7. Read("corpus") = own["corpus"]
  <2>1. CorpusStatus \notin {"fail", "not_checked"}
    BY <1>1, <1>2, AtTheEnd DEF ToldInv
  <2> QED
    BY <2>1 DEF CorpusStatus
<1>8. /\ packs # Nothing
      /\ packs = own["packs"] \/ (options.lax /\ Checked("pack hash", {"flag"}))
  <2>1. PackChecks \subseteq checks /\ packs = PacksFound
    BY <1>2, AtTheEnd DEF ToldInv, FoundInv
  <2>2. Opens(PacksOffered)
    BY <1>1, <2>1 DEF PackChecks
  <2>3. <<"pack hash", PackHashStatus(PacksOffered)>> \in checks
    BY <2>1, <2>2 DEF PackChecks
  <2>4. packs = PacksOffered
    BY <1>1, <2>1, <2>2, <2>3 DEF PacksFound, PacksLoad
  <2>5. PacksOffered = own["packs"] \/ (options.lax /\ PackHashStatus(PacksOffered) = "flag")
    BY <1>1, <2>3 DEF PackHashStatus
  <2> QED
    BY <2>2, <2>3, <2>4, <2>5, PacksOfferedAre DEF Checked
<1>9. Checked("findings", {"pass"})
  BY <1>1, <1>6, <1>8, AtTheEnd DEF ToldInv, Checked
<1> QED
  BY <1>4, <1>5, <1>6, <1>7, <1>8, <1>9
-----------------------------------------------------------------------------
(* An export nobody touched.                                               *)

\* The copy of an honest run: the manifest lists what it holds, and all of it can be read.
LEMMA HonestCopy ==
  ASSUME TypeOK, StageInv, FoundInv, Honest
  PROVE  /\ Opens(manifest) /\ Problems = {}
         /\ \A m \in Member : files[m] \notin {Damaged, Unreadable}
         /\ Past(UpToManifest) =>
              /\ listed # Everything
              /\ \A m \in Member : Read(m) = files[m]
         /\ options.kind # "report"
<1>1. /\ export \in Ours /\ export \in Exports
      /\ files = export.files /\ manifest = export.manifest /\ Bundle
  BY DEF Honest, Unedited, TypeOK
<1>2. Opens(manifest) /\ \A m \in Member : files[m] \notin {Damaged, Unreadable}
  BY <1>1, OursAssumption
<1>3. manifest.items = [m \in {n \in Member : files[n] # Absent} |-> files[m]]
  BY <1>1, <1>2, ExportsAssumption
<1>4. Matched = {m \in Member : files[m] # Absent}
  BY <1>2, <1>3 DEF Matched
<1>5. Problems = {}
  BY <1>3, <1>4 DEF Problems
<1>6. ASSUME Past(UpToManifest)
      PROVE  listed # Everything /\ \A m \in Member : Read(m) = files[m]
  <2>1. listed = Matched
    BY <1>1, <1>2, <1>6 DEF FoundInv
  <2>2. listed \in SUBSET Member
    BY <1>4, <2>1
  <2>3. listed # Everything
    BY <2>2, FormatAssumption
  <2> QED
    BY <1>4, <2>1, <2>3 DEF Read
<1> QED
  BY <1>1, <1>2, <1>5, <1>6 DEF Bundle

\* The key list of an honest run is one the organisation published, or none.
LEMMA HonestKeys ==
  ASSUME TypeOK, StageInv, FoundInv, Honest, Past(UpToManifest)
  PROVE  /\ KeyListUsed \in PublishedLists(export) \cup {NoKeys}
         /\ BundledKeys \in PublishedLists(export) \cup {NoKeys}
         /\ options.keys \in PublishedLists(export) \cup {NoKeys}
<1>1. options.keys # Damaged /\ options \in Settings
  BY Order DEF StageInv, Past, TypeOK
<1>2. options.keys \in PublishedLists(export) \cup {NoKeys}
  BY <1>1 DEF Honest, PublishedLists
<1>3. BundledKeys \in PublishedLists(export) \cup {NoKeys}
  <2>1. "keys" \in Member /\ files = export.files
    BY FormatAssumption DEF Honest, Unedited
  <2>2. Read("keys") = export.files["keys"]
    BY <2>1, HonestCopy
  <2> QED
    BY <2>2 DEF BundledKeys, PublishedLists, Opens
<1> QED
  BY <1>2, <1>3 DEF KeyListUsed

\* Published lists agree on every key.
LEMMA PublishedAgree ==
  ASSUME NEW x \in Ours, NEW mine \in PublishedLists(x), NEW bundled \in PublishedLists(x)
  PROVE  ~Disagrees(mine, bundled)
<1> SUFFICES ASSUME NEW j \in 1..Len(bundled), NEW i \in Entries(mine, bundled[j].id)
             PROVE  mine[i].pub = bundled[j].pub
  BY DEF Disagrees
<1>1. /\ \A k \in 1..Len(mine) : CustodyStatus(mine, mine[k].id) = "info"
      /\ \A k \in 1..Len(bundled) : CustodyStatus(bundled, bundled[k].id) = "info"
  BY OursAssumption
<1>2. i \in 1..Len(mine) /\ mine[i].id = bundled[j].id
  BY DEF Entries
<1>3. Usable(mine, mine[i].id) /\ Usable(bundled, bundled[j].id)
  BY <1>1, <1>2 DEF CustodyStatus
<1>4. mine[i].pub = mine[i].id
  BY <1>2, <1>3 DEF Usable, Entries
<1>5. bundled[j].pub = bundled[j].id
  BY <1>3 DEF Usable, Entries
<1> QED
  BY <1>2, <1>4, <1>5

\* A detached signature of the organisation does not fail against its lists, or against none.
LEMMA SignedHolds ==
  ASSUME NEW sig, NEW file, NEW own, NEW lists, IsSigned(sig, file, own, lists), sig # Absent,
         keys \in lists \cup {NoKeys}
  PROVE  Judged(sig, file, own) # "fail"
BY DEF IsSigned, Judged, EnvelopeStatus, Opens

\* The report of an honest run, and its chain.
LEMMA HonestReport ==
  ASSUME TypeOK, StageInv, FoundInv, Honest, doc # Nothing
  PROVE  doc = export.files["report"] /\ Past(UpToManifest) /\ doc \in DOMAIN Reports
<1>1. exit # 2 /\ pc \notin UpToReport
  BY DEF Honest, StageInv
<1>2. Past(UpToReport) /\ Past(UpToManifest)
  BY <1>1, Order DEF Past
<1>3. doc = ReportMeant
  BY <1>2 DEF FoundInv, Decoded
<1>4. ReportMeant = files["report"]
  BY <1>2, HonestCopy, FormatAssumption DEF ReportMeant, Honest
<1> QED
  BY <1>2, <1>3, <1>4 DEF Honest, Unedited, TypeOK

LEMMA HonestChain ==
  ASSUME TypeOK, StageInv, FoundInv, Honest, chain # Nothing
  PROVE  chain = export.files["chain"] /\ chain # Absent
<1>1. exit # 2 /\ pc \notin UpToChain /\ Bundle
  BY DEF Honest, StageInv
<1>2. Past(UpToChain) /\ Past(UpToManifest)
  BY <1>1, Order DEF Past
<1>3. chain = Read("chain") /\ chain # Absent
  BY <1>1, <1>2 DEF FoundInv, Decoded, Opens
<1>4. Read("chain") = files["chain"]
  BY <1>2, HonestCopy, FormatAssumption
<1> QED
  BY <1>3, <1>4 DEF Honest, Unedited

\* The snapshot and the packs of an honest run are those its report is of.
LEMMA HonestSnapshot ==
  ASSUME TypeOK, StageInv, FoundInv, Honest, doc # Nothing
  PROVE  /\ ~SnapshotIsBad \/ SnapshotMeant = Nothing
         /\ SnapshotMeant # Nothing => SnapshotMeant = SnapshotOf(export) /\ SnapshotMeant # Absent
         /\ SnapshotFile # Unreadable
<1>1. /\ doc = export.files["report"] /\ Past(UpToManifest) /\ doc \in DOMAIN Reports
      /\ export \in Ours /\ files = export.files /\ Bundle
  BY HonestReport DEF Honest, Unedited
<1>2. SnapshotFile = export.files["snapshot"] /\ SnapshotFile # Unreadable
  BY <1>1, HonestCopy, FormatAssumption DEF SnapshotFile
<1>3. /\ SnapshotFile \in {Absent, SnapshotOf(export)} /\ SnapshotOf(export) # Damaged
      /\ Reports[doc].own["snapshot"] \in {NoHash, SnapshotOf(export)}
  BY <1>1, <1>2, OursAssumption
<1>4. SnapshotOf(export) = IF Embedded = Nothing THEN SnapshotFile ELSE Embedded
  BY <1>1, <1>2 DEF SnapshotOf, Embedded
<1>5. Embedded \in {Nothing, Damaged} \cup DOMAIN UpdatedAt /\ Absent \notin DOMAIN UpdatedAt
  BY <1>1, FormatAssumption DEF Embedded
<1>6. SnapshotFile # Absent <=> FileIsThere
  BY <1>2 DEF FileIsThere
<1>7. CASE Embedded = Nothing
  BY <1>2, <1>3, <1>4, <1>6, <1>7 DEF SnapshotMeant, SnapshotIsBad
<1>8. CASE Embedded # Nothing
  BY <1>2, <1>3, <1>4, <1>5, <1>6, <1>8 DEF SnapshotMeant, SnapshotIsBad
<1> QED
  BY <1>2, <1>7, <1>8

LEMMA HonestPacks ==
  ASSUME TypeOK, StageInv, FoundInv, Honest, doc # Nothing
  PROVE  /\ Opens(PacksOffered) \/ PacksOffered = Absent
         /\ Opens(PacksOffered) =>
              /\ PackHashStatus(PacksOffered) # "fail"
              /\ PacksOffered = PacksOf(export) /\ PacksOffered # NoHash
<1>1. /\ doc = export.files["report"] /\ Past(UpToManifest) /\ doc \in DOMAIN Reports
      /\ export \in Ours /\ export \in Exports /\ files = export.files /\ Bundle
      /\ options \in Settings
  BY HonestReport DEF Honest, Unedited, TypeOK
<1>2. "rules" \in Member /\ Read("rules") = files["rules"]
  BY <1>1, HonestCopy, FormatAssumption
<1> DEFINE own == Reports[doc].own["packs"]
<1>3. CASE files["rules"] # Absent
  <2>1. PacksOffered = files["rules"] /\ PacksOf(export) = files["rules"]
    BY <1>1, <1>2, <1>3 DEF PacksOffered, PacksOf
  <2>2. Opens(PacksOffered)
    BY <1>2, <1>3, <2>1, HonestCopy DEF Opens
  <2>3. own \in {NoHash, PacksOffered} /\ PacksOffered # NoHash
    BY <1>1, <2>1, OursAssumption, ExportsAssumption
  <2> QED
    BY <2>1, <2>2, <2>3 DEF PackHashStatus
<1>4. CASE files["rules"] = Absent
  <2>1. PacksOffered = options.rules /\ PacksOf(export) = own
    BY <1>1, <1>4 DEF PacksOffered, PacksOf
  <2>2. PacksOffered \in {Absent, own} /\ PacksOffered # NoHash
    BY <1>1, <1>4, <2>1, SettingsAssumption DEF Honest
  <2>3. own \notin {Damaged, Unreadable}
    BY <1>1, PacksAssumption
  <2> QED
    BY <2>1, <2>2, <2>3 DEF PackHashStatus, Opens
<1> QED
  BY <1>3, <1>4

\* What the checks of an honest run add, one after the other.
LEMMA HonestKeysFor ==
  ASSUME TypeOK, StageInv, FoundInv, Honest, KeysFor
  PROVE  \A c \in checks' : c \in checks \/ c[2] # "fail"
<1>1. Past(UpToManifest) /\ export \in Ours
  BY Order DEF Honest, KeysFor, Step, Past
<1>2. Read("keys") \notin {Unreadable, Damaged}
  BY <1>1, HonestCopy, FormatAssumption
<1>3. options.keys # NoKeys /\ BundledKeys # NoKeys => ~Disagrees(options.keys, BundledKeys)
  BY <1>1, HonestKeys, PublishedAgree
<1> DEFINE disagree == IF Disagrees(options.keys, BundledKeys) THEN "fail" ELSE "pass"
           used == IF KeyListUsed = NoKeys THEN "not_checked" ELSE "info"
           compared == IF options.keys # NoKeys /\ BundledKeys # NoKeys THEN {<<"keys.json", disagree>>} ELSE {}
<1>4. checks' = checks \cup compared \cup {<<"key list", used>>}
  BY <1>2 DEF KeysFor, Add
<1>5. used # "fail" /\ (compared = {} \/ (compared = {<<"keys.json", disagree>>} /\ disagree # "fail"))
  BY <1>3
<1> HIDE DEF used, disagree, compared
<1>6. \A c \in compared \cup {<<"key list", used>>} : c[2] # "fail"
  <2>1. <<"key list", used>>[2] = used /\ <<"keys.json", disagree>>[2] = disagree
    OBVIOUS
  <2>2. \A c \in compared : c = <<"keys.json", disagree>> /\ disagree # "fail"
    BY <1>5
  <2> QED
    BY <1>5, <2>1, <2>2
<1> QED
  BY <1>4, <1>6

LEMMA HonestCheckChain ==
  ASSUME TypeOK, StageInv, FoundInv, Honest, CheckChain
  PROVE  \A c \in checks' : c \in checks \/ c[2] # "fail"
<1>1. Past(UpToManifest) /\ export \in Ours /\ files = export.files
  BY Order DEF Honest, Unedited, CheckChain, Step, Past
<1>2. Read("chain") = export.files["chain"] /\ Read("chain") \notin {Unreadable, Damaged}
  BY <1>1, HonestCopy, FormatAssumption
<1>3. Read("chain") # Absent => "fail" \notin Chains[Read("chain")].statuses
  BY <1>1, <1>2, OursAssumption
<1> QED
  BY <1>2, <1>3 DEF CheckChain, Add, Opens

LEMMA HonestRecordRows ==
  ASSUME TypeOK, StageInv, FoundInv, Honest, CheckRecordRows
  PROVE  \A c \in checks' : c \in checks \/ c[2] # "fail"
<1>1. Past(UpToManifest) /\ export \in Ours /\ files = export.files
  BY Order DEF Honest, Unedited, CheckRecordRows, Step, Past
<1>2. Read("custody") = export.files["custody"] /\ Read("custody") \notin {Unreadable, Damaged}
  BY <1>1, HonestCopy, FormatAssumption
<1>3. Opens(Read("custody")) /\ chain # Nothing => Rows[Read("custody")] \subseteq Chains[chain].records
  BY <1>1, <1>2, HonestChain, OursAssumption DEF Opens
<1>4. Opens(Read("custody")) => RowsStatus(Read("custody")) # "fail"
  BY <1>3 DEF RowsStatus
<1>5. Read("custody") # Absent => Opens(Read("custody"))
  BY <1>2 DEF Opens
<1> DEFINE status == RowsStatus(Read("custody"))
<1>6. checks' = checks \/ (Read("custody") # Absent /\ checks' = checks \cup {<<"record rows", status>>})
  BY DEF CheckRecordRows, Add
<1> HIDE DEF status
<1>7. <<"record rows", status>>[2] = status
  OBVIOUS
<1>8. Read("custody") # Absent => status # "fail"
  BY <1>4, <1>5 DEF status
<1> QED
  BY <1>6, <1>7, <1>8

\* The report of an honest run opens.
LEMMA HonestOpens ==
  ASSUME TypeOK, StageInv, FoundInv, Honest, Past(UpToManifest)
  PROVE  Opens(ReportMeant)
<1>1. export \in Ours /\ Bundle /\ files = export.files
  BY DEF Honest, Unedited
<1>2. "report" \in Member
  BY FormatAssumption
<1>3. ReportMeant = files["report"] /\ files["report"] \notin {Damaged, Unreadable}
  BY <1>1, <1>2, HonestCopy DEF ReportMeant
<1>4. files["report"] # Absent
  BY <1>1, OursAssumption
<1> QED
  BY <1>3, <1>4 DEF Opens

LEMMA HonestOpenReport ==
  ASSUME TypeOK, StageInv, FoundInv, Honest, OpenReport
  PROVE  \A c \in checks' : c \in checks \/ c[2] # "fail"
<1>1. Past(UpToManifest) /\ export \in Ours /\ files = export.files /\ Bundle
  BY Order DEF Honest, Unedited, OpenReport, Step, Past
<1>2. Opens(ReportMeant)
  BY <1>1, HonestOpens
<1> QED
  BY <1>2 DEF OpenReport, Add

LEMMA HonestSignature ==
  ASSUME TypeOK, StageInv, FoundInv, Honest, doc # Nothing
  PROVE  SignatureStatus # "fail"
<1> DEFINE sig == Read("reportSig")
<1>1. /\ doc = export.files["report"] /\ Past(UpToManifest) /\ export \in Ours /\ files = export.files
      /\ pc \notin UpToReport
  BY HonestReport DEF Honest, Unedited, StageInv
<1>2. sig = export.files["reportSig"]
  BY <1>1, HonestCopy, FormatAssumption
<1>3. /\ IsSigned(sig, doc, Reports[doc].own, PublishedLists(export))
      /\ sig = Absent => Reports[doc].state # "signed"
  BY <1>1, <1>2, OursAssumption
<1>4. keys \in PublishedLists(export) \cup {NoKeys}
  BY <1>1, HonestKeys, Order DEF FoundInv, Past
<1> HIDE DEF sig
<1>5. sig # Absent => Judged(sig, doc, Reports[doc].own) # "fail"
  BY <1>3, <1>4, SignedHolds
<1> QED
  BY <1>3, <1>5 DEF SignatureStatus, UnsignedStatus, sig

LEMMA HonestHead ==
  ASSUME TypeOK, StageInv, FoundInv, Honest, doc # Nothing
  PROVE  HeadStatus # "fail" /\ CorpusStatus # "fail"
<1>1. /\ doc = export.files["report"] /\ Past(UpToManifest) /\ export \in Ours /\ files = export.files
  BY HonestReport DEF Honest, Unedited
<1>2. HeadStatus # "fail"
  BY <1>1, HonestChain, OursAssumption DEF HeadStatus
<1>3. Read("corpus") = export.files["corpus"] /\ Read("corpus") # Unreadable
  BY <1>1, HonestCopy, FormatAssumption
<1>4. Read("corpus") # Absent => Reports[doc].own["corpus"] \in {NoHash, Read("corpus")}
  BY <1>1, <1>3, OursAssumption
<1>5. CorpusStatus # "fail"
  BY <1>3, <1>4 DEF CorpusStatus
<1> QED
  BY <1>2, <1>5

\* The re-run of an honest run is the run the report tells of.
LEMMA HonestReproduce ==
  ASSUME TypeOK, StageInv, FoundInv, Honest, Reproduce, hurried' = {}
  PROVE  \A c \in checks' : c \in checks \/ c[2] # "fail"
<1>1. /\ doc # Nothing /\ packs # Nothing /\ snapshot # Nothing /\ pc = "rerun"
      /\ export \in Ours /\ Bundle /\ files = export.files /\ exit # 2
  BY DEF Honest, Unedited, Reproduce, Step, StageInv
<1>2. doc = export.files["report"] /\ Past(UpToManifest) /\ doc \in DOMAIN Reports
  BY <1>1, HonestReport
<1>3. snapshot = SnapshotOf(export) /\ snapshot # Absent
  <2>1. snapshot = SnapshotFound
    BY <1>1, Order DEF FoundInv, Past
  <2>2. snapshot = SnapshotMeant
    BY <1>1, <2>1 DEF SnapshotFound
  <2> QED
    BY <1>1, <2>2, HonestSnapshot
<1>4. packs = PacksOf(export) /\ packs # NoHash
  <2>1. packs = PacksFound
    BY <1>1, Order DEF FoundInv, Past
  <2>2. packs = PacksOffered /\ Opens(PacksOffered)
    BY <1>1, <2>1 DEF PacksFound, PacksLoad
  <2> QED
    BY <1>1, <2>2, HonestPacks
<1>5. /\ TimeOf(export) # NoTime
      /\ Results(packs, snapshot, TimeOf(export), PolicyOf(export)) = Reports[doc].results
  BY <1>1, <1>2, <1>3, <1>4, OursAssumption
<1>6. clock' = TimeOf(export)
  <2>1. ProducedAt = NoTime
    BY <1>2, HonestCopy DEF ProducedAt, ManifestAgain, Opens
  <2>2. EvaluationClock = TimeOf(export)
    BY <1>2, <1>3, <1>5, <2>1 DEF EvaluationClock, TimeOf
  <2> QED
    BY <2>2 DEF Reproduce
<1> DEFINE raw == Read("policy")
<1>7. raw = export.files["policy"] /\ raw \notin {Damaged, Unreadable}
  BY <1>1, <1>2, HonestCopy, FormatAssumption
<1>8. PolicyOf(export) = IF Opens(raw) THEN raw ELSE DefaultPolicy
  BY <1>7 DEF PolicyOf, Opens
<1> DEFINE got == Results(packs, snapshot, clock', IF Opens(raw) THEN raw ELSE DefaultPolicy)
<1>9. got = Reports[doc].results
  BY <1>5, <1>6, <1>8
<1>10. got \ {} = got
  <2> HIDE DEF got
  <2> QED
    OBVIOUS
<1>11. checks' = checks \cup {<<"findings", IF got \ hurried' = Reports[doc].results THEN "pass" ELSE "fail">>}
  <2> HIDE DEF raw
  <2> QED
    BY <1>1, <1>7 DEF Reproduce, Add, raw
<1> HIDE DEF got
<1>12. checks' = checks \cup {<<"findings", "pass">>}
  BY <1>9, <1>10, <1>11
<1> QED
  BY <1>12

\* The signatures beside the zip and the sample.
LEMMA HonestSignatures ==
  ASSUME TypeOK, StageInv, FoundInv, Honest, Past(UpToKeys)
  PROVE  /\ zipSig # Absent => Judged(zipSig, <<files, manifest>>, Unstated) # "fail"
         /\ Read("sample") # Unreadable
         /\ Read("sampleSig") # Absent => Judged(Read("sampleSig"), Read("sample"), Unstated) # "fail"
<1>1. /\ Past(UpToManifest) /\ export \in Ours
      /\ files = export.files /\ manifest = export.manifest /\ zipSig = export.zipSig
  BY Order DEF Honest, Unedited, Past
<1>2. keys \in PublishedLists(export) \cup {NoKeys}
  BY <1>1, HonestKeys DEF FoundInv
<1>3. /\ Read("sample") = export.files["sample"] /\ Read("sample") # Unreadable
      /\ Read("sampleSig") = export.files["sampleSig"]
  BY <1>1, HonestCopy, FormatAssumption
<1>4. /\ IsSigned(zipSig, <<files, manifest>>, Unstated, PublishedLists(export))
      /\ IsSigned(Read("sampleSig"), Read("sample"), Unstated, PublishedLists(export))
  BY <1>1, <1>3, OursAssumption
<1>5. zipSig # Absent => Judged(zipSig, <<files, manifest>>, Unstated) # "fail"
  BY <1>2, <1>4, SignedHolds
<1>6. Read("sampleSig") # Absent => Judged(Read("sampleSig"), Read("sample"), Unstated) # "fail"
  BY <1>2, <1>4, SignedHolds
<1> QED
  BY <1>3, <1>5, <1>6

LEMMA HonestReview ==
  ASSUME TypeOK, StageInv, FoundInv, Honest, CheckReviewRecord
  PROVE  \A c \in checks' : c \in checks \/ c[2] # "fail"
<1>1. /\ pc = "review" /\ Past(UpToReport) /\ Past(UpToManifest) /\ export \in Ours /\ files = export.files
      /\ Bundle
  BY Order DEF Honest, Unedited, CheckReviewRecord, Step, Past
<1>2. Read("record") = export.files["record"] /\ Read("record") \notin {Unreadable, Damaged}
  BY <1>1, HonestCopy, FormatAssumption
<1>3. doc = export.files["report"]
  <2>1. Opens(ReportMeant)
    BY <1>1, HonestOpens
  <2>2. doc # Nothing
    BY <1>1, <2>1, ReportMeantType DEF FoundInv, Decoded
  <2> QED
    BY <2>2, HonestReport
<1>4. BundleArchs \subseteq {Reports[doc].arch}
  BY <1>1, HonestCopy DEF BundleArchs, ManifestAgain, Opens
<1>5. Read("record") # Absent =>
        Records[Read("record")].arch = Reports[doc].arch /\ "fail" \notin Records[Read("record")].statuses
  BY <1>1, <1>2, <1>3, OursAssumption
<1>6. PICK statuses : checks' = checks \cup ({"review record"} \X statuses) /\ "fail" \notin statuses
  <2>1. CASE Read("record") = Absent
    <3> DEFINE only == {"info"}
    <3>1. checks' = checks \cup ({"review record"} \X only) /\ "fail" \notin only
      BY <2>1 DEF CheckReviewRecord, Add
    <3> HIDE DEF only
    <3> QED
      BY <3>1
  <2>2. CASE Read("record") # Absent
    <3>1. Opens(Read("record"))
      BY <1>2, <2>2 DEF Opens
    <3>2. BundleArchs \subseteq {Records[Read("record")].arch}
      BY <1>4, <1>5, <2>2
    <3>3. checks' = checks \cup ({"review record"} \X Records[Read("record")].statuses)
      BY <2>2, <3>1, <3>2 DEF CheckReviewRecord, Add
    <3> QED
      BY <1>5, <2>2, <3>3
  <2> QED
    BY <2>1, <2>2
<1> QED
  BY <1>6

LEMMA HonestCustody ==
  ASSUME TypeOK, StageInv, FoundInv, Honest, Custody
  PROVE  \A c \in checks' : c \in checks \/ c[2] # "fail"
<1>1. Past(UpToKeys) /\ Past(UpToManifest) /\ export \in Ours
  BY Order DEF Honest, Custody, Step, Past
<1>2. keys \in PublishedLists(export) \cup {NoKeys}
  BY <1>1, HonestKeys DEF FoundInv
<1>3. keys # NoKeys => \A i \in 1..Len(keys) : CustodyStatus(keys, keys[i].id) = "info"
  BY <1>1, <1>2, OursAssumption
<1>4. CASE keys = NoKeys
  BY <1>4 DEF Custody, Add
<1>5. CASE keys # NoKeys
  <2>1. checks' = checks \cup {<<"key", CustodyStatus(keys, keys[i].id)>> : i \in 1..Len(keys)}
    BY <1>5 DEF Custody, Add
  <2>2. \A c \in checks' : c \in checks \/ c = <<"key", "info">>
    BY <1>3, <1>5, <2>1
  <2> QED
    BY <2>2
<1> QED
  BY <1>4, <1>5

\* Where a step leaves a run honest, it was honest before.
LEMMA HonestBefore ==
  ASSUME StageInv, Run, Honest'
  PROVE  Honest /\ hurried' = {}
<1>1. /\ UNCHANGED <<export, files, manifest, zipSig, options>>
      /\ (Bundle' <=> Bundle)
  BY RunFrame DEF Bundle
<1>2. exit = -1
  BY ExitStep
<1>3. hurried = {} \/ hurried' = hurried
  <2>1. CASE Reproduce
    BY <2>1, Order DEF Reproduce, Step, StageInv
  <2>2. CASE ~Reproduce
    BY <2>2 DEF Run, CannotStart, Open, NoManifest, VerifyManifest, KeysFor, CheckChain,
       CheckRecordRows, OpenReport, CheckSignature, CheckHead, CheckCorpus, CheckSnapshot, LoadPacks,
       CheckBundleSignature, CheckSampleSignature, CheckReviewRecord, CheckAdvisories,
       CannotReadAdvisories, Custody, Finish, found
  <2> QED
    BY <2>1, <2>2
<1> QED
  BY <1>1, <1>2, <1>3 DEF Honest, Unedited

LEMMA HonestStep ==
  ASSUME TypeOK, StageInv, FoundInv, HonestInv, Next
  PROVE  HonestInv'
<1>1. CASE Before
  <2>1. checks = {} /\ checks' = checks
    BY <1>1, BeforeFrame DEF StageInv
  <2> QED
    BY <2>1 DEF HonestInv, AnyCheck
<1>2. CASE Run
  <2> SUFFICES ASSUME Honest' PROVE \A c \in checks' : c[2] # "fail"
    BY DEF HonestInv, AnyCheck
  <2>0. Honest /\ hurried' = {} /\ Bundle /\ options.advisories # Damaged
    BY <1>2, HonestBefore DEF Honest
  <2>a. \A c \in checks : c[2] # "fail"
    BY <2>0 DEF HonestInv, AnyCheck
  <2> SUFFICES \A c \in checks' : c \in checks \/ c[2] # "fail"
    BY <2>a
  <2>s. ASSUME NEW name, NEW status, status # "fail", checks' = checks \cup {<<name, status>>}
        PROVE  \A c \in checks' : c \in checks \/ c[2] # "fail"
    <3>1. <<name, status>>[2] = status
      OBVIOUS
    <3> QED
      BY <2>s, <3>1
  <2>1. CASE CannotStart \/ Open \/ CannotReadAdvisories \/ Finish
    BY <2>1 DEF CannotStart, Open, CannotReadAdvisories, Finish
  <2>2. CASE NoManifest
    BY <2>0, <2>2, HonestCopy DEF NoManifest
  <2>3. CASE VerifyManifest
    <3>1. checks' = checks \cup {<<"members", "pass">>}
      BY <2>0, <2>3, HonestCopy DEF VerifyManifest, MembersStatus, Add
    <3> QED
      BY <3>1, <2>s
  <2>4. CASE KeysFor
    BY <2>0, <2>4, HonestKeysFor
  <2>5. CASE CheckChain
    BY <2>0, <2>5, HonestCheckChain
  <2>6. CASE CheckRecordRows
    BY <2>0, <2>6, HonestRecordRows
  <2>7. CASE OpenReport
    BY <2>0, <2>7, HonestOpenReport
  <2>8. CASE CheckSignature
    <3>1. doc # Nothing
      BY <2>8 DEF CheckSignature, Step, StageInv
    <3>2. checks' = checks \cup {<<"report signature", SignatureStatus>>}
      BY <2>8 DEF CheckSignature, Add
    <3> QED
      BY <2>0, <2>s, <3>1, <3>2, HonestSignature
  <2>9. CASE CheckHead
    <3>1. doc # Nothing
      BY <2>9 DEF CheckHead, Step, StageInv
    <3>2. checks' = checks \cup {<<"report chain head", HeadStatus>>}
      BY <2>9 DEF CheckHead, Add
    <3> QED
      BY <2>0, <2>s, <3>1, <3>2, HonestHead
  <2>10. CASE CheckCorpus
    <3>1. doc # Nothing
      BY <2>10 DEF CheckCorpus, Step, StageInv
    <3>2. checks' = checks \cup {<<"corpus", CorpusStatus>>}
      BY <2>10 DEF CheckCorpus, Add
    <3> QED
      BY <2>0, <2>s, <3>1, <3>2, HonestHead
  <2>11. CASE CheckSnapshot
    <3>1. doc # Nothing
      BY <2>11 DEF CheckSnapshot, Step, StageInv
    <3>2. SnapshotFile # Unreadable /\ (SnapshotMeant = Nothing \/ ~SnapshotIsBad)
      BY <2>0, <3>1, HonestSnapshot
    <3> DEFINE hash == IF Reports[doc].own["snapshot"] = NoHash THEN "not_checked" ELSE "pass"
    <3>3. \/ checks' = checks \cup {<<"snapshot", "not_checked">>}
          \/ checks' = checks \cup {<<"snapshot hash", hash>>}
      BY <2>11, <3>2 DEF CheckSnapshot, SnapshotChecks, Add
    <3>4. hash # "fail"
      OBVIOUS
    <3> HIDE DEF hash
    <3> QED
      BY <2>s, <3>3, <3>4
  <2>12. CASE LoadPacks
    <3>1. doc # Nothing
      BY <2>12 DEF LoadPacks, Step, StageInv
    <3>2. \/ Opens(PacksOffered) /\ PackHashStatus(PacksOffered) # "fail"
          \/ ~Opens(PacksOffered) /\ PacksOffered = Absent
      BY <2>0, <3>1, HonestPacks DEF Opens
    <3>3. \/ checks' = checks \cup {<<"pack hash", PackHashStatus(PacksOffered)>>}
             /\ PackHashStatus(PacksOffered) # "fail"
          \/ checks' = checks \cup {<<"rule packs", "not_checked">>}
      BY <2>12, <3>2 DEF LoadPacks, PackChecks, Add
    <3> QED
      BY <2>s, <3>3
  <2>13. CASE Reproduce
    BY <2>0, <2>13, HonestReproduce
  <2>14. CASE CheckBundleSignature
    <3>1. Past(UpToKeys)
      BY <2>14, <2>0, Order DEF CheckBundleSignature, Step, Past, Honest
    <3> DEFINE status == IF zipSig = Absent THEN "not_checked" ELSE Judged(zipSig, <<files, manifest>>, Unstated)
    <3>2. status # "fail"
      BY <2>0, <3>1, HonestSignatures
    <3>3. checks' = checks \cup {<<"bundle signature", status>>}
      BY <2>14 DEF CheckBundleSignature, Add
    <3> HIDE DEF status
    <3> QED
      BY <2>s, <3>2, <3>3
  <2>15. CASE CheckSampleSignature
    <3>1. Past(UpToKeys)
      BY <2>15, <2>0, Order DEF CheckSampleSignature, Step, Past, Honest
    <3> DEFINE status == IF Read("sampleSig") = Absent THEN "not_checked"
                         ELSE Judged(Read("sampleSig"), Read("sample"), Unstated)
    <3>2. status # "fail" /\ Read("sample") # Unreadable
      BY <2>0, <3>1, HonestSignatures
    <3>3. checks' = checks \/ checks' = checks \cup {<<"sample signature", status>>}
      BY <2>15, <3>2 DEF CheckSampleSignature, Add
    <3> HIDE DEF status
    <3> QED
      BY <2>s, <3>2, <3>3
  <2>16. CASE CheckReviewRecord
    BY <2>0, <2>16, HonestReview
  <2>17. CASE CheckAdvisories
    <3>1. PICK status \in {"not_checked", "flag", "pass"} : checks' = checks \cup {<<"advisories", status>>}
      BY <2>0, <2>17 DEF CheckAdvisories, Add
    <3> QED
      BY <2>s, <3>1
  <2>18. CASE Custody
    BY <2>0, <2>18, HonestCustody
  <2> QED
    BY <1>2, <2>1, <2>2, <2>3, <2>4, <2>5, <2>6, <2>7, <2>8, <2>9, <2>10, <2>11, <2>12, <2>13, <2>14,
       <2>15, <2>16, <2>17, <2>18 DEF Run
<1> QED
  BY <1>1, <1>2 DEF Next

\* What an honest run that ended found.
LEMMA HonestEnd ==
  ASSUME TypeOK, StageInv, HonestInv
  PROVE  HonestNeverFails
<1> SUFFICES ASSUME exit \in {0, 1}, Bundle, Unedited, export \in Ours, hurried = {},
                    options.advisories # Damaged,
                    options.keys # NoKeys =>
                      \A i \in 1..Len(options.keys) : Usable(options.keys, options.keys[i].id),
                    export.files["rules"] # Absent
                      \/ options.rules \in {Absent, Reports[export.files["report"]].own["packs"]}
             PROVE  ~AnyCheck("fail")
  BY DEF HonestNeverFails
<1>1. exit # 2
  OBVIOUS
<1>2. Honest
  BY <1>1 DEF Honest
<1> QED
  BY <1>2 DEF HonestInv
-----------------------------------------------------------------------------
(* The theorems.                                                           *)

LEMMA InitInv == Init => IInv
BY TypeInit, StageInit, FoundInit, ToldInit, EndInit
DEF Init, IInv, HonestInv, AnyCheck, AdvisoriesAreForThePinned, Checked

LEMMA ToldBefore == ToldInv /\ Before => ToldInv'
<1> SUFFICES ASSUME Before PROVE ToldInv'
  OBVIOUS
<1>1. pc' = "start"
  BY BeforeFrame
<1> QED
  BY <1>1, Order DEF ToldInv, Past

LEMMA StepInv == IInv /\ [Next]_vars => IInv'
<1> SUFFICES ASSUME IInv, [Next]_vars PROVE IInv'
  OBVIOUS
<1>0. TypeOK /\ StageInv /\ FoundInv /\ ToldInv /\ HonestInv /\ EndInv /\ AdvisoriesAreForThePinned
  BY DEF IInv
<1>1. CASE Next
  <2>1. TypeOK'
    BY <1>0, <1>1, TypeBefore, TypeRun DEF Next
  <2>2. ToldInv'
    BY <1>0, <1>1, ToldBefore, ToldStep DEF Next
  <2>3. StageInv'
    BY <1>0, <1>1, StageStep
  <2>4. FoundInv'
    BY <1>0, <1>1, FoundStep
  <2>5. HonestInv'
    BY <1>0, <1>1, HonestStep
  <2>6. EndInv'
    BY <1>0, <1>1, EndStep
  <2>7. AdvisoriesAreForThePinned'
    BY <1>0, <1>1, AdvisoriesStep
  <2> QED
    BY <2>1, <2>2, <2>3, <2>4, <2>5, <2>6, <2>7 DEF IInv
<1>2. CASE UNCHANGED vars
  <2> USE <1>2 DEF vars, copy, found
  <2>1. /\ UNCHANGED <<export, files, manifest, zipSig, edits, options, pc, checks, exit>>
        /\ UNCHANGED <<listed, keys, chain, doc, snapshot, packs, clock, hurried>>
    OBVIOUS
  <2>2. TypeOK'
    BY <1>0, <2>1 DEF TypeOK, Opens
  <2>3. StageInv'
    BY <1>0, <2>1 DEF StageInv, Past, Bundle
  <2>4. FoundInv'
    BY <1>0, <2>1, KeptReads, KeptByReport DEF FoundInv, Past, Opens
  <2>5. ToldInv'
    <3>1. /\ MembersStatus' = MembersStatus /\ SignatureStatus' = SignatureStatus
          /\ HeadStatus' = HeadStatus /\ CorpusStatus' = CorpusStatus
          /\ SnapshotChecks' = SnapshotChecks /\ PackChecks' = PackChecks
          /\ (Bundle' <=> Bundle) /\ (Opens(manifest)' <=> Opens(manifest))
      BY <2>1, KeptReads, KeptByReport, KeptStatuses DEF Opens
    <3>2. \A upTo : Past(upTo)' <=> Past(upTo)
      BY <2>1 DEF Past
    <3>3. \A name, statuses : Checked(name, statuses)' <=> Checked(name, statuses)
      BY <2>1 DEF Checked
    <3>4. ToldInv
      BY <1>0
    <3> QED
      BY <2>1, <3>1, <3>2, <3>3, <3>4 DEF ToldInv
  <2>6. HonestInv'
    BY <1>0, <2>1 DEF HonestInv, Honest, Bundle, Unedited, AnyCheck
  <2>7. EndInv' /\ AdvisoriesAreForThePinned'
    BY <1>0, <2>1 DEF EndInv, AdvisoriesAreForThePinned, AnyCheck, Checked
  <2> QED
    BY <2>2, <2>3, <2>4, <2>5, <2>6, <2>7 DEF IInv
<1> QED
  BY <1>1, <1>2

\* Every state of a run: the checks run in their order, what each found is what the copy holds, and
\* what each told stays told (verify/verify.go Run).
THEOREM Invariance == Spec => []IInv
BY InitInv, StepInv, PTL DEF Spec

\* Each variable has its type, whatever was exported and however the verifier is called.
THEOREM TypeCorrect == Spec => []TypeOK
<1>1. IInv => TypeOK
  BY DEF IInv
<1> QED
  BY <1>1, Invariance, PTL

\* An export of the organisation that nobody touched never fails, at any time and with any of the
\* lists it published (asof.go, keys.go).
THEOREM HonestPasses == Spec => []HonestNeverFails
<1>1. IInv => HonestNeverFails
  BY HonestEnd DEF IInv
<1> QED
  BY <1>1, Invariance, PTL

\* Under the exported manifest no change of a member goes unnoticed (manifest.go verifyManifest).
THEOREM EditsShow == Spec => []EditShows
<1>1. IInv => EditShows
  BY EditIsSeen DEF IInv
<1> QED
  BY <1>1, Invariance, PTL

\* A run goes on with nothing that a manifest it read does not list (input.go read, reproduce.go
\* packFiles).
THEOREM OnlyListed == Spec => []OnlyListedIsUsed
<1>1. IInv => OnlyListedIsUsed
  BY ListedIsUsed DEF IInv
<1> QED
  BY <1>1, Invariance, PTL

\* A strict pass with the organisation's own key list is about one thing the organisation signed,
\* however the members were mixed up and the manifest rewritten (verify.go, reproduce.go).
THEOREM StrictPassIsSigned == Spec => []StrictPassIsWhatWasSigned
<1>1. IInv => StrictPassIsWhatWasSigned
  BY StrictPass DEF IInv
<1> QED
  BY <1>1, Invariance, PTL

\* An advisory list passes only against the packs the report pins (advisories.go checkAdvisories).
THEOREM AdvisoriesArePinned == Spec => []AdvisoriesAreForThePinned
<1>1. IInv => AdvisoriesAreForThePinned
  BY DEF IInv
<1> QED
  BY <1>1, Invariance, PTL
=============================================================================
