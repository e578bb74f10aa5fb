--------------------------- MODULE EvidenceChain ----------------------------
(***************************************************************************)
(* verifyChain (verify/chain.go): the walk over a chain export that        *)
(* recomputes every hash from genesis, then the checks of the head, of the *)
(* anchored_by marks and of the head a report names (verify/verify.go).    *)
(*                                                                         *)
(* The input is any export of the set Exports: complete, cut by a limit,   *)
(* or edited since the store wrote it.  One action is one iteration of the *)
(* loop over events, or one of the checks after it.                        *)
(***************************************************************************)
EXTENDS ChainHashing, AnchorOrder

CONSTANTS
  Exports,     \* the exports the verifier is given
  NotAnExport, \* a file that does not parse as one
  ReportHeads  \* the chain heads a report names (NoHash: it names none)

ASSUME ExportsAssumption ==
  /\ Exports \subseteq ChainExport \cup {NotAnExport}
  /\ NotAnExport \notin ChainExport
  /\ ReportHeads \subseteq Hash \cup {NoHash}

VARIABLES
  exp,        \* the export under verification
  reportHead, \* the chain head the report names
  pc,         \* the check that runs next
  next,       \* the position of the event the loop reads next
  prev,       \* prev: the hash the next event must link to
  broken,     \* the position at which the links broke, 0 when they have not
  intact,     \* st.intact: the number of leading events whose links recompute
  linksOK,    \* st.linksOK
  checks      \* the report: the status of each check, "none" while it has none

vars == <<exp, reportHead, pc, next, prev, broken, intact, linksOK, checks>>

CheckName == {"input", "count", "links", "head", "anchored_by", "report"}
Status == {"none", "pass", "fail", "not_checked"}

N == Len(exp.events)

-----------------------------------------------------------------------------
Init ==
  /\ exp \in Exports
  /\ reportHead \in ReportHeads
  /\ pc = "parse"
  /\ next = 1
  /\ prev = GenesisHash
  /\ broken = 0
  /\ intact = 0
  /\ linksOK = TRUE
  /\ checks = [c \in CheckName |-> "none"]

\* No chain state comes out of a file that is not an export, or that holds no events:
\* the report's head then has no chain to be compared with.
NoChain ==
  /\ pc = "parse"
  /\ checks' = [checks EXCEPT !["input"] = "fail", !["report"] = "not_checked"]
  /\ pc' = "done"
  /\ UNCHANGED <<exp, reportHead, next, prev, broken, intact, linksOK>>

RejectInput == exp = NotAnExport /\ NoChain

RejectEmpty == exp # NotAnExport /\ exp.events = << >> /\ NoChain

\* Mistakes.  A name with a suffix, here and below, is a definition as a plausible mistake in the
\* code would have it: no specification uses it.  Put in place of the definition it is named
\* after, it breaks a property, which shows that the property can tell the two apart.
CompareCount_Forgotten ==
  /\ pc = "parse"
  /\ exp # NotAnExport
  /\ exp.events # << >>
  /\ checks' = IF exp.count # NoCount /\ exp.count # N
               THEN [checks EXCEPT !["count"] = "fail"] ELSE checks
  /\ pc' = "links"
  /\ UNCHANGED <<exp, reportHead, next, prev, broken, intact, linksOK>>

\* An export that states another number of events than it holds was cut by a limit.
CompareCount ==
  /\ pc = "parse"
  /\ exp # NotAnExport
  /\ exp.events # << >>
  /\ LET cut == exp.count # NoCount /\ exp.count # N IN
     /\ linksOK' = ~cut
     /\ checks' = IF cut THEN [checks EXCEPT !["count"] = "fail"] ELSE checks
  /\ pc' = "links"
  /\ UNCHANGED <<exp, reportHead, next, prev, broken, intact>>

Breaks_Unlinked(e, prevHash) ==
  \/ PayloadHash(e.payload) # e.payloadHash
  \/ ChainHash(e.prevHash, PayloadHash(e.payload), e.fields) # e.hash

\* The five ways an event breaks the chain (the switch of the loop).
Breaks(e, prevHash) ==
  \/ exp.arch # NoArch /\ e.arch # NoArch /\ e.arch # exp.arch
  \/ PayloadHash(e.payload) = NotJSON
  \/ PayloadHash(e.payload) # e.payloadHash
  \/ e.prevHash # prevHash
  \/ ChainHash(e.prevHash, PayloadHash(e.payload), e.fields) # e.hash

LinkEvent_FromHead ==
  /\ pc = "links"
  /\ next <= N
  /\ broken = 0
  /\ IF Breaks(exp.events[next], prev)
     THEN broken' = next /\ UNCHANGED intact
     ELSE intact' = next /\ UNCHANGED broken
  /\ prev' = exp.headHash
  /\ next' = next + 1
  /\ UNCHANGED <<exp, reportHead, pc, linksOK, checks>>

LinkEvent_AfterBreak ==
  /\ pc = "links"
  /\ next <= N
  /\ LET e == exp.events[next] IN
     /\ IF Breaks(e, prev)
        THEN broken' = next /\ UNCHANGED intact
        ELSE intact' = next /\ UNCHANGED broken
     /\ prev' = e.hash
  /\ next' = next + 1
  /\ UNCHANGED <<exp, reportHead, pc, linksOK, checks>>

\* An iteration while the links hold.
LinkEvent ==
  /\ pc = "links"
  /\ next <= N
  /\ broken = 0
  /\ LET e == exp.events[next] IN
     /\ IF Breaks(e, prev)
        THEN broken' = next /\ UNCHANGED intact
        ELSE intact' = next /\ UNCHANGED broken
     /\ prev' = e.hash
  /\ next' = next + 1
  /\ UNCHANGED <<exp, reportHead, pc, linksOK, checks>>

\* An iteration after they broke: the event is recomputed but no longer judged.
SkipEvent ==
  /\ pc = "links"
  /\ next <= N
  /\ broken # 0
  /\ next' = next + 1
  /\ UNCHANGED <<exp, reportHead, pc, prev, broken, intact, linksOK, checks>>

\* The verdict on the links.  A cut export whose links hold gets no second verdict.
JudgeLinks ==
  /\ pc = "links"
  /\ next > N
  /\ linksOK' = (linksOK /\ broken = 0)
  /\ checks' = IF broken # 0 THEN [checks EXCEPT !["links"] = "fail"]
               ELSE IF linksOK THEN [checks EXCEPT !["links"] = "pass"]
               ELSE checks
  /\ pc' = "head"
  /\ UNCHANGED <<exp, reportHead, next, prev, broken, intact>>

HeadStatus_Stored ==
  IF exp.headHash = NoHash THEN "not_checked"
  ELSE IF exp.headHash = exp.events[N].hash THEN "pass" ELSE "fail"

HeadStatus ==
  IF exp.headHash = NoHash THEN "not_checked"
  ELSE IF exp.headHash = exp.events[N].hash /\ linksOK THEN "pass" ELSE "fail"

CheckHead ==
  /\ pc = "head"
  /\ checks' = [checks EXCEPT !["head"] = HeadStatus]
  /\ pc' = "marks"
  /\ UNCHANGED <<exp, reportHead, next, prev, broken, intact, linksOK>>

\* checkAnchoredBy: every mark is the receipt the event falls under.
MarksStatus ==
  IF \/ \A k \in 1..N : exp.events[k].mark = MarkAbsent
     \/ \E k \in 1..N : exp.events[k].seq = NoSeq
  THEN "not_checked"
  ELSE IF \A k \in 1..N : exp.events[k].mark = WantedMark(exp.anchors, exp.events[k].seq, NoAnchor)
  THEN "pass" ELSE "fail"

CheckMarks ==
  /\ pc = "marks"
  /\ checks' = [checks EXCEPT !["anchored_by"] = MarksStatus]
  /\ pc' = "report"
  /\ UNCHANGED <<exp, reportHead, next, prev, broken, intact, linksOK>>

HasHash_Stored(h) == {k \in 1..N : exp.events[k].hash = h}

\* hasHash: the events that recompute and carry this stored hash.
HasHash(h) == {k \in 1..intact : exp.events[k].hash = h}

\* The report names a head: it must be an intact event of this chain.
CheckReportHead ==
  /\ pc = "report"
  /\ checks' = [checks EXCEPT !["report"] =
                  IF reportHead = NoHash THEN "not_checked"
                  ELSE IF HasHash(reportHead) # {} THEN "pass" ELSE "fail"]
  /\ pc' = "done"
  /\ UNCHANGED <<exp, reportHead, next, prev, broken, intact, linksOK>>

\* The verification ends with its report.
Finished == pc = "done" /\ UNCHANGED vars

Next ==
  \/ RejectInput \/ RejectEmpty \/ CompareCount
  \/ LinkEvent \/ SkipEvent \/ JudgeLinks
  \/ CheckHead \/ CheckMarks \/ CheckReportHead
  \/ Finished

Spec == Init /\ [][Next]_vars

-----------------------------------------------------------------------------
(***************************************************************************)
(* Properties.                                                             *)
(***************************************************************************)

\* Every variable has its type.
TypeOK ==
  /\ exp \in ChainExport \cup {NotAnExport}
  /\ reportHead \in Hash \cup {NoHash}
  /\ pc \in {"parse", "links", "head", "marks", "report", "done"}
  /\ next \in Nat \ {0}
  /\ prev \in Hash
  /\ broken \in Nat
  /\ intact \in Nat
  /\ linksOK \in BOOLEAN
  /\ checks \in [CheckName -> Status]

\* verifyChain: each hash among the intact events commits to the contents of
\* every event up to it, so no event before it can differ from what was hashed.
IntactCommits ==
  exp # NotAnExport =>
    \A k \in 1..intact : exp.events[k].hash = Contents(exp.events, k)

\* verifyChain: when the head passes, the head hash commits to every event of
\* the export, in order: two exports that pass with one head hash have the same
\* contents, whatever else they store.
HeadCommitsToExport ==
  checks["head"] = "pass" =>
    /\ exp.headHash = Contents(exp.events, N)
    /\ exp.count \in {NoCount, N}

\* verify.go, report chain head: it passes only when the report's head commits to
\* the first events of the export, also when the chain breaks after them.
ReportHeadCommits ==
  checks["report"] = "pass" =>
    \E k \in 1..N : reportHead = Contents(exp.events, k)

\* verifyChain names the first break and no other: every event before it
\* recomputes, it does not, and no later iteration moves it.
FirstBreakIsNamed ==
  broken # 0 =>
    /\ broken = intact + 1
    /\ broken < next
    /\ Breaks(exp.events[broken],
              IF broken = 1 THEN GenesisHash ELSE exp.events[broken - 1].hash)

\* verifyChain never takes back what it found: an intact event stays intact, a
\* broken chain stays broken at the same event, and linksOK never becomes true
\* again (the count and the links both clear it).
VerdictsStand ==
  [][/\ intact' >= intact
     /\ broken # 0 => broken' = broken /\ intact' = intact
     /\ ~linksOK => ~linksOK'
     /\ \A c \in CheckName : checks[c] # "none" => checks'[c] = checks[c]]_vars

\* checkAnchoredBy: when the marks pass, each event is marked with an ok receipt
\* of the smallest head at or after it, and with none when no ok receipt covers it.
MarksFollowReceipts ==
  checks["anchored_by"] = "pass" =>
    \A k \in 1..N :
      LET e == exp.events[k]
          covering == {i \in 1..Len(exp.anchors) :
                         exp.anchors[i].ok /\ exp.anchors[i].headSeq >= e.seq}
      IN  /\ e.seq # NoSeq
          /\ IF covering = {} THEN e.mark = NoAnchor
             ELSE \E i \in covering :
                    /\ e.mark = exp.anchors[i].id
                    /\ \A j \in covering : exp.anchors[i].headSeq <= exp.anchors[j].headSeq

\* The walk shows nothing until it is done; then it shows what the audit reports.
ShownVerdict ==
  IF pc = "done"
  THEN [links |-> checks["links"], head |-> checks["head"], report |-> checks["report"]]
  ELSE [links |-> "none", head |-> "none", report |-> "none"]

Audit == INSTANCE ChainAudit WITH verdict <- ShownVerdict

\* verifyChain implements the audit: whatever the order of its checks, its early
\* exits and its running state, it reports what one look at the whole export gives.
ImplementsAudit == Audit!AuditSpec

-----------------------------------------------------------------------------
(***************************************************************************)
(* The inductive invariant: what the walk has established when it reads    *)
(* its next event, and how the later checks depend on it.                  *)
(***************************************************************************)

\* The export can be walked: it parses and holds events.
Walkable == IF exp = NotAnExport THEN FALSE ELSE exp.events # << >>

\* The stored hash of event k, genesis before the first.
HashAt(k) == IF k = 0 THEN GenesisHash ELSE exp.events[k].hash

Linked == pc \in {"head", "marks", "report", "done"}

\* A file that cannot be walked gets no verdict on a chain.
RejectedInv ==
  ~Walkable =>
    /\ pc \in {"parse", "done"}
    /\ intact = 0 /\ broken = 0
    /\ checks["links"] = "none" /\ checks["head"] = "none"
    /\ checks["report"] = IF pc = "done" THEN "not_checked" ELSE "none"

\* The walk: every event before the first break is authentic, the break is not.
WalkInv ==
  Walkable =>
    /\ pc = "parse" => next = 1
    /\ next <= N + 1
    /\ Linked => next = N + 1
    /\ Audit!AuthenticUpTo(intact)
    /\ broken = 0 => intact = next - 1 /\ prev = HashAt(next - 1)
    /\ broken # 0 => /\ broken = intact + 1 /\ broken < next
                     /\ Breaks(exp.events[broken], HashAt(broken - 1))

\* The verdicts on links and head, and when they are there.
VerdictInv ==
  Walkable =>
    /\ pc = "links" => (linksOK <=> Audit!Whole)
    /\ Linked => (linksOK <=> Audit!Whole /\ broken = 0)
    /\ checks["links"] = IF Linked THEN IF broken # 0 THEN "fail" ELSE
                                          IF linksOK THEN "pass" ELSE "none"
                         ELSE "none"
    /\ checks["head"] = IF pc \in {"marks", "report", "done"} THEN HeadStatus ELSE "none"
    /\ pc # "done" => checks["report"] = "none"
    /\ pc = "done" => checks["report"] =
                        IF reportHead = NoHash THEN "not_checked"
                        ELSE IF HasHash(reportHead) # {} THEN "pass" ELSE "fail"

\* A check has no status before it ran.
PendingInv ==
  /\ pc = "parse" => linksOK /\ \A c \in CheckName : checks[c] = "none"
  /\ pc \in {"links", "head", "marks"} => checks["anchored_by"] = "none"

\* The verdict on the marks is about this export.
MarksInv ==
  checks["anchored_by"] # "none" => exp # NotAnExport /\ checks["anchored_by"] = MarksStatus

\* The conjunction that every step keeps.
IInv == TypeOK /\ RejectedInv /\ WalkInv /\ VerdictInv /\ PendingInv /\ MarksInv
=============================================================================
