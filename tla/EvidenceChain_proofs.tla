------------------------ MODULE EvidenceChain_proofs ------------------------
(***************************************************************************)
(* Proofs about verifyChain for every set of exports: the inductive        *)
(* invariant, the safety properties that follow from it, and that the walk *)
(* implements the audit.                                                   *)
(***************************************************************************)
EXTENDS EvidenceChain, SequenceTheorems, TLAPS

\* OkAnchors is a fold.
FO == INSTANCE FoldTheorems WITH Op <- AddOk

\* A link is well formed whatever the event holds.
LEMMA LinkOfType ==
  ASSUME NEW e \in Event
  PROVE  LinkOf(e) \in Link
BY ConversionAssumption DEF Event, LinkOf, Link, PayloadHash

\* The contents of any beginning of a chain are a hash.
LEMMA ContentsType ==
  ASSUME NEW s \in Seq(Event), NEW k \in 0..Len(s)
  PROVE  Contents(s, k) \in Hash
<1>1. \A j \in 1..k : LinkOf(s[j]) \in Link
  BY LinkOfType, ElementOfSeq
<1>2. Contents(s, k) \in [1..k -> Link]
  BY <1>1 DEF Contents
<1> QED BY <1>2 DEF Hash

\* Hashing the next event's contents onto the hash of those before it gives the contents
\* of all of them: ChainHash computes Contents event by event.
LEMMA ContentsStep ==
  ASSUME NEW s \in Seq(Event), NEW k \in 1..Len(s)
  PROVE  /\ ChainHash(Contents(s, k - 1), PayloadHash(s[k].payload), s[k].fields)
              = Contents(s, k)
         /\ Contents(s, 0) = GenesisHash
<1>1. k - 1 \in 0..Len(s) /\ k \in 0..Len(s) /\ k \in Nat /\ k - 1 \in Nat /\ Len(s) \in Nat
  OBVIOUS
<1> DEFINE old == Contents(s, k - 1)
           new == Contents(s, k)
           app == Append(old, LinkOf(s[k]))
<1>2. old \in Seq(Link) /\ new \in Seq(Link) /\ LinkOf(s[k]) \in Link
  BY <1>1, ContentsType, LinkOfType, ElementOfSeq DEF Hash
<1>3. Len(old) = k - 1 /\ Len(new) = k
  BY <1>1, <1>2, LenProperties DEF Contents
<1>4. app \in Seq(Link) /\ Len(app) = k
  BY <1>1, <1>2, <1>3
<1>5. \A i \in 1..k : app[i] = new[i]
  BY <1>1, <1>2, <1>3 DEF Contents
<1>6. app = new
  BY <1>2, <1>3, <1>4, <1>5, SeqEqual
<1>7. Contents(s, 0) = << >>
  BY DEF Contents
<1> QED BY <1>6, <1>7 DEF ChainHash, LinkOf, GenesisHash

\* What TypeOK says of an export that can be walked.
LEMMA WalkableType ==
  ASSUME TypeOK, Walkable
  PROVE  /\ exp \in ChainExport
         /\ exp.events \in Seq(Event)
         /\ N \in Nat \ {0}
         /\ \A k \in 1..N : exp.events[k] \in Event /\ exp.events[k].hash \in Hash
<1>1. exp \in ChainExport
  BY DEF TypeOK, Walkable
<1>2. exp.events \in Seq(Event) /\ exp.events # << >>
  BY <1>1 DEF Walkable, ChainExport
<1>3. N \in Nat \ {0}
  BY <1>2, EmptySeq DEF N
<1>4. \A k \in 1..N : exp.events[k] \in Event
  BY <1>2, <1>3, ElementOfSeq DEF N
<1> QED BY <1>1, <1>2, <1>3, <1>4 DEF Event

\* The audit reads payloads and contents as the walk does.
LEMMA AuditsSameContents ==
  /\ \A p : Audit!PayloadHash(p) = PayloadHash(p)
  /\ \A s, k : Audit!Contents(s, k) = Contents(s, k)
BY DEF PayloadHash, Audit!PayloadHash, Contents, Audit!Contents, LinkOf, Audit!LinkOf

\* An event that does not break a chain whose earlier events are authentic is authentic
\* itself, and one that does is not.
LEMMA BreakDecides ==
  ASSUME TypeOK, Walkable, NEW k \in 1..N, Audit!AuthenticUpTo(k - 1)
  PROVE  Audit!Authentic(k) <=> ~Breaks(exp.events[k], HashAt(k - 1))
<1> DEFINE e == exp.events[k]
<1>1. k \in 1..Len(exp.events) /\ exp.events \in Seq(Event) /\ N \in Nat
  BY WalkableType DEF N
<1>2. HashAt(k - 1) = Contents(exp.events, k - 1)
  <2>1. CASE k = 1
    BY <2>1, <1>1, ContentsStep DEF HashAt
  <2>2. CASE k # 1
    <3>1. k - 1 \in 1..(k - 1) /\ k - 1 # 0
      BY <2>2, <1>1
    <3>2. Audit!Authentic(k - 1)
      BY <3>1 DEF Audit!AuthenticUpTo
    <3> QED BY <3>1, <3>2, AuditsSameContents DEF Audit!Authentic, HashAt
  <2> QED BY <2>1, <2>2
<1>3. ChainHash(Contents(exp.events, k - 1), PayloadHash(e.payload), e.fields)
        = Contents(exp.events, k)
  BY <1>1, ContentsStep
<1> QED BY <1>2, <1>3, AuditsSameContents DEF Breaks, Audit!Authentic

-----------------------------------------------------------------------------
(***************************************************************************)
(* The inductive invariant.                                                *)
(***************************************************************************)

\* Nothing is walked and nothing is judged at the start.
LEMMA InitInv == Init => IInv
<1> SUFFICES ASSUME Init PROVE IInv
  OBVIOUS
<1>1. TypeOK
  BY ExportsAssumption, EmptySeq DEF Init, TypeOK, CheckName, Status, GenesisHash, Hash
<1>2. RejectedInv
  BY DEF Init, RejectedInv, CheckName
<1>3. WalkInv
  <2> SUFFICES ASSUME Walkable PROVE WalkInv
    BY DEF WalkInv
  <2>1. N \in Nat \ {0}
    BY <1>1, WalkableType
  <2> QED BY <2>1 DEF Init, WalkInv, Linked, Audit!AuthenticUpTo, HashAt
<1>4. VerdictInv
  BY DEF Init, VerdictInv, Linked, CheckName
<1>5. PendingInv
  BY DEF Init, PendingInv, CheckName
<1>6. MarksInv
  BY DEF Init, MarksInv, CheckName
<1> QED BY <1>1, <1>2, <1>3, <1>4, <1>5, <1>6 DEF IInv

\* A check sets a status and leaves the rest of the report alone.
LEMMA TypeStep == TypeOK /\ RejectedInv /\ [Next]_vars => TypeOK'
<1> SUFFICES ASSUME TypeOK, RejectedInv, [Next]_vars PROVE TypeOK'
  OBVIOUS
<1> USE DEF TypeOK, CheckName, Status
<1>1. CASE RejectInput
  BY <1>1 DEF RejectInput, NoChain
<1>2. CASE RejectEmpty
  BY <1>2 DEF RejectEmpty, NoChain
<1>3. CASE CompareCount
  BY <1>3 DEF CompareCount
<1>4. CASE LinkEvent
  <2>1. Walkable
    BY <1>4 DEF LinkEvent, RejectedInv
  <2>2. next \in 1..N /\ exp.events[next].hash \in Hash
    BY <2>1, <1>4, WalkableType DEF LinkEvent
  <2> QED BY <1>4, <2>2 DEF LinkEvent
<1>5. CASE SkipEvent
  BY <1>5 DEF SkipEvent
<1>6. CASE JudgeLinks
  BY <1>6 DEF JudgeLinks
<1>7. CASE CheckHead
  BY <1>7 DEF CheckHead, HeadStatus
<1>8. CASE CheckMarks
  BY <1>8 DEF CheckMarks, MarksStatus
<1>9. CASE CheckReportHead
  BY <1>9 DEF CheckReportHead
<1>10. CASE UNCHANGED vars
  BY <1>10 DEF vars
<1> QED BY <1>1, <1>2, <1>3, <1>4, <1>5, <1>6, <1>7, <1>8, <1>9, <1>10 DEF Next, Finished

\* The export is read only: what depends on it alone does not change.
LEMMA ExportUnchanged ==
  ASSUME UNCHANGED <<exp, reportHead>>
  PROVE  /\ Walkable' = Walkable
         /\ N' = N
         /\ \A k : Audit!Authentic(k)' = Audit!Authentic(k)
         /\ \A k : HashAt(k)' = HashAt(k)
         /\ \A e, h : Breaks(e, h)' = Breaks(e, h)
         /\ Audit!Whole' = Audit!Whole
BY DEF Walkable, N, Audit!Authentic, HashAt, Breaks, Audit!Whole, Audit!Len0

\* Every step leaves the export alone.
LEMMA StepKeepsExport == [Next]_vars => UNCHANGED <<exp, reportHead>>
BY DEF Next, vars, RejectInput, RejectEmpty, NoChain, CompareCount, LinkEvent, SkipEvent,
       JudgeLinks, CheckHead, CheckMarks, CheckReportHead, Finished

\* An export that was refused stays refused: no later check adds a status to it.
LEMMA RejectedStep == IInv /\ [Next]_vars => RejectedInv'
<1> SUFFICES ASSUME IInv, [Next]_vars, ~Walkable PROVE RejectedInv'
  BY StepKeepsExport, ExportUnchanged DEF RejectedInv
<1> USE DEF IInv, RejectedInv, TypeOK, CheckName
<1>1. pc \in {"parse", "done"}
  OBVIOUS
<1>2. CASE RejectInput \/ RejectEmpty
  BY <1>2 DEF RejectInput, RejectEmpty, NoChain
<1>3. CASE CompareCount
  BY <1>3 DEF CompareCount, Walkable
<1>4. CASE LinkEvent \/ SkipEvent \/ JudgeLinks \/ CheckHead \/ CheckMarks \/ CheckReportHead
  BY <1>1, <1>4 DEF LinkEvent, SkipEvent, JudgeLinks, CheckHead, CheckMarks, CheckReportHead
<1>5. CASE Finished \/ UNCHANGED vars
  BY <1>5 DEF Finished, vars
<1> QED BY <1>2, <1>3, <1>4, <1>5 DEF Next

\* The walk: LinkEvent extends the intact beginning by one authentic event or names the break.
LEMMA WalkStep == IInv /\ [Next]_vars => WalkInv'
<1> SUFFICES ASSUME IInv, [Next]_vars, Walkable PROVE WalkInv'
  BY StepKeepsExport, ExportUnchanged DEF WalkInv
<1>1. UNCHANGED <<exp, reportHead>>
  BY StepKeepsExport
<1>2. Walkable' /\ N' = N /\ N \in Nat \ {0} /\ exp # NotAnExport /\ exp.events # << >>
  BY <1>1, ExportUnchanged, WalkableType DEF IInv, Walkable
<1>3. \A k : Audit!AuthenticUpTo(k)' = Audit!AuthenticUpTo(k)
  BY <1>1, ExportUnchanged DEF Audit!AuthenticUpTo
<1>4. CASE LinkEvent
  <2>1. /\ broken = 0 /\ next \in 1..N /\ intact = next - 1
        /\ prev = HashAt(next - 1) /\ Audit!AuthenticUpTo(next - 1)
    BY <1>2, <1>4 DEF LinkEvent, IInv, TypeOK, WalkInv
  <2>2. Audit!Authentic(next) <=> ~Breaks(exp.events[next], prev)
    BY <2>1, BreakDecides DEF IInv
  <2>3. pc' = "links" /\ next' = next + 1 /\ prev' = HashAt(next)
    BY <1>4, <2>1 DEF LinkEvent, HashAt
  <2>4. CASE Breaks(exp.events[next], prev)
    <3>1. broken' = next /\ intact' = intact
      BY <1>4, <2>4 DEF LinkEvent
    <3> QED BY <1>1, <1>2, <1>3, <2>1, <2>3, <2>4, <3>1, ExportUnchanged
         DEF WalkInv, Linked
  <2>5. CASE ~Breaks(exp.events[next], prev)
    <3>1. broken' = broken /\ intact' = next
      BY <1>4, <2>5 DEF LinkEvent
    <3>2. Audit!AuthenticUpTo(next)
      BY <2>1, <2>2, <2>5 DEF Audit!AuthenticUpTo
    <3> QED BY <1>1, <1>2, <1>3, <2>1, <2>3, <3>1, <3>2, ExportUnchanged
         DEF WalkInv, Linked
  <2> QED BY <2>4, <2>5
<1>5. CASE SkipEvent
  BY <1>1, <1>2, <1>3, <1>5, ExportUnchanged
     DEF SkipEvent, IInv, TypeOK, WalkInv, Linked
<1>6. CASE RejectInput \/ RejectEmpty
  BY <1>2, <1>6 DEF RejectInput, RejectEmpty
<1>7. CASE CompareCount \/ JudgeLinks \/ CheckHead \/ CheckMarks \/ CheckReportHead
  BY <1>1, <1>2, <1>3, <1>7, ExportUnchanged
     DEF CompareCount, JudgeLinks, CheckHead, CheckMarks, CheckReportHead, IInv, TypeOK,
         WalkInv, Linked
<1>8. CASE Finished \/ UNCHANGED vars
  BY <1>1, <1>2, <1>3, <1>8, ExportUnchanged DEF Finished, vars, IInv, WalkInv, Linked
<1> QED BY <1>4, <1>5, <1>6, <1>7, <1>8 DEF Next

\* A status is set from the walk that is behind it, and from nothing else.
LEMMA VerdictStep == IInv /\ [Next]_vars => VerdictInv'
<1> SUFFICES ASSUME IInv, [Next]_vars, Walkable PROVE VerdictInv'
  BY StepKeepsExport, ExportUnchanged DEF VerdictInv
<1>1. UNCHANGED <<exp, reportHead>>
  BY StepKeepsExport
<1>2. Walkable' /\ N' = N /\ exp # NotAnExport /\ exp.events # << >> /\ Audit!Whole' = Audit!Whole
  BY <1>1, ExportUnchanged DEF Walkable
<1>3. VerdictInv /\ WalkInv /\ TypeOK
  BY DEF IInv
<1> USE <1>1, <1>2, <1>3 DEF VerdictInv, Linked, CheckName, TypeOK
<1>4. CASE RejectInput \/ RejectEmpty
  BY <1>4 DEF RejectInput, RejectEmpty
<1>5. CASE CompareCount
  BY <1>5 DEF CompareCount, WalkInv, Audit!Whole, Audit!Len0, N
<1>6. CASE LinkEvent \/ SkipEvent
  BY <1>6 DEF LinkEvent, SkipEvent
<1>7. CASE JudgeLinks
  BY <1>7 DEF JudgeLinks
<1>8. CASE CheckHead
  BY <1>8 DEF CheckHead, HeadStatus
<1>9. CASE CheckMarks
  BY <1>9 DEF CheckMarks, HeadStatus
<1>10. CASE CheckReportHead
  BY <1>10 DEF CheckReportHead, HeadStatus, HasHash
<1>11. CASE Finished \/ UNCHANGED vars
  BY <1>11 DEF Finished, vars, HeadStatus, HasHash
<1> QED BY <1>4, <1>5, <1>6, <1>7, <1>8, <1>9, <1>10, <1>11 DEF Next

\* A check that is still to come has no status.
LEMMA PendingStep == IInv /\ [Next]_vars => PendingInv'
BY DEF IInv, PendingInv, TypeOK, CheckName, Next, vars, RejectInput, RejectEmpty, NoChain,
       CompareCount, LinkEvent, SkipEvent, JudgeLinks, CheckHead, CheckMarks, CheckReportHead,
       Finished

\* The verdict on the marks is about the export that was walked.
LEMMA MarksStep == IInv /\ [Next]_vars => MarksInv'
<1> SUFFICES ASSUME IInv, [Next]_vars PROVE MarksInv'
  OBVIOUS
<1>1. exp' = exp /\ MarksStatus' = MarksStatus
  BY StepKeepsExport DEF MarksStatus, N
<1>2. CASE CheckMarks
  <2>1. Walkable
    BY <1>2 DEF CheckMarks, IInv, RejectedInv
  <2>2. exp # NotAnExport
    BY <2>1 DEF Walkable
  <2> QED BY <1>1, <1>2, <2>2 DEF CheckMarks, MarksInv, IInv, TypeOK, CheckName
<1>3. CASE ~CheckMarks
  <2>1. checks'["anchored_by"] = checks["anchored_by"]
    BY <1>3 DEF IInv, TypeOK, CheckName, Next, vars, RejectInput, RejectEmpty, NoChain, CompareCount,
                LinkEvent, SkipEvent, JudgeLinks, CheckHead, CheckReportHead, Finished
  <2> QED BY <1>1, <2>1 DEF IInv, MarksInv
<1> QED BY <1>2, <1>3

\* The walk over a chain keeps its inductive invariant, for every set of exports.
THEOREM Invariance == Spec => []IInv
<1>1. Init => IInv
  BY InitInv
<1>2. IInv /\ [Next]_vars => IInv'
  BY TypeStep, RejectedStep, WalkStep, VerdictStep, PendingStep, MarksStep DEF IInv
<1> QED BY <1>1, <1>2, PTL DEF Spec

-----------------------------------------------------------------------------
(***************************************************************************)
(* What the invariant gives.                                               *)
(***************************************************************************)

\* Type correctness, for every set of exports.
THEOREM TypeCorrect == Spec => []TypeOK
BY Invariance, PTL DEF IInv

\* Where the links hold, an authentic event's hash commits to all contents up to it.
LEMMA AuthenticCommits ==
  ASSUME IInv, Walkable, NEW k \in 1..intact
  PROVE  /\ k \in 1..N
         /\ Audit!AuthenticUpTo(k)
         /\ exp.events[k].hash = Contents(exp.events, k)
<1>1. intact \in 0..N /\ N \in Nat
  BY WalkableType DEF IInv, WalkInv, TypeOK
<1>2. \A j \in 1..intact : Audit!Authentic(j)
  BY DEF IInv, WalkInv, Audit!AuthenticUpTo
<1>3. Audit!AuthenticUpTo(k)
  BY <1>1, <1>2 DEF Audit!AuthenticUpTo
<1> QED BY <1>1, <1>2, <1>3, AuditsSameContents DEF Audit!Authentic

\* An intact event's hash commits to the contents of every event up to it.
THEOREM IntactCommitsHolds == Spec => []IntactCommits
<1>1. IInv => IntactCommits
  <2> SUFFICES ASSUME IInv, exp # NotAnExport, NEW k \in 1..intact
               PROVE  exp.events[k].hash = Contents(exp.events, k)
    BY DEF IntactCommits
  <2>1. CASE Walkable
    BY <2>1, AuthenticCommits
  <2>2. CASE ~Walkable
    BY <2>2 DEF IInv, RejectedInv
  <2> QED BY <2>1, <2>2
<1> QED BY <1>1, Invariance, PTL

\* A head that passes commits to the whole export.
THEOREM HeadCommits == Spec => []HeadCommitsToExport
<1>1. IInv => HeadCommitsToExport
  <2> SUFFICES ASSUME IInv, checks["head"] = "pass"
               PROVE  /\ exp.headHash = Contents(exp.events, N)
                      /\ exp.count \in {NoCount, N}
    BY DEF HeadCommitsToExport
  <2>1. Walkable
    BY DEF IInv, RejectedInv
  <2>2. Linked /\ linksOK /\ exp.headHash = exp.events[N].hash
    BY <2>1 DEF IInv, VerdictInv, HeadStatus, Linked
  <2>3. intact = N /\ N \in Nat \ {0} /\ Audit!Whole
    BY <2>1, <2>2, WalkableType DEF IInv, VerdictInv, WalkInv, TypeOK
  <2>4. exp.events[N].hash = Contents(exp.events, N)
    BY <2>1, <2>3, AuthenticCommits
  <2> QED BY <2>2, <2>3, <2>4 DEF Audit!Whole, Audit!Len0, N
<1> QED BY <1>1, Invariance, PTL

\* A report head that passes commits to the first events of the export.
THEOREM ReportHeadCommitsHolds == Spec => []ReportHeadCommits
<1>1. IInv => ReportHeadCommits
  <2> SUFFICES ASSUME IInv, checks["report"] = "pass"
               PROVE  \E k \in 1..N : reportHead = Contents(exp.events, k)
    BY DEF ReportHeadCommits
  <2>1. Walkable
    BY DEF IInv, RejectedInv
  <2>2. PICK k \in 1..intact : exp.events[k].hash = reportHead
    BY <2>1 DEF IInv, VerdictInv, HasHash, TypeOK
  <2> QED BY <2>1, <2>2, AuthenticCommits
<1> QED BY <1>1, Invariance, PTL

\* The first break is named, and no other.
THEOREM FirstBreak == Spec => []FirstBreakIsNamed
<1>1. IInv => FirstBreakIsNamed
  <2> SUFFICES ASSUME IInv, broken # 0 PROVE FirstBreakIsNamed
    BY DEF FirstBreakIsNamed
  <2>1. Walkable
    BY DEF IInv, RejectedInv
  <2>2. /\ broken = intact + 1 /\ broken < next
        /\ Breaks(exp.events[broken], HashAt(broken - 1))
    BY <2>1 DEF IInv, WalkInv
  <2>3. HashAt(broken - 1) = IF broken = 1 THEN GenesisHash ELSE exp.events[broken - 1].hash
    BY DEF HashAt, IInv, TypeOK
  <2> QED BY <2>2, <2>3 DEF FirstBreakIsNamed
<1> QED BY <1>1, Invariance, PTL

\* No step takes a verdict back.
THEOREM VerdictsStandHolds == Spec => VerdictsStand
<1> DEFINE Stand == /\ intact' >= intact
                    /\ broken # 0 => broken' = broken /\ intact' = intact
                    /\ ~linksOK => ~linksOK'
                    /\ \A c \in CheckName : checks[c] # "none" => checks'[c] = checks[c]
<1>1. IInv /\ [Next]_vars => [Stand]_vars
  <2> SUFFICES ASSUME IInv, Next PROVE Stand
    BY DEF vars
  <2> USE DEF IInv, TypeOK, CheckName
  <2>1. CASE LinkEvent
    <3>1. Walkable
      BY <2>1 DEF LinkEvent, RejectedInv
    <3>2. broken = 0 /\ intact = next - 1 /\ intact' \in {intact, next}
      BY <2>1, <3>1 DEF LinkEvent, WalkInv
    <3>3. UNCHANGED <<linksOK, checks>>
      BY <2>1 DEF LinkEvent
    <3> QED BY <3>2, <3>3
  <2>2. CASE RejectInput \/ RejectEmpty \/ CompareCount
    BY <2>2 DEF RejectInput, RejectEmpty, NoChain, CompareCount, PendingInv
  <2>3. CASE JudgeLinks \/ CheckHead \/ CheckReportHead
    <3>1. Walkable
      BY <2>3 DEF JudgeLinks, CheckHead, CheckReportHead, RejectedInv
    <3> QED BY <2>3, <3>1 DEF JudgeLinks, CheckHead, CheckReportHead, VerdictInv, Linked
  <2>4. CASE CheckMarks
    BY <2>4 DEF CheckMarks, PendingInv
  <2>5. CASE SkipEvent \/ Finished
    BY <2>5 DEF SkipEvent, Finished, vars
  <2> QED BY <2>1, <2>2, <2>3, <2>4, <2>5 DEF Next
<1> QED BY <1>1, Invariance, PTL DEF Spec, VerdictsStand

-----------------------------------------------------------------------------
(***************************************************************************)
(* The marks: what the insertion sort of okAnchors leaves.                 *)
(***************************************************************************)

\* Receipts in head order.
InOrder(t) == \A i, j \in 1..Len(t) : i <= j => t[i].headSeq <= t[j].headSeq

\* A list holds the ok receipts among the first k, and nothing else.
Lists(t, anchors, k) ==
  /\ \A i \in 1..Len(t) : \E j \in 1..k : anchors[j].ok /\ t[i] = anchors[j]
  /\ \A j \in 1..k : anchors[j].ok => \E i \in 1..Len(t) : t[i] = anchors[j]

\* u is t with a put in at position p.
Inserted(u, t, a, p) ==
  /\ Len(u) = Len(t) + 1 /\ u[p] = a
  /\ \A i \in 1..(p - 1) : u[i] = t[i]
  /\ \A i \in (p + 1)..(Len(t) + 1) : u[i] = t[i - 1]

\* One step of the sort puts the receipt behind those of the same or an earlier head, before the rest.
LEMMA InsertPosition ==
  ASSUME NEW t \in Seq(Anchor), NEW a \in Anchor
  PROVE  /\ InsertByHead(t, a) \in Seq(Anchor)
         /\ \E p \in 1..(Len(t) + 1) :
              /\ Inserted(InsertByHead(t, a), t, a, p)
              /\ \A i \in 1..(p - 1) : t[i].headSeq <= a.headSeq
              /\ p <= Len(t) => a.headSeq <= t[p].headSeq
<1> DEFINE n == Len(t)
           I == {i \in 1..n : t[i].headSeq > a.headSeq}
           u == InsertByHead(t, a)
<1>1. n \in Nat /\ a.headSeq \in Nat /\ \A i \in 1..n : t[i] \in Anchor /\ t[i].headSeq \in Nat
  <2>1. n \in Nat /\ \A i \in 1..n : t[i] \in Anchor
    BY ElementOfSeq
  <2> QED BY <2>1 DEF Anchor
<1>2. u = LET later == IF I # {} THEN Min(I) ELSE 0
          IN  IF later = 0 THEN Append(t, a) ELSE InsertAt(t, later, a)
  BY DEF InsertByHead, SelectInSeq
<1>3. CASE I = {}
  <2>1. u = Append(t, a)
    BY <1>2, <1>3
  <2>2. u \in Seq(Anchor) /\ n + 1 \in 1..(n + 1) /\ Inserted(u, t, a, n + 1)
    BY <1>1, <2>1 DEF Inserted
  <2>3. \A i \in 1..n : t[i].headSeq <= a.headSeq
    BY <1>1, <1>3
  <2>4. ~(n + 1 <= Len(t)) /\ (n + 1) - 1 = n
    BY <1>1
  <2> QED BY <2>2, <2>3, <2>4
<1>4. CASE I # {}
  <2>1. PICK p \in I : \A i \in I : p <= i
    <3>1. I \in SUBSET Nat
      BY <1>1
    <3> HIDE DEF I
    <3> QED BY <1>4, <3>1, FO!LeastNumber
  <2>2. Min(I) = p
    BY <1>1, <2>1 DEF Min
  <2>3. p \in 1..n /\ p # 0 /\ u = InsertAt(t, p, a)
    BY <1>2, <1>4, <2>1, <2>2
  <2>4. u = SubSeq(t, 1, p - 1) \o << a >> \o SubSeq(t, p, n)
    BY <2>3 DEF InsertAt
  <2> HIDE DEF u
  <2>5. u \in Seq(Anchor) /\ Inserted(u, t, a, p)
    <3> DEFINE v == SubSeq(t, 1, p - 1)
               w == SubSeq(t, p, n)
    <3>1. /\ v \in Seq(Anchor) /\ Len(v) = p - 1 /\ \A i \in 1..(p - 1) : v[i] = t[i]
          /\ w \in Seq(Anchor) /\ Len(w) = n - p + 1 /\ \A i \in 1..(n - p + 1) : w[i] = t[p + i - 1]
      BY <1>1, <2>3
    <3>2. u = v \o << a >> \o w
      BY <2>4
    <3> HIDE DEF v, w
    <3>3. u \in Seq(Anchor) /\ Len(u) = n + 1 /\ u[p] = a
      <4>1. PICK x : x \in Seq(Anchor) /\ x = << a >> /\ Len(x) = 1 /\ x[1] = a
        <5>1. << a >> \in Seq(Anchor) /\ Len(<< a >>) = 1 /\ << a >>[1] = a
          OBVIOUS
        <5> QED BY <5>1
      <4>2. v \o x \in Seq(Anchor) /\ Len(v \o x) = p /\ (v \o x)[p] = a
        <5>1. v \o x \in Seq(Anchor) /\ Len(v \o x) = Len(v) + Len(x)
          BY <3>1, <4>1, ConcatProperties
        <5>2. p \in 1..(Len(v) + Len(x)) /\ ~(p <= Len(v)) /\ p - Len(v) = 1 /\ Len(v) + Len(x) = p
          BY <1>1, <2>3, <3>1, <4>1
        <5>3. (v \o x)[p] = x[1]
          BY <3>1, <4>1, <5>2, ConcatProperties
        <5> QED BY <4>1, <5>1, <5>2, <5>3
      <4>3. PICK y : y = v \o x
        OBVIOUS
      <4>4. y \in Seq(Anchor) /\ Len(y) = p /\ y[p] = a /\ u = y \o w
        BY <3>2, <4>1, <4>2, <4>3
      <4>5. y \o w \in Seq(Anchor) /\ Len(y \o w) = Len(y) + Len(w)
        BY <3>1, <4>4, ConcatProperties
      <4>6. p \in 1..(Len(y) + Len(w)) /\ p <= Len(y)
        BY <1>1, <2>3, <3>1, <4>4
      <4>7. (y \o w)[p] = y[p]
        BY <3>1, <4>4, <4>6, ConcatProperties
      <4>8. u \in Seq(Anchor)
        BY <4>4, <4>5
      <4>9. Len(u) = n + 1
        <5>1. Len(u) = Len(y) + Len(w) /\ Len(y) = p /\ Len(w) = n - p + 1
          BY <3>1, <4>4, <4>5
        <5>2. n \in Nat /\ p \in 1..n
          BY <1>1, <2>3
        <5> QED BY <5>1, <5>2
      <4>10. u[p] = a
        BY <4>4, <4>7
      <4> QED BY <4>8, <4>9, <4>10
    <3>4. \A i \in 1..(p - 1) : u[i] = t[i]
      BY <1>1, <2>3, <3>1, <3>2
    <3>5. ASSUME NEW i \in (p + 1)..(n + 1) PROVE u[i] = t[i - 1]
      <4>1. u[i] = w[i - p] /\ i - p \in 1..(n - p + 1) /\ p + (i - p) - 1 = i - 1
        BY <1>1, <2>3, <3>1, <3>2
      <4> QED BY <3>1, <4>1
    <3> QED BY <3>3, <3>4, <3>5 DEF Inserted
  <2>6. \A i \in 1..(p - 1) : t[i].headSeq <= a.headSeq
    <3> TAKE i \in 1..(p - 1)
    <3>1. i \in 1..n /\ i \notin I
      BY <1>1, <2>1, <2>3
    <3> QED BY <1>1, <3>1
  <2>7. a.headSeq <= t[p].headSeq
    BY <1>1, <2>1
  <2>8. p \in 1..(n + 1)
    BY <1>1, <2>3
  <2> QED BY <2>5, <2>6, <2>7, <2>8 DEF u
<1> QED BY <1>3, <1>4

\* A receipt put in leaves a list that is in order in order, and takes nothing out of it.
LEMMA InsertedInOrder ==
  ASSUME NEW t \in Seq(Anchor), InOrder(t), NEW a \in Anchor, NEW u \in Seq(Anchor),
         NEW p \in 1..(Len(t) + 1), Inserted(u, t, a, p),
         \A i \in 1..(p - 1) : t[i].headSeq <= a.headSeq,
         p <= Len(t) => a.headSeq <= t[p].headSeq
  PROVE  /\ InOrder(u)
         /\ \A i \in 1..Len(u) : u[i] = a \/ \E l \in 1..Len(t) : u[i] = t[l]
         /\ \A l \in 1..Len(t) : \E i \in 1..Len(u) : u[i] = t[l]
         /\ \E i \in 1..Len(u) : u[i] = a
<1> DEFINE n == Len(t)
<1>1. /\ n \in Nat /\ p \in 1..(n + 1) /\ Len(u) = n + 1
      /\ a.headSeq \in Nat /\ \A i \in 1..n : t[i].headSeq \in Nat
      /\ \A i \in 1..(n + 1) : u[i].headSeq \in Nat
  <2>1. n \in Nat /\ p \in 1..(n + 1) /\ Len(u) = n + 1
    BY DEF Inserted
  <2>2. (\A i \in 1..n : t[i] \in Anchor) /\ (\A i \in 1..Len(u) : u[i] \in Anchor)
    BY ElementOfSeq
  <2> QED BY <2>1, <2>2 DEF Anchor
<1>2. \A i \in 1..(p - 1) : u[i] = t[i] /\ i \in 1..n
  BY <1>1 DEF Inserted
<1>3. \A i \in (p + 1)..(n + 1) : u[i] = t[i - 1] /\ i - 1 \in p..n
  BY <1>1 DEF Inserted
<1>4. u[p] = a
  BY DEF Inserted
<1>5. \A i \in p..n : a.headSeq <= t[i].headSeq
  <2> TAKE i \in p..n
  <2>1. p \in 1..n /\ i \in 1..n /\ p <= i
    BY <1>1
  <2> QED BY <1>1, <2>1 DEF InOrder
<1>6. ASSUME NEW i \in 1..(n + 1), NEW j \in 1..(n + 1), i <= j
      PROVE  u[i].headSeq <= u[j].headSeq
  <2>1. CASE j < p
    <3>1. i \in 1..(p - 1) /\ j \in 1..(p - 1)
      BY <1>1, <1>6, <2>1
    <3> QED BY <1>2, <1>6, <3>1 DEF InOrder
  <2>2. CASE i > p
    <3>1. /\ i \in (p + 1)..(n + 1) /\ j \in (p + 1)..(n + 1) /\ i - 1 <= j - 1
          /\ i - 1 \in 1..n /\ j - 1 \in 1..n
      BY <1>1, <1>6, <2>2
    <3> QED BY <1>3, <3>1 DEF InOrder
  <2>3. CASE i <= p /\ p <= j
    <3>1. u[i].headSeq <= a.headSeq
      <4>1. CASE i = p
        BY <1>1, <1>4, <4>1
      <4>2. CASE i # p
        <5>1. i \in 1..(p - 1)
          BY <1>1, <2>3, <4>2
        <5> QED BY <1>2, <5>1
      <4> QED BY <4>1, <4>2
    <3>2. a.headSeq <= u[j].headSeq
      <4>1. CASE j = p
        BY <1>1, <1>4, <4>1
      <4>2. CASE j # p
        <5>1. j \in (p + 1)..(n + 1)
          BY <1>1, <2>3, <4>2
        <5> QED BY <1>3, <1>5, <5>1
      <4> QED BY <4>1, <4>2
    <3> QED BY <1>1, <3>1, <3>2
  <2> QED BY <1>1, <2>1, <2>2, <2>3
<1>7. InOrder(u)
  BY <1>1, <1>6 DEF InOrder
<1>8. ASSUME NEW i \in 1..(n + 1) PROVE u[i] = a \/ \E l \in 1..n : u[i] = t[l]
  <2>1. CASE i < p
    BY <1>1, <1>2, <2>1
  <2>2. CASE i > p
    <3>1. i \in (p + 1)..(n + 1) /\ i - 1 \in 1..n
      BY <1>1, <2>2
    <3> QED BY <1>3, <3>1
  <2>3. CASE i = p
    BY <1>4, <2>3
  <2> QED BY <1>1, <2>1, <2>2, <2>3
<1>9. ASSUME NEW l \in 1..n PROVE \E i \in 1..(n + 1) : u[i] = t[l]
  <2>1. CASE l < p
    <3>1. l \in 1..(p - 1) /\ l \in 1..(n + 1)
      BY <1>1, <2>1
    <3> QED BY <1>2, <3>1
  <2>2. CASE l >= p
    <3>1. l + 1 \in (p + 1)..(n + 1) /\ (l + 1) - 1 = l /\ l + 1 \in 1..(n + 1)
      BY <1>1, <2>2
    <3>2. u[l + 1] = t[l]
      BY <1>3, <3>1
    <3> QED BY <3>1, <3>2
  <2> QED BY <1>1, <2>1, <2>2
<1> QED BY <1>1, <1>4, <1>7, <1>8, <1>9

\* okAnchors: the ok receipts of the export, all of them, in head order.
LEMMA OkAnchorsAre ==
  ASSUME NEW anchors \in Seq(Anchor)
  PROVE  /\ OkAnchors(anchors) \in Seq(Anchor) /\ InOrder(OkAnchors(anchors))
         /\ Lists(OkAnchors(anchors), anchors, Len(anchors))
<1> DEFINE n == Len(anchors)
<1>1. n \in Nat /\ DOMAIN anchors = 1..n /\ \A k \in 1..n : anchors[k] \in Anchor
  BY ElementOfSeq
<1>2. OkAnchors(anchors) = FO!Folded(<< >>, anchors)
  BY DEF FO!Folded, OkAnchors, FoldLeft, MapThenFoldSet, FO!FoldLeft, FO!MapThenFoldSet,
         FO!Max, Max
<1> HIDE DEF n
<1>3. PICK h : FO!Gathers(<< >>, anchors, n, h) /\ FO!Folded(<< >>, anchors) = h[n]
  BY <1>1, FO!FoldSteps
<1> DEFINE good == {k \in 0..n : h[k] \in Seq(Anchor) /\ InOrder(h[k]) /\ Lists(h[k], anchors, k)}
<1>4. 0 \in good
  <2>1. h[0] = << >>
    BY <1>3 DEF FO!Gathers
  <2>2. << >> \in Seq(Anchor) /\ Len(<< >>) = 0
    OBVIOUS
  <2>3. Lists(<< >>, anchors, 0) /\ InOrder(<< >>)
    BY <2>2 DEF Lists, InOrder
  <2>4. h[0] \in Seq(Anchor) /\ InOrder(h[0]) /\ Lists(h[0], anchors, 0) /\ 0 \in 0..n
    BY <1>1, <2>1, <2>2, <2>3
  <2> QED BY <2>4
<1>5. ASSUME NEW k \in 0..(n - 1), k \in good PROVE k + 1 \in good
  <2>1. PICK t, a : t = h[k] /\ a = anchors[k + 1]
    OBVIOUS
  <2>2. t \in Seq(Anchor) /\ InOrder(t) /\ Lists(t, anchors, k)
    BY <1>5, <2>1
  <2>3. /\ k \in Nat /\ k + 1 \in 0..n /\ k + 1 \in 1..n /\ (k + 1) - 1 = k /\ a \in Anchor
        /\ \A j \in 1..k : j \in 1..(k + 1)
        /\ \A j \in 1..(k + 1) : j \in 1..k \/ j = k + 1
    BY <1>1, <2>1
  <2>4. h[k + 1] = AddOk(t, a)
    BY <1>3, <2>1, <2>3 DEF FO!Gathers
  <2> HIDE DEF good
  <2>5. CASE ~a.ok
    <3>1. h[k + 1] = t
      BY <2>4, <2>5 DEF AddOk
    <3>2. Lists(t, anchors, k + 1)
      BY <2>1, <2>2, <2>3, <2>5 DEF Lists
    <3> QED BY <2>2, <2>3, <3>1, <3>2 DEF good
  <2>6. CASE a.ok
    <3>1. PICK u : u = InsertByHead(t, a)
      OBVIOUS
    <3>2. h[k + 1] = u /\ u \in Seq(Anchor)
      BY <2>2, <2>3, <2>4, <2>6, <3>1, InsertPosition DEF AddOk
    <3>3. /\ InOrder(u)
          /\ \A i \in 1..Len(u) : u[i] = a \/ \E l \in 1..Len(t) : u[i] = t[l]
          /\ \A l \in 1..Len(t) : \E i \in 1..Len(u) : u[i] = t[l]
          /\ \E i \in 1..Len(u) : u[i] = a
      <4>1. PICK p \in 1..(Len(t) + 1) :
              /\ Inserted(u, t, a, p)
              /\ \A i \in 1..(p - 1) : t[i].headSeq <= a.headSeq
              /\ p <= Len(t) => a.headSeq <= t[p].headSeq
        BY <2>2, <2>3, <3>1, InsertPosition
      <4> QED BY <2>2, <2>3, <3>2, <4>1, InsertedInOrder
    <3>4. \A i \in 1..Len(u) : \E j \in 1..(k + 1) : anchors[j].ok /\ u[i] = anchors[j]
      <4> TAKE i \in 1..Len(u)
      <4>1. CASE u[i] = a
        <5>1. k + 1 \in 1..(k + 1)
          BY <2>3
        <5> QED BY <2>1, <2>6, <4>1, <5>1
      <4>2. CASE \E l \in 1..Len(t) : u[i] = t[l]
        BY <2>2, <2>3, <4>2 DEF Lists
      <4> QED BY <3>3, <4>1, <4>2
    <3>5. \A j \in 1..(k + 1) : anchors[j].ok => \E i \in 1..Len(u) : u[i] = anchors[j]
      <4> TAKE j \in 1..(k + 1)
      <4>1. CASE j \in 1..k
        <5>1. anchors[j].ok => \E l \in 1..Len(t) : t[l] = anchors[j]
          BY <2>2, <4>1 DEF Lists
        <5> QED BY <3>3, <5>1
      <4>2. CASE j = k + 1
        BY <2>1, <3>3, <4>2
      <4> QED BY <2>3, <4>1, <4>2
    <3> QED BY <2>3, <3>2, <3>3, <3>4, <3>5 DEF good, Lists
  <2> QED BY <2>5, <2>6
<1> HIDE DEF good
<1>6. 0..n \subseteq good
  BY <1>1, <1>4, <1>5, FO!UpTo
<1>7. n \in good
  BY <1>1, <1>6
<1> QED BY <1>2, <1>3, <1>7 DEF good, n

\* The mark an event must carry is the id of an ok receipt of the smallest head at or after it.
LEMMA WantedMarkIs ==
  ASSUME NEW anchors \in Seq(Anchor), NEW seq \in Nat,
         NEW covering, covering = {i \in 1..Len(anchors) : anchors[i].ok /\ anchors[i].headSeq >= seq}
  PROVE  IF covering = {} THEN WantedMark(anchors, seq, NoAnchor) = NoAnchor
         ELSE \E i \in covering :
                /\ WantedMark(anchors, seq, NoAnchor) = anchors[i].id
                /\ \A j \in covering : anchors[i].headSeq <= anchors[j].headSeq
<1>1. PICK t : t = OkAnchors(anchors)
  OBVIOUS
<1>2. t \in Seq(Anchor) /\ InOrder(t) /\ Lists(t, anchors, Len(anchors))
  BY <1>1, OkAnchorsAre
<1> DEFINE I == {i \in 1..Len(t) : t[i].headSeq >= seq}
<1>3. WantedMark(anchors, seq, NoAnchor)
        = LET i == IF I # {} THEN Min(I) ELSE 0 IN IF i = 0 THEN NoAnchor ELSE t[i].id
  BY <1>1 DEF WantedMark, SelectInSeq
<1>4. \A j \in covering : \E i \in I : t[i] = anchors[j]
  BY <1>2 DEF Lists
<1>5. \A i \in I : \E j \in covering : t[i] = anchors[j]
  BY <1>2 DEF Lists
<1>6. CASE I = {}
  BY <1>3, <1>4, <1>6
<1>7. CASE I # {}
  <2>1. PICK m \in I : \A i \in I : m <= i
    <3>1. I \in SUBSET Nat
      OBVIOUS
    <3> HIDE DEF I
    <3> QED BY <1>7, <3>1, FO!LeastNumber
  <2>2. Min(I) = m /\ m # 0
    BY <2>1 DEF Min
  <2>3. WantedMark(anchors, seq, NoAnchor) = t[m].id
    BY <1>3, <1>7, <2>2
  <2>4. PICK j \in covering : t[m] = anchors[j]
    BY <1>5, <2>1
  <2>5. ASSUME NEW l \in covering PROVE t[m].headSeq <= anchors[l].headSeq
    <3>1. PICK i \in I : t[i] = anchors[l]
      BY <1>4
    <3>2. m <= i /\ m \in 1..Len(t) /\ i \in 1..Len(t)
      BY <2>1, <3>1
    <3> QED BY <1>2, <3>1, <3>2 DEF InOrder
  <2> QED BY <2>3, <2>4, <2>5
<1> QED BY <1>6, <1>7

\* checkAnchoredBy: marks that pass are the receipts of the smallest heads that cover the events.
THEOREM MarksFollow == Spec => []MarksFollowReceipts
<1>1. ASSUME IInv PROVE MarksFollowReceipts
  <2> SUFFICES ASSUME checks["anchored_by"] = "pass", NEW k \in 1..N,
                      NEW e, e = exp.events[k],
                      NEW covering, covering = {i \in 1..Len(exp.anchors) :
                                      exp.anchors[i].ok /\ exp.anchors[i].headSeq >= e.seq}
               PROVE  /\ e.seq # NoSeq
                      /\ IF covering = {} THEN e.mark = NoAnchor
                         ELSE \E i \in covering :
                                /\ e.mark = exp.anchors[i].id
                                /\ \A j \in covering : exp.anchors[i].headSeq <= exp.anchors[j].headSeq
    BY DEF MarksFollowReceipts
  <2>1. exp \in ChainExport /\ MarksStatus = "pass"
    BY <1>1 DEF IInv, MarksInv, TypeOK
  <2>2. e.seq # NoSeq /\ e.mark = WantedMark(exp.anchors, e.seq, NoAnchor)
    BY <2>1 DEF MarksStatus
  <2>3. exp.anchors \in Seq(Anchor) /\ exp.events \in Seq(Event)
    BY <2>1 DEF ChainExport
  <2>4. e \in Event
    BY <2>3, ElementOfSeq DEF N
  <2>5. e.seq \in Nat
    BY <2>2, <2>4 DEF Event
  <2>6. PICK anchors : anchors = exp.anchors
    OBVIOUS
  <2>7. anchors \in Seq(Anchor)
        /\ covering = {i \in 1..Len(anchors) : anchors[i].ok /\ anchors[i].headSeq >= e.seq}
    BY <2>3, <2>6
  <2>8. IF covering = {} THEN WantedMark(anchors, e.seq, NoAnchor) = NoAnchor
        ELSE \E i \in covering :
               /\ WantedMark(anchors, e.seq, NoAnchor) = anchors[i].id
               /\ \A j \in covering : anchors[i].headSeq <= anchors[j].headSeq
    BY <2>5, <2>7, WantedMarkIs
  <2> QED BY <2>2, <2>6, <2>8
<1> QED BY <1>1, Invariance, PTL

-----------------------------------------------------------------------------
(***************************************************************************)
(* The walk implements the audit.                                          *)
(***************************************************************************)

\* With the walk behind it, an event is authentic with all before it exactly when it is intact.
LEMMA IntactIsAuthentic ==
  ASSUME IInv, Walkable, Linked, NEW k \in 1..N
  PROVE  Audit!AuthenticUpTo(k) <=> k <= intact
<1>1. /\ N \in Nat /\ intact \in 0..N /\ broken \in Nat
      /\ broken = 0 => intact = N
      /\ broken # 0 => broken = intact + 1 /\ broken \in 1..N
    BY WalkableType DEF IInv, WalkInv, TypeOK
<1>2. CASE k <= intact
  BY <1>1, <1>2, AuthenticCommits
<1>3. CASE k > intact
  <2>1. broken \in 1..N /\ broken - 1 = intact /\ broken <= k
    BY <1>1, <1>3
  <2>2. Audit!AuthenticUpTo(broken - 1) /\ Breaks(exp.events[broken], HashAt(broken - 1))
    BY <2>1 DEF IInv, WalkInv
  <2>3. ~Audit!Authentic(broken)
    BY <2>1, <2>2, BreakDecides DEF IInv
  <2> QED BY <2>1, <2>3, <1>3 DEF Audit!AuthenticUpTo
<1> QED BY <1>1, <1>2, <1>3

\* What the report shows when the walk is done is what one look at the export gives.
LEMMA WalkReachesVerdict ==
  IInv /\ Walkable /\ pc = "done" =>
    ShownVerdict = [links |-> Audit!LinksVerdict, head |-> Audit!HeadVerdict,
                    report |-> Audit!ReportVerdict]
<1> SUFFICES ASSUME IInv, Walkable, pc = "done"
             PROVE  ShownVerdict = [links |-> Audit!LinksVerdict, head |-> Audit!HeadVerdict,
                                    report |-> Audit!ReportVerdict]
  OBVIOUS
<1>1. Linked /\ N \in Nat \ {0} /\ N \in 1..N /\ N = Audit!Len0 /\ intact \in Nat
  BY WalkableType DEF Linked, IInv, N, Audit!Len0, TypeOK
<1>2. /\ broken = 0 <=> intact >= N
      /\ linksOK <=> Audit!Whole /\ broken = 0
      /\ intact <= N
  BY <1>1 DEF IInv, WalkInv, VerdictInv, TypeOK
<1>3. Audit!AuthenticUpTo(Audit!Len0) <=> broken = 0
  BY <1>1, <1>2, IntactIsAuthentic
<1>4. checks["links"] = Audit!LinksVerdict
  BY <1>1, <1>2, <1>3 DEF IInv, VerdictInv, Audit!LinksVerdict
<1>5. checks["head"] = Audit!HeadVerdict
  <2>1. linksOK => exp.events[N].hash = Contents(exp.events, N)
    BY <1>1, <1>2, AuthenticCommits
  <2> QED BY <1>1, <1>2, <1>3, <2>1, AuditsSameContents
       DEF IInv, VerdictInv, HeadStatus, Audit!HeadVerdict
<1>6. checks["report"] = Audit!ReportVerdict
  <2>1. HasHash(reportHead) # {} <=>
          \E k \in 1..Audit!Len0 : Audit!AuthenticUpTo(k) /\ reportHead = Contents(exp.events, k)
    <3>1. ASSUME NEW k \in HasHash(reportHead)
          PROVE  k \in 1..N /\ Audit!AuthenticUpTo(k) /\ reportHead = Contents(exp.events, k)
      BY <3>1, AuthenticCommits DEF HasHash
    <3>2. ASSUME NEW k \in 1..N, Audit!AuthenticUpTo(k), reportHead = Contents(exp.events, k)
          PROVE  k \in HasHash(reportHead)
      <4>1. k \in 1..intact
        BY <1>1, <3>2, IntactIsAuthentic
      <4> QED BY <3>2, <4>1, AuthenticCommits DEF HasHash
    <3> QED BY <1>1, <3>1, <3>2
  <2> QED BY <2>1, AuditsSameContents DEF IInv, VerdictInv, Audit!ReportVerdict
<1> QED BY <1>4, <1>5, <1>6 DEF ShownVerdict

\* The audit's verdict is a function of the export and the report's head.
LEMMA VerdictUnchanged ==
  ASSUME UNCHANGED <<exp, reportHead>>
  PROVE  /\ Audit!LinksVerdict' = Audit!LinksVerdict
         /\ Audit!HeadVerdict' = Audit!HeadVerdict
         /\ Audit!ReportVerdict' = Audit!ReportVerdict
BY DEF Audit!LinksVerdict, Audit!HeadVerdict, Audit!ReportVerdict, Audit!AuthenticUpTo,
       Audit!Authentic, Audit!Whole, Audit!Len0

\* verifyChain implements the audit, for every set of exports.
THEOREM WalkImplementsAudit == Spec => ImplementsAudit
<1>1. Init => Audit!AuditInit
  BY ExportsAssumption
     DEF Init, Audit!AuditInit, ShownVerdict, Audit!NoVerdict, ChainExport, Audit!ChainExport,
         Event, Audit!Event, Anchor, Audit!Anchor, Hash, Audit!Hash, Link, Audit!Link
<1>2. (IInv /\ Walkable /\ pc = "done" =>
         ShownVerdict = [links |-> Audit!LinksVerdict, head |-> Audit!HeadVerdict,
                         report |-> Audit!ReportVerdict])'
  BY WalkReachesVerdict, PTL
<1>3. IInv /\ IInv' /\ [Next]_vars => [Audit!Audit]_(Audit!auditVars)
  <2> SUFFICES ASSUME IInv, IInv', [Next]_vars
               PROVE  Audit!Audit \/ UNCHANGED Audit!auditVars
    OBVIOUS
  <2>1. UNCHANGED <<exp, reportHead>> /\ Walkable' = Walkable
    BY StepKeepsExport, ExportUnchanged
  <2>2. CASE pc # "done" /\ pc' = "done"
    <3>1. ShownVerdict = Audit!NoVerdict
      BY <2>2 DEF ShownVerdict, Audit!NoVerdict
    <3>2. CASE Walkable
      <4>1. Audit!HoldsEvents
        BY <3>2 DEF Walkable, Audit!HoldsEvents
      <4>2. (ShownVerdict = [links |-> Audit!LinksVerdict, head |-> Audit!HeadVerdict,
                             report |-> Audit!ReportVerdict])'
        BY <1>2, <2>1, <2>2, <3>2
      <4>3. /\ Audit!LinksVerdict' = Audit!LinksVerdict
            /\ Audit!HeadVerdict' = Audit!HeadVerdict
            /\ Audit!ReportVerdict' = Audit!ReportVerdict
        BY <2>1, VerdictUnchanged
      <4> QED BY <2>1, <3>1, <4>1, <4>2, <4>3 DEF Audit!Audit
    <3>3. CASE ~Walkable
      <4>1. ~Audit!HoldsEvents
        BY <3>3 DEF Walkable, Audit!HoldsEvents
      <4>2. ShownVerdict' = [links |-> "none", head |-> "none", report |-> "not_checked"]
        BY <2>1, <2>2, <3>3 DEF IInv, RejectedInv, ShownVerdict, Audit!NoVerdict
      <4> QED BY <2>1, <3>1, <4>1, <4>2 DEF Audit!Audit
    <3> QED BY <3>2, <3>3
  <2>3. CASE pc # "done" /\ pc' # "done"
    BY <2>1, <2>3 DEF ShownVerdict, Audit!auditVars
  <2>4. CASE pc = "done"
    <3>1. UNCHANGED vars
      BY <2>4 DEF Next, vars, RejectInput, RejectEmpty, NoChain, CompareCount, LinkEvent,
           SkipEvent, JudgeLinks, CheckHead, CheckMarks, CheckReportHead, Finished
    <3> QED BY <3>1 DEF vars, ShownVerdict, Audit!auditVars
  <2> QED BY <2>2, <2>3, <2>4
<1> QED BY <1>1, <1>3, Invariance, PTL DEF Spec, ImplementsAudit, Audit!AuditSpec
=============================================================================
