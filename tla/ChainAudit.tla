----------------------------- MODULE ChainAudit -----------------------------
(***************************************************************************)
(* What the verification of a chain promises (verify/chain.go,             *)
(* verify/verify.go), without the walk: one step looks at the whole export *)
(* and reports.  The links pass when every stored hash commits to exactly  *)
(* the contents at and before its event, and no event is missing.          *)
(***************************************************************************)
EXTENDS ChainHashing

CONSTANT NotAnExport

VARIABLES exp, reportHead, verdict

auditVars == <<exp, reportHead, verdict>>

Len0 == Len(exp.events)

\* Event k is what the store wrote after the k-1 events before it.
Authentic(k) ==
  LET e == exp.events[k] IN
  /\ exp.arch = NoArch \/ e.arch = NoArch \/ e.arch = exp.arch
  /\ PayloadHash(e.payload) # NotJSON
  /\ e.payloadHash = PayloadHash(e.payload)
  /\ e.prevHash = Contents(exp.events, k - 1)
  /\ e.hash = Contents(exp.events, k)

AuthenticUpTo(k) == \A j \in 1..k : Authentic(j)

Whole == exp.count \in {NoCount, Len0}

NoVerdict == [links |-> "none", head |-> "none", report |-> "none"]

LinksVerdict ==
  IF ~AuthenticUpTo(Len0) THEN "fail" ELSE IF Whole THEN "pass" ELSE "none"

HeadVerdict ==
  IF exp.headHash = NoHash THEN "not_checked"
  ELSE IF AuthenticUpTo(Len0) /\ Whole /\ exp.headHash = Contents(exp.events, Len0)
  THEN "pass" ELSE "fail"

\* The report's head commits to the first k events of an authentic beginning of the chain.
ReportVerdict ==
  IF reportHead = NoHash THEN "not_checked"
  ELSE IF \E k \in 1..Len0 : AuthenticUpTo(k) /\ reportHead = Contents(exp.events, k)
  THEN "pass" ELSE "fail"

AuditInit ==
  /\ exp \in ChainExport \cup {NotAnExport}
  /\ reportHead \in Hash \cup {NoHash}
  /\ verdict = NoVerdict

HoldsEvents == IF exp = NotAnExport THEN FALSE ELSE exp.events # << >>

Audit ==
  /\ verdict = NoVerdict
  /\ verdict' = IF HoldsEvents
                THEN [links |-> LinksVerdict, head |-> HeadVerdict,
                      report |-> ReportVerdict]
                ELSE [links |-> "none", head |-> "none", report |-> "not_checked"]
  /\ UNCHANGED <<exp, reportHead>>

AuditSpec == AuditInit /\ [][Audit]_auditVars
=============================================================================
