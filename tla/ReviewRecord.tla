---------------------------- MODULE ReviewRecord ----------------------------
(***************************************************************************)
(* Management assertions and independent review statements                 *)
(* (verify/reviewrecord.go): people sign them with keys an organisation    *)
(* registered, the bundle carries registry, assertions and statements, and *)
(* the offline verifier judges them by the registry as it stood when the   *)
(* bundle was made.                                                        *)
(*                                                                         *)
(* Registry and signing happen outside the repository; what they record is *)
(* what the verifier reads.  Signatures and hashes are ideal: a seal names *)
(* the key and the very message, a message is its own hash, a key its own  *)
(* id and fingerprint.  A key is registered once.                          *)
(***************************************************************************)
EXTENDS Integers, Sequences, FiniteSets

CONSTANTS
  Keys,
  Registrations, \* [Keys -> what the key may be registered as: [holder, purpose, from, to]]
  Sponsors,      \* names an architecture may declare as its sponsor
  OutOfBand,     \* sets of keys a reviewer's own list may give another fingerprint
  Models,        \* model hashes
  Archs,         \* architectures; the first chosen is the bundle's
  Grace,         \* WindowGrace
  Never,         \* no time: not acknowledged, not revoked, no end of validity
  MaxTime, MaxRecords, \* bounds: what happens before the export, records of either sort
  NoReport, NoSeal \* a bundle without report.json, no acknowledgement

Holders == {r.holder : r \in UNION {Registrations[k] : k \in Keys}}

ASSUME TimeAssumption == Grace \in Nat /\ MaxTime \in Nat \ {0} /\ Never \notin 1..MaxTime
ASSUME ChoiceAssumption == Archs # {} /\ Models # {}
ASSUME RegistrationsAssumption ==
  \A k \in Keys :
    Registrations[k] \subseteq [holder : Holders, purpose : {"management_assertion", "review"},
                               from : Int, to : Int \cup {Never}]

VARIABLES
  now,                 \* the clock
  registry,            \* [Keys -> registration as the bundle will carry it]
  assertions, statements, \* signed and submitted records
  inForce,             \* ghost: submissions whose key could sign them by the registry of that moment
  doc,                 \* review_record.json
  edited,              \* whether the copy was changed after the export
  pc, contradicted,    \* checkReviewRecord: where it is, the keys --reviewer-keys contradicts,
  verified, passed     \* the assertions and the statements that pass

world == <<now, registry, assertions, statements, inForce>>
copy == <<doc, edited>>
check == <<contradicted, verified, passed>>
vars == <<world, copy, pc, check>>

Arch == CHOOSE a \in Archs : TRUE
Model == CHOOSE m \in Models : TRUE

-----------------------------------------------------------------------------
\* What is signed.

RegistrationMessage(k, r) ==
  [key |-> k, holder |-> r.holder, purpose |-> r.purpose, from |-> r.from, to |-> r.to]

Seal(k, message) == [by |-> k, over |-> message]

CheckSignature(k, message, seal) == seal = Seal(k, message)

UsableAt_ByState(r, at) == r.revoked = Never /\ at >= r.from - Grace /\ at < r.to /\ r.acknowledged <= at

\* keyUsableAt: the window, with grace before it; not after the revocation; not before the
\* holder's acknowledgement.
UsableAt(r, at) ==
  /\ at >= r.from - Grace
  /\ r.to = Never \/ at < r.to
  /\ r.revoked = Never \/ at < r.revoked
  /\ r.acknowledged # Never /\ at >= r.acknowledged

\* An external holder has to be the sponsor the architecture declares.
SponsorMatches(holder, sponsor) == holder.external => holder.name = sponsor

-----------------------------------------------------------------------------
\* Before the export.

Open == pc = "open" /\ now < MaxTime /\ now' = now + 1
StillOpen == UNCHANGED <<copy, pc, check>>

Acknowledge(k) ==
  /\ Open /\ registry[k].acknowledged = Never /\ registry[k].revoked = Never
  /\ registry' = [registry EXCEPT ![k] =
       [@ EXCEPT !.acknowledged = now, !.seal = Seal(k, RegistrationMessage(k, registry[k]))]]
  /\ UNCHANGED <<assertions, statements, inForce>> /\ StillOpen

Revoke(k) ==
  /\ Open /\ registry[k].revoked = Never
  /\ registry' = [registry EXCEPT ![k].revoked = now]
  /\ UNCHANGED <<assertions, statements, inForce>> /\ StillOpen

\* The key could sign for this purpose just now, as the registry stands.
InForce(k, purpose) ==
  LET r == registry[k]
  IN  /\ r.purpose = purpose /\ r.acknowledged # Never /\ r.revoked = Never
      /\ now >= r.from - Grace /\ (r.to = Never \/ now < r.to)

\* Content signed and submitted, good or not.
Record(k, content) ==
  [content |-> content, sha |-> content, seal |-> Seal(k, content), at |-> now]

Submitted(k, purpose, record) ==
  /\ inForce' = IF InForce(k, purpose) THEN inForce \cup {record} ELSE inForce
  /\ UNCHANGED registry /\ StillOpen

\* The sponsor signs over the model.
Assert(k, holder, sponsor) ==
  LET record == Record(k, [arch |-> Arch, model |-> Model, holder |-> holder, sponsor |-> sponsor,
                           key |-> k])
  IN  /\ Open /\ Cardinality(assertions) < MaxRecords
      /\ assertions' = assertions \cup {record} /\ UNCHANGED statements
      /\ Submitted(k, "management_assertion", record)

\* A reviewer signs over an assertion and a model, of this or another architecture.
Review(k, a, m, arch) ==
  LET record == Record(k, [arch |-> arch, model |-> m, assertion |-> a.sha, key |-> k])
  IN  /\ Open /\ Cardinality(statements) < MaxRecords
      /\ statements' = statements \cup {record} /\ UNCHANGED assertions
      /\ Submitted(k, "review", record)

\* The bundle: the registry as it is, every record.
Export ==
  /\ pc = "open" /\ pc' = "exported"
  /\ doc' = [arch |-> Arch, keys |-> registry,
             assertions |-> assertions, statements |-> statements]
  /\ UNCHANGED <<world, edited, check>>

-----------------------------------------------------------------------------
\* A copy with a statement in it that differs from what was exported in one place.

Edit(new) ==
  /\ pc = "exported" /\ ~edited /\ doc.statements # {} /\ new # doc
  /\ doc' = new /\ edited' = TRUE
  /\ UNCHANGED <<world, pc, check>>

EditKey(k) ==
  \/ \E h \in Holders : Edit([doc EXCEPT !.keys[k] = [@ EXCEPT !.holder = h]])
  \/ \E t \in {Never, 1} : Edit([doc EXCEPT !.keys[k].revoked = t])

Replaced(S, old, new) == (S \ {old}) \cup {new}

EditAssertion(a) ==
  \/ Edit([doc EXCEPT !.assertions = @ \ {a}])
  \/ \E t \in {1, MaxTime} : Edit([doc EXCEPT !.assertions = Replaced(@, a, [a EXCEPT !.at = t])])
  \/ \E m \in Models, h \in Holders :
       LET content == [a.content EXCEPT !.model = m, !.holder = h]
       IN  \E sha \in {a.sha, content} :
             Edit([doc EXCEPT !.assertions = Replaced(@, a, [a EXCEPT !.content = content, !.sha = sha])])

EditStatement(s) ==
  \/ \E t \in {1, MaxTime} : Edit([doc EXCEPT !.statements = Replaced(@, s, [s EXCEPT !.at = t])])
  \/ \E m \in Models, b \in doc.assertions :
       LET content == [s.content EXCEPT !.model = m, !.assertion = b.sha]
       IN  \E sha \in {s.sha, content} :
             Edit([doc EXCEPT !.statements = Replaced(@, s, [s EXCEPT !.content = content, !.sha = sha])])

-----------------------------------------------------------------------------
\* checkReviewRecord.

Acknowledged_AsStated(k) == doc.keys[k].acknowledged # Never

\* The holder's own signature over the registration.
Acknowledged(k) ==
  /\ doc.keys[k].acknowledged # Never
  /\ CheckSignature(k, RegistrationMessage(k, doc.keys[k]), doc.keys[k].seal)

SignedBy_AnyPurpose(usable, k, purpose, message, seal, at) ==
  k \in usable /\ UsableAt(doc.keys[k], at) /\ CheckSignature(k, message, seal)

SignedBy(usable, k, purpose, message, seal, at) ==
  /\ k \in usable
  /\ doc.keys[k].purpose = purpose
  /\ UsableAt(doc.keys[k], at)
  /\ CheckSignature(k, message, seal)

AssertionStands(usable, a) ==
  LET c == a.content
  IN  /\ a.sha = c
      /\ c.arch = doc.arch
      /\ SignedBy(usable, c.key, "management_assertion", c, a.seal, a.at)
      /\ c.holder = doc.keys[c.key].holder
      /\ SponsorMatches(c.holder, c.sponsor)

StatementStands_Unbound(usable, standing, s) ==
  LET c == s.content
  IN  /\ s.sha = c
      /\ c.arch = doc.arch
      /\ SignedBy(usable, c.key, "review", c, s.seal, s.at)
      /\ \E a \in doc.assertions : /\ a.sha = c.assertion /\ a.content.model = c.model
                                   /\ doc.keys[a.content.key].holder # doc.keys[c.key].holder

StatementStands(usable, standing, s) ==
  LET c == s.content
  IN  /\ s.sha = c
      /\ c.arch = doc.arch
      /\ SignedBy(usable, c.key, "review", c, s.seal, s.at)
      /\ \E a \in standing : /\ a.sha = c.assertion /\ a.content.model = c.model
                             /\ doc.keys[a.content.key].holder # doc.keys[c.key].holder

\* checkReviewRecord.  A record of another architecture than the report's is not looked into.
\* Keys come first, then assertions, then the statements that name them.
Check(report) ==
  /\ pc = "exported"
  /\ contradicted' \in OutOfBand /\ (edited => contradicted' = {})
  /\ IF report # NoReport /\ report # doc.arch
     THEN pc' = "refused" /\ UNCHANGED <<verified, passed>>
     ELSE LET usable   == {k \in Keys : Acknowledged(k)} \ contradicted'
              standing == {a \in doc.assertions : AssertionStands(usable, a)}
          IN  /\ pc' = "done"
              /\ verified' = standing
              /\ passed' = {s \in doc.statements : StatementStands(usable, standing, s)}
  /\ UNCHANGED <<world, copy>>

-----------------------------------------------------------------------------
NoDoc == [arch |-> Arch, keys |-> registry, assertions |-> {}, statements |-> {}]

Init ==
  /\ now = 1
  /\ \E regs \in [Keys -> UNION {Registrations[k] : k \in Keys}], early \in SUBSET Keys :
       /\ \A k \in Keys : regs[k] \in Registrations[k]
       /\ registry = [k \in Keys |->
         [holder |-> regs[k].holder, purpose |-> regs[k].purpose, from |-> regs[k].from,
          to |-> regs[k].to, revoked |-> Never,
          acknowledged |-> IF k \in early THEN now ELSE Never,
          seal |-> IF k \in early THEN Seal(k, RegistrationMessage(k, regs[k])) ELSE NoSeal]]
  /\ assertions = {} /\ statements = {} /\ inForce = {}
  /\ doc = NoDoc /\ edited = FALSE
  /\ pc = "open" /\ contradicted = {} /\ verified = {} /\ passed = {}

Submit ==
  \/ \E k \in Keys, h \in Holders, sponsor \in Sponsors : Assert(k, h, sponsor)
  \/ \E k \in Keys, a \in assertions, m \in Models, arch \in Archs : Review(k, a, m, arch)

Next ==
  \/ \E k \in Keys : Acknowledge(k) \/ Revoke(k) \/ EditKey(k)
  \/ Submit
  \/ Export
  \/ \E a \in doc.assertions : EditAssertion(a)
  \/ \E s \in doc.statements : EditStatement(s)
  \/ \E report \in Archs \cup {NoReport} : Check(report)

Spec == Init /\ [][Next]_vars

-----------------------------------------------------------------------------
\* Types.  The members of a copy have those of what was exported.
Moments == Nat \cup {Never}
RegistrationMessages ==
  [key : Keys, holder : Holders, purpose : {"management_assertion", "review"},
   from : Int, to : Int \cup {Never}]
Registered ==
  [holder : Holders, purpose : {"management_assertion", "review"}, from : Int,
   to : Int \cup {Never}, revoked : Moments, acknowledged : Moments,
   seal : {NoSeal} \cup [by : Keys, over : RegistrationMessages]]
AssertionContents ==
  [arch : {Arch}, model : Models, holder : Holders, sponsor : Sponsors, key : Keys]
StatementContents ==
  [arch : Archs, model : Models, assertion : AssertionContents, key : Keys]
SignedRecords(contents) ==
  [content : contents, sha : contents, seal : [by : Keys, over : contents], at : Nat]
Docs ==
  [arch : {Arch}, keys : [Keys -> Registered],
   assertions : SUBSET SignedRecords(AssertionContents),
   statements : SUBSET SignedRecords(StatementContents)]

TypeOK ==
  /\ now \in Nat \ {0} /\ pc \in {"open", "exported", "refused", "done"} /\ edited \in BOOLEAN
  /\ registry \in [Keys -> Registered]
  /\ assertions \subseteq SignedRecords(AssertionContents)
  /\ statements \subseteq SignedRecords(StatementContents)
  /\ doc \in Docs

\* The registry's word on who holds a key.
Holder(k) == registry[k].holder

\* In an untouched copy, verified whenever, the verdict is what could be said on the day: a
\* record counts exactly if its key was in force when it was submitted, whatever was revoked,
\* acknowledged or changed since, and it is of this architecture and bound as it has to be
\* (keyUsableAt, the loops of checkReviewRecord).
VerdictIsHistory ==
  pc = "done" /\ ~edited =>
    LET good == {a \in assertions \cap inForce :
                   LET c == a.content
                   IN  /\ c.arch = Arch /\ c.key \notin contradicted
                       /\ c.holder = Holder(c.key) /\ SponsorMatches(c.holder, c.sponsor)}
    IN  /\ verified = good
        /\ passed =
             {s \in statements \cap inForce :
                LET c == s.content
                IN  /\ c.arch = Arch /\ c.key \notin contradicted
                    /\ \E a \in good : /\ a.content = c.assertion /\ a.content.model = c.model
                                       /\ Holder(a.content.key) # Holder(c.key)}

\* Whatever one place of the copy was changed: a statement that passes was signed as it reads by
\* the holder of a review key, over an assertion signed as it reads, on the same model, by the
\* holder of a management assertion key who the organisation's registry says is someone else.
SeparationSurvivesEdits ==
  \A s \in passed :
    /\ s.content \in {r.content : r \in statements}
    /\ registry[s.content.key].purpose = "review"
    /\ s.content.assertion \in {r.content : r \in assertions}
    /\ s.content.assertion.model = s.content.model
    /\ registry[s.content.assertion.key].purpose = "management_assertion"
    /\ Holder(s.content.assertion.key) # Holder(s.content.key)
=============================================================================
