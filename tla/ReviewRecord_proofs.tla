------------------------ MODULE ReviewRecord_proofs ------------------------
(***************************************************************************)
(* Proofs about the review record: a verdict is what could be said on the  *)
(* day of the signature, and two persons stand behind every statement that *)
(* passes, for any number of keys, holders, records and moments.  Then the *)
(* sample sheet of the same bundle: the rows are drawn, for any number of  *)
(* clauses and any draw.                                                   *)
(***************************************************************************)
EXTENDS ReviewRecord, SampleSheet, FiniteSetTheorems, TLAPS

-----------------------------------------------------------------------------
(***************************************************************************)
(* Updates of one member of a record.                                      *)
(***************************************************************************)
SealSet == {NoSeal} \cup [by : Keys, over : RegistrationMessages]

\* What Acknowledge makes of a registration.
LEMMA AcknowledgedEntry ==
  ASSUME NEW r \in Registered, NEW t \in Moments, NEW s \in SealSet
  PROVE  LET new == [r EXCEPT !.acknowledged = t, !.seal = s] IN
         /\ new \in Registered
         /\ new.holder = r.holder /\ new.purpose = r.purpose
         /\ new.from = r.from /\ new.to = r.to /\ new.revoked = r.revoked
         /\ new.acknowledged = t /\ new.seal = s
  BY Zenon DEF Registered, SealSet

\* What Revoke makes of one, and EditKey.
LEMMA RevokedEntry ==
  ASSUME NEW r \in Registered, NEW t \in Moments
  PROVE  LET new == [r EXCEPT !.revoked = t] IN
         /\ new \in Registered
         /\ new.holder = r.holder /\ new.purpose = r.purpose
         /\ new.from = r.from /\ new.to = r.to /\ new.revoked = t
         /\ new.acknowledged = r.acknowledged /\ new.seal = r.seal
  BY Zenon DEF Registered

LEMMA RenamedEntry ==
  ASSUME NEW r \in Registered, NEW h \in Holders
  PROVE  LET new == [r EXCEPT !.holder = h] IN
         /\ new \in Registered
         /\ new.purpose = r.purpose /\ new.acknowledged = r.acknowledged /\ new.seal = r.seal
  BY Zenon DEF Registered

LEMMA WithKeys ==
  ASSUME NEW d \in Docs, NEW ks \in [Keys -> Registered]
  PROVE  LET new == [d EXCEPT !.keys = ks] IN
         /\ new \in Docs /\ new.keys = ks
         /\ new.assertions = d.assertions /\ new.statements = d.statements
  BY Zenon DEF Docs

LEMMA WithAssertions ==
  ASSUME NEW d \in Docs, NEW as \in SUBSET SignedRecords(AssertionContents)
  PROVE  LET new == [d EXCEPT !.assertions = as] IN
         /\ new \in Docs /\ new.assertions = as
         /\ new.keys = d.keys /\ new.statements = d.statements
  BY Zenon DEF Docs

LEMMA WithStatements ==
  ASSUME NEW d \in Docs, NEW ss \in SUBSET SignedRecords(StatementContents)
  PROVE  LET new == [d EXCEPT !.statements = ss] IN
         /\ new \in Docs /\ new.statements = ss
         /\ new.keys = d.keys /\ new.assertions = d.assertions
  BY Zenon DEF Docs

\* A record with another time keeps its seal.
LEMMA AtAnotherTime ==
  ASSUME NEW C, NEW r \in SignedRecords(C), NEW t \in Nat
  PROVE  LET new == [r EXCEPT !.at = t] IN new \in SignedRecords(C) /\ new.seal = r.seal
  BY Zenon DEF SignedRecords

LEMMA AssertionRewritten ==
  ASSUME NEW c \in AssertionContents, NEW m \in Models, NEW h \in Holders
  PROVE  [c EXCEPT !.model = m, !.holder = h] \in AssertionContents
  BY Zenon DEF AssertionContents

LEMMA StatementRewritten ==
  ASSUME NEW c \in StatementContents, NEW m \in Models, NEW a \in AssertionContents
  PROVE  [c EXCEPT !.model = m, !.assertion = a] \in StatementContents
  BY Zenon DEF StatementContents

-----------------------------------------------------------------------------
(***************************************************************************)
(* Types.                                                                  *)
(***************************************************************************)
LEMMA ChosenAreThere == Arch \in Archs /\ Model \in Models
  BY ChoiceAssumption DEF Arch, Model

LEMMA MomentsCome == ASSUME NEW t \in Nat PROVE t \in Moments
  BY DEF Moments

\* A registration's message and its seal have the types of what is signed.
LEMMA SealTyped ==
  ASSUME NEW k \in Keys, NEW r \in Registered
  PROVE  Seal(k, RegistrationMessage(k, r)) \in SealSet
  BY DEF Seal, RegistrationMessage, SealSet, RegistrationMessages, Registered

\* What Acknowledge, Revoke and the submissions do to the registry and the records.
LEMMA AcknowledgeEffect ==
  ASSUME TypeOK, NEW k \in Keys, Acknowledge(k)
  PROVE  /\ registry' \in [Keys -> Registered]
         /\ \A j \in Keys \ {k} : registry'[j] = registry[j]
         /\ LET new == registry'[k] IN
            /\ new.holder = registry[k].holder /\ new.purpose = registry[k].purpose
            /\ new.from = registry[k].from /\ new.to = registry[k].to
            /\ new.revoked = registry[k].revoked /\ new.acknowledged = now
            /\ new.seal = Seal(k, RegistrationMessage(k, registry[k]))
<1> DEFINE r == registry[k]
           s == Seal(k, RegistrationMessage(k, r))
           new == [r EXCEPT !.acknowledged = now, !.seal = s]
<1>1. r \in Registered /\ registry \in [Keys -> Registered]
  BY DEF TypeOK
<1>2. now \in Moments /\ s \in SealSet
  BY <1>1, SealTyped DEF TypeOK, Moments
<1>3. registry' = [registry EXCEPT ![k] = new]
  BY Zenon DEF Acknowledge
<1>4. /\ new \in Registered
      /\ new.holder = r.holder /\ new.purpose = r.purpose
      /\ new.from = r.from /\ new.to = r.to /\ new.revoked = r.revoked
      /\ new.acknowledged = now /\ new.seal = s
  BY <1>1, <1>2, AcknowledgedEntry, Zenon
<1> HIDE DEF new
<1>5. registry'[k] = new /\ registry' \in [Keys -> Registered] /\ \A j \in Keys \ {k} : registry'[j] = registry[j]
  BY <1>1, <1>3, <1>4
<1> QED BY <1>4, <1>5

LEMMA RevokeEffect ==
  ASSUME TypeOK, NEW k \in Keys, Revoke(k)
  PROVE  /\ registry' \in [Keys -> Registered]
         /\ \A j \in Keys \ {k} : registry'[j] = registry[j]
         /\ LET new == registry'[k] IN
            /\ new.holder = registry[k].holder /\ new.purpose = registry[k].purpose
            /\ new.from = registry[k].from /\ new.to = registry[k].to
            /\ new.revoked = now /\ new.acknowledged = registry[k].acknowledged
            /\ new.seal = registry[k].seal
<1> DEFINE r == registry[k]
           new == [r EXCEPT !.revoked = now]
<1>1. r \in Registered /\ registry \in [Keys -> Registered] /\ now \in Moments
  BY DEF TypeOK, Moments
<1>2. registry' = [registry EXCEPT ![k] = new]
  BY Zenon DEF Revoke
<1>3. /\ new \in Registered
      /\ new.holder = r.holder /\ new.purpose = r.purpose
      /\ new.from = r.from /\ new.to = r.to /\ new.revoked = now
      /\ new.acknowledged = r.acknowledged /\ new.seal = r.seal
  BY <1>1, RevokedEntry, Zenon
<1> HIDE DEF new
<1>4. registry'[k] = new /\ registry' \in [Keys -> Registered] /\ \A j \in Keys \ {k} : registry'[j] = registry[j]
  BY <1>1, <1>2, <1>3
<1> QED BY <1>3, <1>4

\* An edit of the copy changes no seal, and of a registration neither the purpose nor the
\* acknowledgement.
LEMMA EditKeyEffect ==
  ASSUME TypeOK, NEW k \in Keys, EditKey(k)
  PROVE  /\ doc' \in Docs
         /\ doc'.assertions = doc.assertions /\ doc'.statements = doc.statements
         /\ \A j \in Keys : /\ doc'.keys[j].purpose = doc.keys[j].purpose
                            /\ doc'.keys[j].acknowledged = doc.keys[j].acknowledged
                            /\ doc'.keys[j].seal = doc.keys[j].seal
<1> DEFINE r == doc.keys[k]
<1>1. doc \in Docs /\ doc.keys \in [Keys -> Registered] /\ r \in Registered
  BY DEF TypeOK, Docs
<1>2. SUFFICES
        ASSUME NEW new \in Registered,
               doc' = [doc EXCEPT !.keys = [doc.keys EXCEPT ![k] = new]],
               new.purpose = r.purpose /\ new.acknowledged = r.acknowledged /\ new.seal = r.seal
        PROVE  /\ doc' \in Docs
               /\ doc'.assertions = doc.assertions /\ doc'.statements = doc.statements
               /\ \A j \in Keys : /\ doc'.keys[j].purpose = doc.keys[j].purpose
                                  /\ doc'.keys[j].acknowledged = doc.keys[j].acknowledged
                                  /\ doc'.keys[j].seal = doc.keys[j].seal
  <2>1. CASE \E h \in Holders : Edit([doc EXCEPT !.keys[k] = [@ EXCEPT !.holder = h]])
    <3>1. PICK h \in Holders : Edit([doc EXCEPT !.keys[k] = [@ EXCEPT !.holder = h]])
      BY <2>1
    <3> DEFINE new == [r EXCEPT !.holder = h]
    <3>2. doc' = [doc EXCEPT !.keys = [doc.keys EXCEPT ![k] = new]]
      BY <3>1, Zenon DEF Edit
    <3>3. new \in Registered /\ new.purpose = r.purpose /\ new.acknowledged = r.acknowledged /\ new.seal = r.seal
      BY <1>1, RenamedEntry, Zenon
    <3> QED BY <1>2, <3>2, <3>3, Zenon
  <2>2. CASE \E t \in {Never, 1} : Edit([doc EXCEPT !.keys[k].revoked = t])
    <3>1. PICK t \in {Never, 1} : Edit([doc EXCEPT !.keys[k].revoked = t])
      BY <2>2
    <3> DEFINE new == [r EXCEPT !.revoked = t]
    <3>2. doc' = [doc EXCEPT !.keys = [doc.keys EXCEPT ![k] = new]]
      BY <3>1, Zenon DEF Edit
    <3>3. t \in Moments
      BY DEF Moments
    <3>4. new \in Registered /\ new.purpose = r.purpose /\ new.acknowledged = r.acknowledged /\ new.seal = r.seal
      BY <1>1, <3>3, RevokedEntry, Zenon
    <3> QED BY <1>2, <3>2, <3>4, Zenon
  <2> QED BY <2>1, <2>2 DEF EditKey
<1> DEFINE ks == [doc.keys EXCEPT ![k] = new]
<1>3. ks \in [Keys -> Registered] /\ ks[k] = new /\ \A j \in Keys \ {k} : ks[j] = doc.keys[j]
  BY <1>1, <1>2
<1>4. doc' = [doc EXCEPT !.keys = ks]
  BY <1>2
<1> HIDE DEF ks
<1>5. /\ doc' \in Docs /\ doc'.keys = ks
      /\ doc'.assertions = doc.assertions /\ doc'.statements = doc.statements
  BY <1>1, <1>3, <1>4, WithKeys, Zenon
<1> QED BY <1>2, <1>3, <1>5

LEMMA EditAssertionEffect ==
  ASSUME TypeOK, NEW a \in doc.assertions, EditAssertion(a)
  PROVE  /\ doc' \in Docs
         /\ doc'.keys = doc.keys /\ doc'.statements = doc.statements
         /\ \A b \in doc'.assertions : \E c \in doc.assertions : b.seal = c.seal
<1> DEFINE SA == SignedRecords(AssertionContents)
<1>1. doc \in Docs /\ doc.assertions \subseteq SA /\ a \in SA
  BY DEF TypeOK, Docs
<1>2. \E as \in SUBSET SA : /\ doc' = [doc EXCEPT !.assertions = as]
                            /\ \A x \in as : \E c \in doc.assertions : x.seal = c.seal
  <2>1. ASSUME NEW b \in SA, b.seal = a.seal, Edit([doc EXCEPT !.assertions = Replaced(@, a, b)])
        PROVE  \E as \in SUBSET SA : /\ doc' = [doc EXCEPT !.assertions = as]
                                     /\ \A x \in as : \E c \in doc.assertions : x.seal = c.seal
    <3>1. doc' = [doc EXCEPT !.assertions = Replaced(doc.assertions, a, b)]
      BY <2>1, Zenon DEF Edit
    <3>2. Replaced(doc.assertions, a, b) \in SUBSET SA
      BY <1>1, <2>1 DEF Replaced
    <3>3. \A x \in Replaced(doc.assertions, a, b) : \E c \in doc.assertions : x.seal = c.seal
      BY <2>1 DEF Replaced
    <3> QED BY <3>1, <3>2, <3>3, Zenon
  <2>2. CASE Edit([doc EXCEPT !.assertions = @ \ {a}])
    <3>1. doc' = [doc EXCEPT !.assertions = doc.assertions \ {a}]
      BY <2>2, Zenon DEF Edit
    <3>2. doc.assertions \ {a} \in SUBSET SA
      BY <1>1
    <3>3. \A x \in doc.assertions \ {a} : \E c \in doc.assertions : x.seal = c.seal
      OBVIOUS
    <3> QED BY <3>1, <3>2, <3>3, Zenon
  <2>3. CASE \E t \in {1, MaxTime} : Edit([doc EXCEPT !.assertions = Replaced(@, a, [a EXCEPT !.at = t])])
    <3>1. PICK t \in {1, MaxTime} : Edit([doc EXCEPT !.assertions = Replaced(@, a, [a EXCEPT !.at = t])])
      BY <2>3
    <3>2. t \in Nat
      BY TimeAssumption
    <3>3. [a EXCEPT !.at = t] \in SA /\ [a EXCEPT !.at = t].seal = a.seal
      BY <1>1, <3>2, AtAnotherTime, Zenon
    <3> QED BY <2>1, <3>1, <3>3, Zenon
  <2>4. CASE \E m \in Models, h \in Holders :
               LET content == [a.content EXCEPT !.model = m, !.holder = h]
               IN  \E sha \in {a.sha, content} :
                     Edit([doc EXCEPT !.assertions =
                             Replaced(@, a, [a EXCEPT !.content = content, !.sha = sha])])
    <3>1. PICK m \in Models, h \in Holders :
               LET content == [a.content EXCEPT !.model = m, !.holder = h]
               IN  \E sha \in {a.sha, content} :
                     Edit([doc EXCEPT !.assertions =
                             Replaced(@, a, [a EXCEPT !.content = content, !.sha = sha])])
      BY <2>4
    <3> DEFINE content == [a.content EXCEPT !.model = m, !.holder = h]
    <3>2. PICK sha \in {a.sha, content} :
            Edit([doc EXCEPT !.assertions = Replaced(@, a, [a EXCEPT !.content = content, !.sha = sha])])
      BY <3>1
    <3>3. a.content \in AssertionContents /\ a.sha \in AssertionContents
      BY <1>1 DEF SignedRecords
    <3>4. content \in AssertionContents
      BY <3>3, AssertionRewritten, Zenon
    <3> HIDE DEF content
    <3>5. sha \in AssertionContents
      BY <3>3, <3>4
    <3>6. /\ [a EXCEPT !.content = content, !.sha = sha] \in SA
          /\ [a EXCEPT !.content = content, !.sha = sha].seal = a.seal
      BY <1>1, <3>4, <3>5, Zenon DEF SignedRecords
    <3> QED BY <2>1, <3>2, <3>6, Zenon
  <2> QED BY <2>2, <2>3, <2>4 DEF EditAssertion
<1>3. PICK as \in SUBSET SA : /\ doc' = [doc EXCEPT !.assertions = as]
                             /\ \A x \in as : \E c \in doc.assertions : x.seal = c.seal
  BY <1>2
<1>4. /\ doc' \in Docs /\ doc'.assertions = as
      /\ doc'.keys = doc.keys /\ doc'.statements = doc.statements
  BY <1>1, <1>3, WithAssertions, Zenon
<1> QED BY <1>3, <1>4, Zenon

LEMMA EditStatementEffect ==
  ASSUME TypeOK, NEW s \in doc.statements, EditStatement(s)
  PROVE  /\ doc' \in Docs
         /\ doc'.keys = doc.keys /\ doc'.assertions = doc.assertions
         /\ \A b \in doc'.statements : \E c \in doc.statements : b.seal = c.seal
<1> DEFINE SS == SignedRecords(StatementContents)
<1>1. doc \in Docs /\ doc.statements \subseteq SS /\ s \in SS
  BY DEF TypeOK, Docs
<1>2. \E ss \in SUBSET SS : /\ doc' = [doc EXCEPT !.statements = ss]
                            /\ \A x \in ss : \E c \in doc.statements : x.seal = c.seal
  <2>1. ASSUME NEW b \in SS, b.seal = s.seal, Edit([doc EXCEPT !.statements = Replaced(@, s, b)])
        PROVE  \E ss \in SUBSET SS : /\ doc' = [doc EXCEPT !.statements = ss]
                                     /\ \A x \in ss : \E c \in doc.statements : x.seal = c.seal
    <3>1. doc' = [doc EXCEPT !.statements = Replaced(doc.statements, s, b)]
      BY <2>1, Zenon DEF Edit
    <3>2. Replaced(doc.statements, s, b) \in SUBSET SS
      BY <1>1, <2>1 DEF Replaced
    <3>3. \A x \in Replaced(doc.statements, s, b) : \E c \in doc.statements : x.seal = c.seal
      BY <2>1 DEF Replaced
    <3> QED BY <3>1, <3>2, <3>3, Zenon
  <2>2. CASE \E t \in {1, MaxTime} : Edit([doc EXCEPT !.statements = Replaced(@, s, [s EXCEPT !.at = t])])
    <3>1. PICK t \in {1, MaxTime} : Edit([doc EXCEPT !.statements = Replaced(@, s, [s EXCEPT !.at = t])])
      BY <2>2
    <3>2. t \in Nat
      BY TimeAssumption
    <3>3. [s EXCEPT !.at = t] \in SS /\ [s EXCEPT !.at = t].seal = s.seal
      BY <1>1, <3>2, AtAnotherTime, Zenon
    <3> QED BY <2>1, <3>1, <3>3, Zenon
  <2>3. CASE \E m \in Models, b \in doc.assertions :
               LET content == [s.content EXCEPT !.model = m, !.assertion = b.sha]
               IN  \E sha \in {s.sha, content} :
                     Edit([doc EXCEPT !.statements =
                             Replaced(@, s, [s EXCEPT !.content = content, !.sha = sha])])
    <3>1. PICK m \in Models, b \in doc.assertions :
               LET content == [s.content EXCEPT !.model = m, !.assertion = b.sha]
               IN  \E sha \in {s.sha, content} :
                     Edit([doc EXCEPT !.statements =
                             Replaced(@, s, [s EXCEPT !.content = content, !.sha = sha])])
      BY <2>3
    <3> DEFINE content == [s.content EXCEPT !.model = m, !.assertion = b.sha]
    <3>2. PICK sha \in {s.sha, content} :
            Edit([doc EXCEPT !.statements = Replaced(@, s, [s EXCEPT !.content = content, !.sha = sha])])
      BY <3>1
    <3>3. s.content \in StatementContents /\ s.sha \in StatementContents
      BY <1>1 DEF SignedRecords
    <3>4. b.sha \in AssertionContents
      BY <1>1 DEF Docs, SignedRecords
    <3>5. content \in StatementContents
      BY <3>3, <3>4, StatementRewritten, Zenon
    <3> HIDE DEF content
    <3>6. sha \in StatementContents
      BY <3>3, <3>5
    <3>7. /\ [s EXCEPT !.content = content, !.sha = sha] \in SS
          /\ [s EXCEPT !.content = content, !.sha = sha].seal = s.seal
      BY <1>1, <3>5, <3>6, Zenon DEF SignedRecords
    <3> QED BY <2>1, <3>2, <3>7, Zenon
  <2> QED BY <2>2, <2>3 DEF EditStatement
<1>3. PICK ss \in SUBSET SS : /\ doc' = [doc EXCEPT !.statements = ss]
                             /\ \A x \in ss : \E c \in doc.statements : x.seal = c.seal
  BY <1>2
<1>4. /\ doc' \in Docs /\ doc'.statements = ss
      /\ doc'.keys = doc.keys /\ doc'.assertions = doc.assertions
  BY <1>1, <1>3, WithStatements, Zenon
<1> QED BY <1>3, <1>4, Zenon

\* What is submitted is typed, sealed over its content and of this moment.
LEMMA SubmittedRecord ==
  ASSUME TypeOK, NEW k \in Keys, NEW C, NEW content \in C, content.key = k
  PROVE  LET r == Record(k, content) IN
         /\ r \in SignedRecords(C)
         /\ r.sha = r.content /\ r.content = content /\ r.seal = Seal(k, content) /\ r.at = now
  BY DEF TypeOK, Record, Seal, SignedRecords

LEMMA AssertEffect ==
  ASSUME TypeOK, NEW k \in Keys, NEW h \in Holders, NEW sponsor \in Sponsors, Assert(k, h, sponsor)
  PROVE  \E r \in SignedRecords(AssertionContents) :
           /\ assertions' = assertions \cup {r}
           /\ Submitted(k, "management_assertion", r)
           /\ r.content.key = k /\ r.sha = r.content /\ r.seal = Seal(k, r.content) /\ r.at = now
<1> DEFINE c == [arch |-> Arch, model |-> Model, holder |-> h, sponsor |-> sponsor, key |-> k]
<1>1. c \in AssertionContents /\ c.key = k
  BY ChosenAreThere DEF AssertionContents
<1>2. assertions' = assertions \cup {Record(k, c)} /\ Submitted(k, "management_assertion", Record(k, c))
  BY DEF Assert
<1> HIDE DEF c
<1> QED BY <1>1, <1>2, SubmittedRecord

LEMMA ReviewEffect ==
  ASSUME TypeOK, NEW k \in Keys, NEW a \in assertions, NEW m \in Models, NEW arch \in Archs,
         Review(k, a, m, arch)
  PROVE  \E r \in SignedRecords(StatementContents) :
           /\ statements' = statements \cup {r}
           /\ Submitted(k, "review", r)
           /\ r.content.key = k /\ r.sha = r.content /\ r.seal = Seal(k, r.content) /\ r.at = now
<1> DEFINE c == [arch |-> arch, model |-> m, assertion |-> a.sha, key |-> k]
<1>1. a.sha \in AssertionContents
  BY DEF TypeOK, SignedRecords
<1>2. c \in StatementContents /\ c.key = k
  BY <1>1 DEF StatementContents
<1>3. statements' = statements \cup {Record(k, c)} /\ Submitted(k, "review", Record(k, c))
  BY DEF Review
<1> HIDE DEF c
<1> QED BY <1>2, <1>3, SubmittedRecord

LEMMA InitTyped == Init => TypeOK
<1> SUFFICES ASSUME Init PROVE TypeOK
  OBVIOUS
<1>1. registry \in [Keys -> Registered]
  <2>1. PICK regs \in [Keys -> UNION {Registrations[k] : k \in Keys}], early \in SUBSET Keys :
          /\ \A k \in Keys : regs[k] \in Registrations[k]
          /\ registry = [k \in Keys |->
               [holder |-> regs[k].holder, purpose |-> regs[k].purpose, from |-> regs[k].from,
                to |-> regs[k].to, revoked |-> Never,
                acknowledged |-> IF k \in early THEN now ELSE Never,
                seal |-> IF k \in early THEN Seal(k, RegistrationMessage(k, regs[k])) ELSE NoSeal]]
    BY DEF Init
  <2>2. ASSUME NEW k \in Keys PROVE registry[k] \in Registered
    <3>1. regs[k] \in [holder : Holders, purpose : {"management_assertion", "review"},
                       from : Int, to : Int \cup {Never}]
      BY <2>1, RegistrationsAssumption
    <3>2. Seal(k, RegistrationMessage(k, regs[k])) \in [by : Keys, over : RegistrationMessages]
      BY <3>1 DEF Seal, RegistrationMessage, RegistrationMessages
    <3>3. now \in Moments /\ Never \in Moments
      BY DEF Init, Moments
    <3> DEFINE ack  == IF k \in early THEN now ELSE Never
               seal == IF k \in early THEN Seal(k, RegistrationMessage(k, regs[k])) ELSE NoSeal
    <3>4. ack \in Moments /\ seal \in {NoSeal} \cup [by : Keys, over : RegistrationMessages]
      BY <3>2, <3>3, Zenon
    <3>5. registry[k] = [holder |-> regs[k].holder, purpose |-> regs[k].purpose,
                         from |-> regs[k].from, to |-> regs[k].to, revoked |-> Never,
                         acknowledged |-> ack, seal |-> seal]
      BY <2>1, Zenon
    <3> HIDE DEF ack, seal
    <3> QED BY <3>1, <3>3, <3>4, <3>5 DEF Registered
  <2> QED BY <2>1, <2>2
<1>2. now = 1 /\ pc = "open" /\ edited = FALSE /\ assertions = {} /\ statements = {} /\ doc = NoDoc
  BY DEF Init
<1>3. doc \in Docs
  BY <1>1, <1>2, Zenon DEF NoDoc, Docs
<1>4. now \in Nat \ {0} /\ pc \in {"open", "exported", "refused", "done"}
  BY <1>2
<1>5. /\ edited \in BOOLEAN
      /\ assertions \subseteq SignedRecords(AssertionContents)
      /\ statements \subseteq SignedRecords(StatementContents)
  BY <1>2, Zenon
<1> QED BY <1>1, <1>3, <1>4, <1>5, Zenon DEF TypeOK

LEMMA TypeStep == TypeOK /\ [Next]_vars => TypeOK'
<1> SUFFICES ASSUME TypeOK, [Next]_vars PROVE TypeOK'
  OBVIOUS
<1>1. ASSUME NEW k \in Keys, Acknowledge(k) PROVE TypeOK'
  <2>1. registry' \in [Keys -> Registered]
    BY <1>1, AcknowledgeEffect
  <2>2. now' = now + 1 /\ UNCHANGED <<assertions, statements, doc, edited, pc>>
    BY <1>1, Zenon DEF Acknowledge, Open, StillOpen, copy
  <2> QED BY <2>1, <2>2 DEF TypeOK
<1>2. ASSUME NEW k \in Keys, Revoke(k) PROVE TypeOK'
  <2>1. registry' \in [Keys -> Registered]
    BY <1>2, RevokeEffect
  <2>2. now' = now + 1 /\ UNCHANGED <<assertions, statements, doc, edited, pc>>
    BY <1>2, Zenon DEF Revoke, Open, StillOpen, copy
  <2> QED BY <2>1, <2>2 DEF TypeOK
<1>3. ASSUME NEW k \in Keys, EditKey(k) PROVE TypeOK'
  <2>1. doc' \in Docs
    BY <1>3, EditKeyEffect
  <2>2. UNCHANGED <<world, pc>> /\ edited' = TRUE
    BY <1>3, Zenon DEF EditKey, Edit
  <2> QED BY <2>1, <2>2 DEF TypeOK, world
<1>4. ASSUME NEW k \in Keys, NEW h \in Holders, NEW sponsor \in Sponsors, Assert(k, h, sponsor)
      PROVE  TypeOK'
  <2>1. assertions' \subseteq assertions \cup SignedRecords(AssertionContents)
    BY <1>4, AssertEffect
  <2>2. now' = now + 1 /\ UNCHANGED <<registry, statements, doc, edited, pc>>
    BY <1>4, Zenon DEF Assert, Submitted, Open, StillOpen, copy
  <2> QED BY <2>1, <2>2 DEF TypeOK
<1>5. ASSUME NEW k \in Keys, NEW a \in assertions, NEW m \in Models, NEW r \in Archs, Review(k, a, m, r)
      PROVE  TypeOK'
  <2>1. statements' \subseteq statements \cup SignedRecords(StatementContents)
    BY <1>5, ReviewEffect
  <2>2. now' = now + 1 /\ UNCHANGED <<registry, assertions, doc, edited, pc>>
    BY <1>5, Zenon DEF Review, Submitted, Open, StillOpen, copy
  <2> QED BY <2>1, <2>2 DEF TypeOK
<1>6. CASE Export
  <2>1. doc' \in Docs
    <3>1. doc' = [arch |-> Arch, keys |-> registry, assertions |-> assertions, statements |-> statements]
      BY <1>6, Zenon DEF Export
    <3> QED BY <3>1, Zenon DEF TypeOK, Docs
  <2>2. pc' = "exported" /\ UNCHANGED <<now, registry, assertions, statements, edited>>
    BY <1>6, Zenon DEF Export, world
  <2> QED BY <2>1, <2>2 DEF TypeOK
<1>7. ASSUME NEW a \in doc.assertions, EditAssertion(a) PROVE TypeOK'
  <2>1. doc' \in Docs
    BY <1>7, EditAssertionEffect
  <2>2. UNCHANGED <<world, pc>> /\ edited' = TRUE
    BY <1>7, Zenon DEF EditAssertion, Edit
  <2> QED BY <2>1, <2>2 DEF TypeOK, world
<1>8. ASSUME NEW s \in doc.statements, EditStatement(s) PROVE TypeOK'
  <2>1. doc' \in Docs
    BY <1>8, EditStatementEffect
  <2>2. UNCHANGED <<world, pc>> /\ edited' = TRUE
    BY <1>8, Zenon DEF EditStatement, Edit
  <2> QED BY <2>1, <2>2 DEF TypeOK, world
<1>9. ASSUME NEW report \in Archs \cup {NoReport}, Check(report) PROVE TypeOK'
  <2>1. UNCHANGED <<world, copy>> /\ pc' \in {"refused", "done"}
    BY <1>9, Zenon DEF Check
  <2> QED BY <2>1 DEF TypeOK, world, copy
<1>10. CASE UNCHANGED vars
  BY <1>10 DEF TypeOK, vars, world, copy
<1> QED BY <1>1, <1>2, <1>3, <1>4, <1>5, <1>6, <1>7, <1>8, <1>9, <1>10 DEF Next, Submit

\* Type correctness of the world, the copy and the verdict.
THEOREM TypeCorrect == Spec => []TypeOK
BY InitTyped, TypeStep, PTL DEF Spec

-----------------------------------------------------------------------------
(***************************************************************************)
(* The world before the export: what is sealed, and since when it counts.  *)
(***************************************************************************)
\* An acknowledged registration is sealed by its key, as the registry has it.
SealedRegistry ==
  \A k \in Keys : registry[k].acknowledged # Never =>
    registry[k].seal = Seal(k, RegistrationMessage(k, registry[k]))

SealedRecords ==
  \A r \in assertions \cup statements : r.sha = r.content /\ r.seal = Seal(r.content.key, r.content)

\* Records lie in the past; no change of the registry lies in the future.
NothingIsLater ==
  /\ inForce \subseteq assertions \cup statements
  /\ \A r \in assertions \cup statements : r.at < now
  /\ \A k \in Keys : /\ registry[k].acknowledged # Never => registry[k].acknowledged <= now
                     /\ registry[k].revoked # Never => registry[k].revoked <= now

Counts(r, purpose) ==
  registry[r.content.key].purpose = purpose /\ UsableAt(registry[r.content.key], r.at)

\* The registry of any later day says of a record what could be said on the day.
HistoryIsKept ==
  /\ \A a \in assertions : a \in inForce <=> Counts(a, "management_assertion")
  /\ \A s \in statements : s \in inForce <=> Counts(s, "review")

WorldInv == SealedRegistry /\ SealedRecords /\ NothingIsLater /\ HistoryIsKept

LEMMA InitWorld == Init => WorldInv
<1> SUFFICES ASSUME Init PROVE WorldInv
  OBVIOUS
<1>1. PICK regs \in [Keys -> UNION {Registrations[k] : k \in Keys}], early \in SUBSET Keys :
        /\ \A k \in Keys : regs[k] \in Registrations[k]
        /\ registry = [k \in Keys |->
             [holder |-> regs[k].holder, purpose |-> regs[k].purpose, from |-> regs[k].from,
              to |-> regs[k].to, revoked |-> Never,
              acknowledged |-> IF k \in early THEN now ELSE Never,
              seal |-> IF k \in early THEN Seal(k, RegistrationMessage(k, regs[k])) ELSE NoSeal]]
  BY DEF Init
<1>2. assertions = {} /\ statements = {} /\ inForce = {} /\ now = 1
  BY DEF Init
<1>3. ASSUME NEW k \in Keys, registry[k].acknowledged # Never
      PROVE  /\ registry[k].seal = Seal(k, RegistrationMessage(k, registry[k]))
             /\ registry[k].acknowledged <= now
  <2>1. k \in early
    BY <1>1, <1>3
  <2>2. RegistrationMessage(k, registry[k]) = RegistrationMessage(k, regs[k])
    BY <1>1 DEF RegistrationMessage
  <2> QED BY <1>1, <1>2, <2>1, <2>2
<1>4. \A k \in Keys : registry[k].revoked = Never
  BY <1>1
<1> QED BY <1>2, <1>3, <1>4 DEF WorldInv, SealedRegistry, SealedRecords, NothingIsLater, HistoryIsKept

\* A registration that keeps what the window and the seal are made of.
LEMMA SameMessage ==
  ASSUME NEW k \in Keys, NEW r, NEW new,
         new.holder = r.holder /\ new.purpose = r.purpose /\ new.from = r.from /\ new.to = r.to
  PROVE  RegistrationMessage(k, new) = RegistrationMessage(k, r)
  BY DEF RegistrationMessage

LEMMA RecordsTyped ==
  ASSUME TypeOK
  PROVE  /\ \A r \in assertions \cup statements : r.content.key \in Keys /\ r.at \in Nat
         /\ \A k \in Keys : registry[k].revoked \in Moments /\ registry[k].acknowledged \in Moments
  BY DEF TypeOK, SignedRecords, AssertionContents, StatementContents, Registered

\* The two changes of the registry leave what counted counting, and only that.
LEMMA RegistryStep ==
  ASSUME TypeOK, WorldInv, NEW k \in Keys, Acknowledge(k) \/ Revoke(k)
  PROVE  WorldInv'
<1>1. /\ now \in Nat /\ now' = now + 1
      /\ UNCHANGED <<assertions, statements, inForce>>
  BY Zenon DEF TypeOK, Acknowledge, Revoke, Open
<1>2. \A j \in Keys \ {k} : registry'[j] = registry[j]
  BY AcknowledgeEffect, RevokeEffect
<1>3. /\ registry'[k].holder = registry[k].holder /\ registry'[k].purpose = registry[k].purpose
      /\ registry'[k].from = registry[k].from /\ registry'[k].to = registry[k].to
  BY AcknowledgeEffect, RevokeEffect
<1>4. RegistrationMessage(k, registry'[k]) = RegistrationMessage(k, registry[k])
  BY <1>3, SameMessage
<1>5. \/ /\ registry[k].acknowledged = Never /\ registry'[k].acknowledged = now
         /\ registry'[k].revoked = registry[k].revoked
         /\ registry'[k].seal = Seal(k, RegistrationMessage(k, registry[k]))
      \/ /\ registry[k].revoked = Never /\ registry'[k].revoked = now
         /\ registry'[k].acknowledged = registry[k].acknowledged
         /\ registry'[k].seal = registry[k].seal
  BY AcknowledgeEffect, RevokeEffect DEF Acknowledge, Revoke
<1>6. SealedRegistry'
  BY <1>2, <1>4, <1>5 DEF WorldInv, SealedRegistry
<1>7. SealedRecords'
  BY <1>1 DEF WorldInv, SealedRecords
<1>8. NothingIsLater'
  BY <1>1, <1>2, <1>5, RecordsTyped DEF WorldInv, NothingIsLater, Moments
<1>9. ASSUME NEW r \in assertions \cup statements, NEW purpose
      PROVE  Counts(r, purpose)' <=> Counts(r, purpose)
  <2>1. r.at \in Nat /\ r.at < now /\ r.content.key \in Keys
    BY RecordsTyped DEF WorldInv, NothingIsLater
  <2>2. CASE r.content.key # k
    BY <1>2, <2>1, <2>2 DEF Counts
  <2>3. CASE r.content.key = k
    <3>1. UsableAt(registry'[k], r.at) <=> UsableAt(registry[k], r.at)
      BY <1>1, <1>3, <1>5, <2>1 DEF UsableAt
    <3> QED BY <1>3, <2>3, <3>1 DEF Counts
  <2> QED BY <2>2, <2>3
<1>10. HistoryIsKept'
  BY <1>1, <1>9 DEF WorldInv, HistoryIsKept
<1> QED BY <1>6, <1>7, <1>8, <1>10 DEF WorldInv

\* A submission is in force exactly when it counts, and no earlier record's standing changes.
LEMMA SubmittedForce ==
  ASSUME TypeOK, WorldInv, NEW k \in Keys, NEW purpose, NEW r,
         r.content.key = k, r.at = now, Submitted(k, purpose, r)
  PROVE  /\ UNCHANGED registry
         /\ inForce' \subseteq inForce \cup {r}
         /\ r \in inForce' <=> Counts(r, purpose)'
         /\ \A x \in assertions \cup statements : x \in inForce' <=> x \in inForce
<1>1. inForce' = IF InForce(k, purpose) THEN inForce \cup {r} ELSE inForce
  BY Zenon DEF Submitted
<1>2. registry' = registry
  BY Zenon DEF Submitted
<1>3. r \notin assertions \cup statements /\ r \notin inForce
  BY RecordsTyped DEF WorldInv, NothingIsLater, TypeOK
<1>4. InForce(k, purpose) <=> registry[k].purpose = purpose /\ UsableAt(registry[k], now)
  <2>1. /\ now \in Nat
        /\ registry[k].acknowledged # Never =>
             registry[k].acknowledged \in Nat /\ registry[k].acknowledged <= now
        /\ registry[k].revoked # Never => registry[k].revoked \in Nat /\ registry[k].revoked <= now
    BY RecordsTyped DEF WorldInv, NothingIsLater, TypeOK, Moments
  <2> QED BY <2>1 DEF InForce, UsableAt
<1>5. Counts(r, purpose)' <=> registry[k].purpose = purpose /\ UsableAt(registry[k], now)
  BY <1>2 DEF Counts
<1>6. r \in inForce' <=> InForce(k, purpose)
  BY <1>1, <1>3
<1> QED BY <1>1, <1>2, <1>3, <1>4, <1>5, <1>6

LEMMA AssertStep ==
  ASSUME TypeOK, WorldInv, NEW k \in Keys, NEW h \in Holders, NEW sponsor \in Sponsors,
         Assert(k, h, sponsor)
  PROVE  WorldInv'
<1>1. PICK r \in SignedRecords(AssertionContents) :
        /\ assertions' = assertions \cup {r}
        /\ Submitted(k, "management_assertion", r)
        /\ r.content.key = k /\ r.sha = r.content /\ r.seal = Seal(k, r.content) /\ r.at = now
  BY AssertEffect
<1>2. statements' = statements /\ now' = now + 1 /\ now \in Nat
  BY Zenon DEF Assert, Open, TypeOK
<1>3. /\ UNCHANGED registry
      /\ inForce' \subseteq inForce \cup {r}
      /\ r \in inForce' <=> Counts(r, "management_assertion")'
      /\ \A x \in assertions \cup statements : x \in inForce' <=> x \in inForce
  BY <1>1, SubmittedForce
<1>4. SealedRegistry'
  BY <1>3 DEF WorldInv, SealedRegistry
<1>5. SealedRecords'
  BY <1>1, <1>2 DEF WorldInv, SealedRecords
<1>6. NothingIsLater'
  BY <1>1, <1>2, <1>3, RecordsTyped DEF WorldInv, NothingIsLater, Moments
<1>7. \A x, purpose : Counts(x, purpose)' <=> Counts(x, purpose)
  BY <1>3 DEF Counts
<1>8. HistoryIsKept'
  BY <1>1, <1>2, <1>3, <1>7 DEF WorldInv, HistoryIsKept
<1> QED BY <1>4, <1>5, <1>6, <1>8 DEF WorldInv

LEMMA ReviewStep ==
  ASSUME TypeOK, WorldInv, NEW k \in Keys, NEW a \in assertions, NEW m \in Models, NEW arch \in Archs,
         Review(k, a, m, arch)
  PROVE  WorldInv'
<1>1. PICK r \in SignedRecords(StatementContents) :
        /\ statements' = statements \cup {r}
        /\ Submitted(k, "review", r)
        /\ r.content.key = k /\ r.sha = r.content /\ r.seal = Seal(k, r.content) /\ r.at = now
  BY ReviewEffect
<1>2. assertions' = assertions /\ now' = now + 1 /\ now \in Nat
  BY Zenon DEF Review, Open, TypeOK
<1>3. /\ UNCHANGED registry
      /\ inForce' \subseteq inForce \cup {r}
      /\ r \in inForce' <=> Counts(r, "review")'
      /\ \A x \in assertions \cup statements : x \in inForce' <=> x \in inForce
  BY <1>1, SubmittedForce
<1>4. SealedRegistry'
  BY <1>3 DEF WorldInv, SealedRegistry
<1>5. SealedRecords'
  BY <1>1, <1>2 DEF WorldInv, SealedRecords
<1>6. NothingIsLater'
  BY <1>1, <1>2, <1>3, RecordsTyped DEF WorldInv, NothingIsLater, Moments
<1>7. \A x, purpose : Counts(x, purpose)' <=> Counts(x, purpose)
  BY <1>3 DEF Counts
<1>8. HistoryIsKept'
  BY <1>1, <1>2, <1>3, <1>7 DEF WorldInv, HistoryIsKept
<1> QED BY <1>4, <1>5, <1>6, <1>8 DEF WorldInv

LEMMA WorldRests == ASSUME WorldInv, UNCHANGED world PROVE WorldInv'
  BY DEF WorldInv, SealedRegistry, SealedRecords, NothingIsLater, HistoryIsKept, Counts, world

LEMMA WorldStep == TypeOK /\ WorldInv /\ [Next]_vars => WorldInv'
<1> SUFFICES ASSUME TypeOK, WorldInv, [Next]_vars PROVE WorldInv'
  OBVIOUS
<1>1. ASSUME NEW k \in Keys, Acknowledge(k) \/ Revoke(k) PROVE WorldInv'
  BY <1>1, RegistryStep
<1>2. ASSUME NEW k \in Keys, NEW h \in Holders, NEW sponsor \in Sponsors, Assert(k, h, sponsor)
      PROVE  WorldInv'
  BY <1>2, AssertStep
<1>3. ASSUME NEW k \in Keys, NEW a \in assertions, NEW m \in Models, NEW r \in Archs, Review(k, a, m, r)
      PROVE  WorldInv'
  BY <1>3, ReviewStep
<1>4. CASE UNCHANGED world
  BY <1>4, WorldRests
<1>5. ASSUME NEW k \in Keys, EditKey(k) PROVE UNCHANGED world
  BY <1>5, Zenon DEF EditKey, Edit
<1>6. Export => UNCHANGED world
  BY Zenon DEF Export
<1>7. ASSUME NEW a \in doc.assertions, EditAssertion(a) PROVE UNCHANGED world
  BY <1>7, Zenon DEF EditAssertion, Edit
<1>8. ASSUME NEW s \in doc.statements, EditStatement(s) PROVE UNCHANGED world
  BY <1>8, Zenon DEF EditStatement, Edit
<1>9. ASSUME NEW report \in Archs \cup {NoReport}, Check(report) PROVE UNCHANGED world
  BY <1>9, Zenon DEF Check
<1>10. UNCHANGED vars => UNCHANGED world
  BY Zenon DEF vars
<1> QED BY <1>1, <1>2, <1>3, <1>4, <1>5, <1>6, <1>7, <1>8, <1>9, <1>10 DEF Next, Submit

-----------------------------------------------------------------------------
(***************************************************************************)
(* The copy: no edit makes a seal, and an untouched copy is the world's.   *)
(***************************************************************************)
CopyInv ==
  pc # "open" =>
    /\ \A k \in Keys : /\ doc.keys[k].purpose = registry[k].purpose
                       /\ doc.keys[k].acknowledged = registry[k].acknowledged
                       /\ doc.keys[k].seal = registry[k].seal
    /\ \A a \in doc.assertions : \E b \in assertions : a.seal = b.seal
    /\ \A s \in doc.statements : \E b \in statements : s.seal = b.seal
    /\ ~edited => /\ doc.keys = registry
                  /\ doc.assertions = assertions /\ doc.statements = statements

\* What an edit does, whatever it edits.
Forged ==
  /\ pc = "exported" /\ UNCHANGED <<world, pc, check>> /\ edited' = TRUE
  /\ doc' \in Docs
  /\ \A j \in Keys : /\ doc'.keys[j].purpose = doc.keys[j].purpose
                     /\ doc'.keys[j].acknowledged = doc.keys[j].acknowledged
                     /\ doc'.keys[j].seal = doc.keys[j].seal
  /\ \A b \in doc'.assertions : \E c \in doc.assertions : b.seal = c.seal
  /\ \A b \in doc'.statements : \E c \in doc.statements : b.seal = c.seal

LEMMA EditsForge ==
  ASSUME TypeOK,
         \/ \E k \in Keys : EditKey(k)
         \/ \E a \in doc.assertions : EditAssertion(a)
         \/ \E s \in doc.statements : EditStatement(s)
  PROVE  Forged
<1>1. ASSUME NEW k \in Keys, EditKey(k) PROVE Forged
  <2>1. pc = "exported" /\ UNCHANGED <<world, pc, check>> /\ edited' = TRUE
    BY <1>1, Zenon DEF EditKey, Edit
  <2> QED BY <1>1, <2>1, EditKeyEffect, Zenon DEF Forged
<1>2. ASSUME NEW a \in doc.assertions, EditAssertion(a) PROVE Forged
  <2>1. pc = "exported" /\ UNCHANGED <<world, pc, check>> /\ edited' = TRUE
    BY <1>2, Zenon DEF EditAssertion, Edit
  <2> QED BY <1>2, <2>1, EditAssertionEffect, Zenon DEF Forged
<1>3. ASSUME NEW s \in doc.statements, EditStatement(s) PROVE Forged
  <2>1. pc = "exported" /\ UNCHANGED <<world, pc, check>> /\ edited' = TRUE
    BY <1>3, Zenon DEF EditStatement, Edit
  <2> QED BY <1>3, <2>1, EditStatementEffect, Zenon DEF Forged
<1> QED BY <1>1, <1>2, <1>3

\* The other steps: the world moves while it is open, the export copies it, the check reads.
LEMMA OtherSteps ==
  ASSUME [Next]_vars
  PROVE  \/ pc = "open" /\ UNCHANGED <<pc, check>>
         \/ Export
         \/ \/ \E k \in Keys : EditKey(k)
            \/ \E a \in doc.assertions : EditAssertion(a)
            \/ \E s \in doc.statements : EditStatement(s)
         \/ \E report \in Archs \cup {NoReport} : Check(report)
         \/ UNCHANGED vars
<1>1. ASSUME NEW k \in Keys, Acknowledge(k) \/ Revoke(k) PROVE pc = "open" /\ UNCHANGED <<pc, check>>
  BY <1>1, Zenon DEF Acknowledge, Revoke, Open, StillOpen
<1>2. Submit => pc = "open" /\ UNCHANGED <<pc, check>>
  BY Zenon DEF Submit, Assert, Review, Submitted, Open, StillOpen
<1> QED BY <1>1, <1>2, Zenon DEF Next

LEMMA CopyStep == TypeOK /\ CopyInv /\ [Next]_vars => CopyInv'
<1> SUFFICES ASSUME TypeOK, CopyInv, [Next]_vars PROVE CopyInv'
  OBVIOUS
<1>1. CASE pc = "open" /\ UNCHANGED <<pc, check>>
  BY <1>1 DEF CopyInv
<1>2. CASE Export
  <2>1. doc' = [arch |-> Arch, keys |-> registry, assertions |-> assertions, statements |-> statements]
    BY <1>2, Zenon DEF Export
  <2>2. doc'.keys = registry /\ doc'.assertions = assertions /\ doc'.statements = statements
    BY <2>1
  <2>3. UNCHANGED <<registry, assertions, statements>>
    BY <1>2, Zenon DEF Export, world
  <2> QED BY <2>2, <2>3 DEF CopyInv
<1>3. CASE Forged
  BY <1>3 DEF Forged, CopyInv, world
<1>4. ASSUME NEW report \in Archs \cup {NoReport}, Check(report) PROVE CopyInv'
  <2>1. pc = "exported" /\ UNCHANGED <<registry, assertions, statements, doc, edited>>
    BY <1>4, Zenon DEF Check, world, copy
  <2> QED BY <2>1 DEF CopyInv
<1>5. CASE UNCHANGED vars
  BY <1>5 DEF CopyInv, vars, world, copy
<1> QED BY <1>1, <1>2, <1>3, <1>4, <1>5, OtherSteps, EditsForge

-----------------------------------------------------------------------------
(***************************************************************************)
(* The verdict.                                                            *)
(***************************************************************************)
LEMMA SealInjective ==
  ASSUME NEW k, NEW j, NEW x, NEW y, Seal(k, x) = Seal(j, y) PROVE k = j /\ x = y
  BY DEF Seal

LEMMA MessageTellsHolder ==
  ASSUME NEW k, NEW r, NEW q, RegistrationMessage(k, r) = RegistrationMessage(k, q)
  PROVE  r.holder = q.holder
  BY DEF RegistrationMessage

\* A registration the copy shows acknowledged is the registry's, holder included.
LEMMA AcknowledgedAsRegistered ==
  ASSUME WorldInv, CopyInv, pc = "exported", NEW k \in Keys, Acknowledged(k)
  PROVE  doc.keys[k].holder = registry[k].holder /\ doc.keys[k].purpose = registry[k].purpose
<1>1. /\ registry[k].acknowledged # Never
      /\ doc.keys[k].seal = registry[k].seal /\ doc.keys[k].purpose = registry[k].purpose
  BY DEF CopyInv, Acknowledged
<1>2. registry[k].seal = Seal(k, RegistrationMessage(k, registry[k]))
  BY <1>1 DEF WorldInv, SealedRegistry
<1>3. doc.keys[k].seal = Seal(k, RegistrationMessage(k, doc.keys[k]))
  BY DEF Acknowledged, CheckSignature
<1> QED BY <1>1, <1>2, <1>3, SealInjective, MessageTellsHolder

\* A record in the copy whose seal fits its content is one somebody submitted.
LEMMA SealedIsSubmitted ==
  ASSUME WorldInv, CopyInv, pc = "exported", NEW r, NEW k, r.seal = Seal(k, r.content)
  PROVE  /\ r \in doc.assertions => r.content \in {b.content : b \in assertions}
         /\ r \in doc.statements => r.content \in {b.content : b \in statements}
<1>1. ASSUME NEW b \in assertions \cup statements, r.seal = b.seal PROVE r.content = b.content
  <2>1. b.seal = Seal(b.content.key, b.content)
    BY DEF WorldInv, SealedRecords
  <2>2. Seal(k, r.content) = Seal(b.content.key, b.content)
    BY <1>1, <2>1
  <2> QED BY <2>2, SealInjective, Zenon
<1> QED BY <1>1 DEF CopyInv

VerdictInv ==
  SeparationSurvivesEdits /\ VerdictIsHistory /\ (pc # "done" => passed = {})

IInv == TypeOK /\ WorldInv /\ CopyInv /\ VerdictInv

\* What the check accepts in any copy, edited or not.
LEMMA AcceptedAssertion ==
  ASSUME TypeOK, WorldInv, CopyInv, pc = "exported", NEW usable \in SUBSET {k \in Keys : Acknowledged(k)},
         NEW a \in doc.assertions, AssertionStands(usable, a)
  PROVE  LET c == a.content IN
         /\ a.sha = c /\ c \in {r.content : r \in assertions}
         /\ registry[c.key].purpose = "management_assertion"
         /\ doc.keys[c.key].holder = registry[c.key].holder
<1> DEFINE c == a.content
<1>1. /\ a.sha = c /\ c.key \in usable /\ doc.keys[c.key].purpose = "management_assertion"
      /\ a.seal = Seal(c.key, c)
  BY DEF AssertionStands, SignedBy, CheckSignature
<1>2. c.key \in Keys /\ Acknowledged(c.key)
  BY <1>1
<1> QED BY <1>1, <1>2, AcknowledgedAsRegistered, SealedIsSubmitted

LEMMA AcceptedStatement ==
  ASSUME TypeOK, WorldInv, CopyInv, pc = "exported", NEW usable \in SUBSET {k \in Keys : Acknowledged(k)},
         NEW standing, NEW s \in doc.statements, StatementStands(usable, standing, s)
  PROVE  LET c == s.content IN
         /\ c \in {r.content : r \in statements}
         /\ registry[c.key].purpose = "review"
         /\ doc.keys[c.key].holder = registry[c.key].holder
         /\ \E a \in standing : /\ a.sha = c.assertion /\ a.content.model = c.model
                                /\ doc.keys[a.content.key].holder # doc.keys[c.key].holder
<1> DEFINE c == s.content
<1>1. /\ c.key \in usable /\ doc.keys[c.key].purpose = "review" /\ s.seal = Seal(c.key, c)
      /\ \E a \in standing : /\ a.sha = c.assertion /\ a.content.model = c.model
                             /\ doc.keys[a.content.key].holder # doc.keys[c.key].holder
  BY DEF StatementStands, SignedBy, CheckSignature
<1>2. c.key \in Keys /\ Acknowledged(c.key)
  BY <1>1
<1> QED BY <1>1, <1>2, AcknowledgedAsRegistered, SealedIsSubmitted

\* In an untouched copy the check repeats what the registry said on the day.
LEMMA UntouchedAssertion ==
  ASSUME TypeOK, WorldInv, CopyInv, pc = "exported", ~edited, NEW a \in assertions,
         NEW usable, usable = {k \in Keys : Acknowledged(k)} \ contradicted'
  PROVE  AssertionStands(usable, a) <=>
           LET c == a.content
           IN  /\ a \in inForce /\ c.arch = Arch /\ c.key \notin contradicted'
               /\ c.holder = Holder(c.key) /\ SponsorMatches(c.holder, c.sponsor)
<1> DEFINE c == a.content
<1>1. doc.keys = registry /\ doc.arch = Arch
  BY DEF CopyInv, TypeOK, Docs
<1>2. c.key \in Keys /\ a.sha = c /\ a.seal = Seal(c.key, c)
  BY RecordsTyped DEF WorldInv, SealedRecords
<1>3. UsableAt(registry[c.key], a.at) => Acknowledged(c.key)
  BY <1>1, <1>2 DEF UsableAt, Acknowledged, CheckSignature, WorldInv, SealedRegistry
<1>4. a \in inForce <=> registry[c.key].purpose = "management_assertion" /\ UsableAt(registry[c.key], a.at)
  BY DEF WorldInv, HistoryIsKept, Counts
<1> QED BY <1>1, <1>2, <1>3, <1>4 DEF AssertionStands, SignedBy, CheckSignature, Holder

LEMMA UntouchedStatement ==
  ASSUME TypeOK, WorldInv, CopyInv, pc = "exported", ~edited, NEW s \in statements,
         NEW usable, usable = {k \in Keys : Acknowledged(k)} \ contradicted',
         NEW standing, \A a \in standing : a.sha = a.content
  PROVE  StatementStands(usable, standing, s) <=>
           LET c == s.content
           IN  /\ s \in inForce /\ c.arch = Arch /\ c.key \notin contradicted'
               /\ \E a \in standing : /\ a.content = c.assertion /\ a.content.model = c.model
                                      /\ Holder(a.content.key) # Holder(c.key)
<1> DEFINE c == s.content
<1>1. doc.keys = registry /\ doc.arch = Arch
  BY DEF CopyInv, TypeOK, Docs
<1>2. c.key \in Keys /\ s.sha = c /\ s.seal = Seal(c.key, c)
  BY RecordsTyped DEF WorldInv, SealedRecords
<1>3. UsableAt(registry[c.key], s.at) => Acknowledged(c.key)
  BY <1>1, <1>2 DEF UsableAt, Acknowledged, CheckSignature, WorldInv, SealedRegistry
<1>4. s \in inForce <=> registry[c.key].purpose = "review" /\ UsableAt(registry[c.key], s.at)
  BY DEF WorldInv, HistoryIsKept, Counts
<1> QED BY <1>1, <1>2, <1>3, <1>4 DEF StatementStands, SignedBy, CheckSignature, Holder

LEMMA CheckStep ==
  ASSUME TypeOK, WorldInv, CopyInv, VerdictInv, NEW report, Check(report)
  PROVE  VerdictInv'
<1>1. pc = "exported" /\ UNCHANGED <<registry, assertions, statements, inForce, doc, edited>>
  BY Zenon DEF Check, world, copy
<1>2. CASE report # NoReport /\ report # doc.arch
  <2>1. pc' = "refused" /\ passed' = {}
    BY <1>1, <1>2 DEF Check, VerdictInv
  <2> QED BY <2>1 DEF VerdictInv, SeparationSurvivesEdits, VerdictIsHistory
<1>3. CASE ~(report # NoReport /\ report # doc.arch)
  <2> DEFINE usable == {k \in Keys : Acknowledged(k)} \ contradicted'
             standing == {a \in doc.assertions : AssertionStands(usable, a)}
  <2>1. /\ pc' = "done" /\ verified' = standing
        /\ passed' = {s \in doc.statements : StatementStands(usable, standing, s)}
    BY <1>3, Zenon DEF Check
  <2>2. /\ usable \in SUBSET {k \in Keys : Acknowledged(k)}
        /\ usable = {k \in Keys : Acknowledged(k)} \ contradicted'
    OBVIOUS
  <2> HIDE DEF usable
  <2>3. SeparationSurvivesEdits'
    <3> SUFFICES ASSUME NEW s \in passed'
                 PROVE  /\ s.content \in {r.content : r \in statements}
                        /\ registry[s.content.key].purpose = "review"
                        /\ s.content.assertion \in {r.content : r \in assertions}
                        /\ s.content.assertion.model = s.content.model
                        /\ registry[s.content.assertion.key].purpose = "management_assertion"
                        /\ registry[s.content.assertion.key].holder # registry[s.content.key].holder
      BY <1>1, Zenon DEF SeparationSurvivesEdits, Holder
    <3>1. s \in doc.statements /\ StatementStands(usable, standing, s)
      BY <2>1
    <3>2. /\ s.content \in {r.content : r \in statements}
          /\ registry[s.content.key].purpose = "review"
          /\ doc.keys[s.content.key].holder = registry[s.content.key].holder
          /\ \E a \in standing : /\ a.sha = s.content.assertion /\ a.content.model = s.content.model
                                 /\ doc.keys[a.content.key].holder # doc.keys[s.content.key].holder
      BY <1>1, <2>2, <3>1, AcceptedStatement, Zenon
    <3>3. PICK a \in standing : /\ a.sha = s.content.assertion /\ a.content.model = s.content.model
                                /\ doc.keys[a.content.key].holder # doc.keys[s.content.key].holder
      BY <3>2
    <3>4. /\ a.sha = a.content /\ a.content \in {r.content : r \in assertions}
          /\ registry[a.content.key].purpose = "management_assertion"
          /\ doc.keys[a.content.key].holder = registry[a.content.key].holder
      BY <1>1, <2>2, AcceptedAssertion, Zenon
    <3> QED BY <3>2, <3>3, <3>4
  <2>4. VerdictIsHistory'
    <3> SUFFICES ASSUME ~edited
                 PROVE  LET good == {a \in assertions \cap inForce :
                                       LET c == a.content
                                       IN  /\ c.arch = Arch /\ c.key \notin contradicted'
                                           /\ c.holder = Holder(c.key)
                                           /\ SponsorMatches(c.holder, c.sponsor)}
                        IN  /\ standing = good
                            /\ passed' =
                                 {s \in statements \cap inForce :
                                    LET c == s.content
                                    IN  /\ c.arch = Arch /\ c.key \notin contradicted'
                                        /\ \E a \in good : /\ a.content = c.assertion /\ a.content.model = c.model
                                                           /\ Holder(a.content.key) # Holder(c.key)}
      BY <1>1, <2>1, Zenon DEF VerdictIsHistory, Holder
    <3> DEFINE good == {a \in assertions \cap inForce :
                          LET c == a.content
                          IN  /\ c.arch = Arch /\ c.key \notin contradicted'
                              /\ c.holder = Holder(c.key)
                              /\ SponsorMatches(c.holder, c.sponsor)}
    <3>1. doc.assertions = assertions /\ doc.statements = statements
      BY <1>1 DEF CopyInv
    <3>2. standing = good
      BY <1>1, <2>2, <3>1, UntouchedAssertion
    <3>3. \A a \in standing : a.sha = a.content
      BY <3>1 DEF WorldInv, SealedRecords
    <3> HIDE DEF standing
    <3>4. ASSUME NEW s \in statements
          PROVE  StatementStands(usable, standing, s) <=>
                   LET c == s.content
                   IN  /\ s \in inForce /\ c.arch = Arch /\ c.key \notin contradicted'
                       /\ \E a \in standing : /\ a.content = c.assertion /\ a.content.model = c.model
                                              /\ Holder(a.content.key) # Holder(c.key)
      BY <1>1, <2>2, <3>3, UntouchedStatement, Zenon
    <3>5. passed' = {s \in statements \cap inForce :
                       LET c == s.content
                       IN  /\ c.arch = Arch /\ c.key \notin contradicted'
                           /\ \E a \in standing : /\ a.content = c.assertion /\ a.content.model = c.model
                                                  /\ Holder(a.content.key) # Holder(c.key)}
      BY <2>1, <3>1, <3>4
    <3> QED BY <3>2, <3>5, Zenon
  <2> QED BY <2>1, <2>3, <2>4 DEF VerdictInv
<1> QED BY <1>2, <1>3

LEMMA VerdictStep == TypeOK /\ WorldInv /\ CopyInv /\ VerdictInv /\ [Next]_vars => VerdictInv'
<1> SUFFICES ASSUME TypeOK, WorldInv, CopyInv, VerdictInv, [Next]_vars PROVE VerdictInv'
  OBVIOUS
<1>1. ASSUME pc # "done", pc' # "done", passed' = passed PROVE VerdictInv'
  BY <1>1 DEF VerdictInv, SeparationSurvivesEdits, VerdictIsHistory
<1>2. Export \/ Forged => pc # "done" /\ pc' # "done" /\ passed' = passed
  BY DEF Export, Forged, check
<1>3. UNCHANGED vars => VerdictInv'
  BY DEF VerdictInv, SeparationSurvivesEdits, VerdictIsHistory, Holder, vars, world, copy, check
<1>4. pc = "open" /\ UNCHANGED <<pc, check>> => pc # "done" /\ pc' # "done" /\ passed' = passed
  BY DEF check
<1> QED BY <1>1, <1>2, <1>3, <1>4, OtherSteps, EditsForge, CheckStep

-----------------------------------------------------------------------------
\* The inductive invariant: types, what is sealed and since when it counts, what a copy can hold,
\* and the verdict.
THEOREM Invariance == Spec => []IInv
<1>1. Init => IInv
  <2>1. Init => CopyInv /\ VerdictInv
    BY DEF Init, CopyInv, VerdictInv, SeparationSurvivesEdits, VerdictIsHistory
  <2> QED BY <2>1, InitTyped, InitWorld DEF IInv
<1>2. IInv /\ [Next]_vars => IInv'
  BY TypeStep, WorldStep, CopyStep, VerdictStep DEF IInv
<1> QED BY <1>1, <1>2, PTL DEF Spec

\* Whatever one place of the copy was changed, two registered persons stand behind a statement
\* that passes, for the assertion it names.
THEOREM SeparationHolds == Spec => []SeparationSurvivesEdits
<1>1. IInv => SeparationSurvivesEdits
  BY DEF IInv, VerdictInv
<1> QED BY <1>1, Invariance, PTL

\* In an untouched copy the verdict is what could be said on the day of each record.
THEOREM HistoryHolds == Spec => []VerdictIsHistory
<1>1. IInv => VerdictIsHistory
  BY DEF IInv, VerdictInv
<1> QED BY <1>1, Invariance, PTL

-----------------------------------------------------------------------------
(***************************************************************************)
(* The draw.                                                               *)
(***************************************************************************)

\* The members of S whose key is below that of c.
Below(S, key, c) == {d \in S : key[d] < key[c]}

\* Ranks count from 0 and are all taken.
LEMMA RanksAreTaken ==
  ASSUME NEW S, IsFiniteSet(S), NEW key \in [S -> Nat],
         \A c, d \in S : key[c] = key[d] => c = d
  PROVE  LET rank == [c \in S |-> Cardinality(Below(S, key, c))]
         IN  rank \in Bijection(S, 0..(Cardinality(S) - 1))
<1> DEFINE n == Cardinality(S)
           rank == [c \in S |-> Cardinality(Below(S, key, c))]
<1>1. n \in Nat
  BY FS_CardinalityType
<1>2. ASSUME NEW c \in S
      PROVE  IsFiniteSet(Below(S, key, c)) /\ rank[c] = Cardinality(Below(S, key, c)) /\ rank[c] \in 0..(n - 1)
  <2>1. IsFiniteSet(S \ {c}) /\ Cardinality(S \ {c}) = n - 1
    BY FS_RemoveElement
  <2>2. Below(S, key, c) \in SUBSET (S \ {c})
    BY DEF Below
  <2>3. /\ IsFiniteSet(Below(S, key, c)) /\ Cardinality(Below(S, key, c)) <= n - 1
        /\ Cardinality(Below(S, key, c)) \in Nat
    BY <2>1, <2>2, FS_Subset, FS_CardinalityType
  <2> HIDE DEF n
  <2> QED BY <1>1, <2>3
<1>3. ASSUME NEW c \in S, NEW d \in S, key[c] < key[d]
      PROVE  rank[c] < rank[d]
  <2>1. Below(S, key, c) \cup {c} \in SUBSET Below(S, key, d) /\ c \notin Below(S, key, c)
    <3>1. key[c] \in Nat /\ key[d] \in Nat /\ \A e \in S : key[e] \in Nat
      OBVIOUS
    <3> QED BY <1>3, <3>1 DEF Below
  <2>2. Cardinality(Below(S, key, c) \cup {c}) = Cardinality(Below(S, key, c)) + 1
    BY <1>2, <2>1, FS_AddElement
  <2>3. Cardinality(Below(S, key, c) \cup {c}) <= Cardinality(Below(S, key, d))
    BY <1>2, <2>1, FS_Subset
  <2>4. rank[c] \in 0..(n - 1) /\ rank[d] \in 0..(n - 1)
    BY <1>2
  <2> HIDE DEF n, rank
  <2> QED BY <1>1, <1>2, <2>2, <2>3, <2>4
<1>4. rank \in [S -> 0..(n - 1)]
  BY <1>2
<1> HIDE DEF n, rank
<1>5. \A c, d \in S : rank[c] = rank[d] => c = d
  <2> SUFFICES ASSUME NEW c \in S, NEW d \in S, rank[c] = rank[d], c # d PROVE FALSE
    OBVIOUS
  <2>1. key[c] < key[d] \/ key[d] < key[c]
    <3>1. key[c] \in Nat /\ key[d] \in Nat /\ key[c] # key[d]
      OBVIOUS
    <3> QED BY <3>1
  <2>2. rank[c] \in Int /\ rank[d] \in Int
    BY <1>2, <1>1
  <2> QED BY <1>3, <2>1, <2>2
<1>6. rank \in Injection(S, 0..(n - 1))
  BY <1>4, <1>5 DEF Injection, IsInjective
<1>7. IsFiniteSet(0..(n - 1)) /\ Cardinality(0..(n - 1)) = n
  <2>1. 0 \in Int /\ n - 1 \in Int
    BY <1>1
  <2>2. IsFiniteSet(0..(n - 1)) /\ Cardinality(0..(n - 1)) = IF 0 > n - 1 THEN 0 ELSE (n - 1) - 0 + 1
    BY <2>1, FS_Interval
  <2> QED BY <1>1, <2>2
<1>8. rank \in Surjection(S, 0..(n - 1))
  <2>1. Cardinality(S) = Cardinality(0..(n - 1))
    BY <1>7 DEF n
  <2> QED BY <1>6, <1>7, <2>1, FS_Injection
<1> QED BY <1>6, <1>8 DEF Bijection, n, rank

\* Of a set with keys of their own, the members with the size smallest keys are size many, or all.
LEMMA SmallestKeys ==
  ASSUME NEW S, IsFiniteSet(S), NEW key \in [S -> Nat],
         \A c, d \in S : key[c] = key[d] => c = d, NEW size \in Nat
  PROVE  Cardinality({c \in S : Cardinality(Below(S, key, c)) < size})
           = IF Cardinality(S) < size THEN Cardinality(S) ELSE size
<1> DEFINE n == Cardinality(S)
           rank == [c \in S |-> Cardinality(Below(S, key, c))]
           m == IF n < size THEN n ELSE size
           drawn == {c \in S : Cardinality(Below(S, key, c)) < size}
           place == [c \in drawn |-> rank[c]]
<1>1. n \in Nat /\ m \in Nat /\ m <= n /\ m <= size /\ (m = n \/ m = size)
  BY FS_CardinalityType
<1>2. rank \in Bijection(S, 0..(n - 1))
  BY RanksAreTaken
<1>3. drawn = {c \in S : rank[c] < size} /\ drawn \in SUBSET S
  OBVIOUS
<1> HIDE DEF n, rank, m, drawn
<1>4. /\ \A c \in S : rank[c] \in 0..(n - 1)
      /\ \A c, d \in S : rank[c] = rank[d] => c = d
      /\ \A k \in 0..(n - 1) : \E c \in S : rank[c] = k
  BY <1>2 DEF Bijection, Injection, Surjection, IsInjective
<1>5. \A c \in drawn : rank[c] \in 0..(m - 1)
  <2> SUFFICES ASSUME NEW c \in drawn PROVE rank[c] \in 0..(m - 1)
    OBVIOUS
  <2>1. rank[c] \in 0..(n - 1) /\ rank[c] < size
    BY <1>3, <1>4
  <2> QED BY <1>1, <2>1
<1>6. \A k \in 0..(m - 1) : \E c \in drawn : rank[c] = k
  <2> SUFFICES ASSUME NEW k \in 0..(m - 1) PROVE \E c \in drawn : rank[c] = k
    OBVIOUS
  <2>1. k \in 0..(n - 1) /\ k < size
    BY <1>1
  <2>2. PICK c \in S : rank[c] = k
    BY <1>4, <2>1
  <2> QED BY <1>3, <2>1, <2>2
<1>7. place \in Injection(drawn, 0..(m - 1)) /\ place \in Surjection(drawn, 0..(m - 1))
  BY <1>3, <1>4, <1>5, <1>6 DEF Injection, Surjection, IsInjective
<1>8. IsFiniteSet(0..(m - 1)) /\ Cardinality(0..(m - 1)) = m
  <2>1. 0 \in Int /\ m - 1 \in Int
    BY <1>1
  <2>2. IsFiniteSet(0..(m - 1)) /\ Cardinality(0..(m - 1)) = IF 0 > m - 1 THEN 0 ELSE (m - 1) - 0 + 1
    BY <2>1, FS_Interval
  <2> QED BY <1>1, <2>2
<1> HIDE DEF place
<1>9. Cardinality(drawn) = m
  BY <1>7, <1>8, FS_Injection
<1> QED BY <1>9 DEF drawn, m, n

\* What was exported is what stood when it was exported, and a sheet is of a reviewer's parameters.
SampleInv ==
  /\ smBundle # << >> =>
       \E lost, changed :
         smBundle = [open |-> smOpen, patches |-> smPatches, record |-> smRecord,
                     lost |-> lost, changed |-> changed]
  /\ smSheet # << >> =>
       /\ smBundle # << >>
       /\ \E p \in Parameters :
            smSheet = IF ~Accepted(p) \/ Unreadable(smBundle) THEN Refused(p) ELSE Sheet(smBundle, p)

\* Every step keeps it: nothing changes once it is exported, and nothing is drawn before.
LEMMA SampleStep ==
  ASSUME SampleInv, [SampleNext]_sampleVars
  PROVE  SampleInv'
<1>1. ASSUME NEW f \in Possible, Raise(f) PROVE SampleInv'
  BY <1>1 DEF SampleInv, Raise
<1>2. ASSUME NEW touched, NEW stated, NEW fixed, AcceptPatch(touched, stated, fixed)
      PROVE  SampleInv'
  BY <1>2 DEF SampleInv, AcceptPatch
<1>3. ASSUME NEW lost, NEW changed, ExportMembers(lost, changed) PROVE SampleInv'
  BY <1>3 DEF SampleInv, ExportMembers
<1>4. ASSUME NEW p \in Parameters, Draw(p) PROVE SampleInv'
  <2>1. /\ smBundle # << >> /\ UNCHANGED <<smOpen, smPatches, smRecord, smBundle>>
        /\ smSheet' = IF ~Accepted(p) \/ Unreadable(smBundle) THEN Refused(p) ELSE Sheet(smBundle, p)
    BY <1>4 DEF Draw
  <2> QED BY <2>1 DEF SampleInv
<1>5. CASE UNCHANGED sampleVars
  BY <1>5 DEF SampleInv, sampleVars
<1> QED BY <1>1, <1>2, <1>3, <1>4, <1>5 DEF SampleNext

\* The sheet's invariant, for any population, findings, losses and parameters.
THEOREM SampleInvariance == SampleSpec => []SampleInv
<1>1. SampleInit => SampleInv
  BY DEF SampleInit, SampleInv
<1> QED BY <1>1, SampleStep, PTL DEF SampleSpec

\* A row is a row of the bundle, its clause a drawn one.
LEMMA RowsAreDrawn ==
  ASSUME SampleInv, smSheet # << >>, NEW r \in smSheet.rows
  PROVE  /\ ~smSheet.error /\ smSheet.params \in Parameters
         /\ r.clause \in Drawn(smBundle, smSheet.params)
         /\ r = Row(smBundle, r.clause)
<1>1. PICK p \in Parameters :
        smSheet = IF ~Accepted(p) \/ Unreadable(smBundle) THEN Refused(p) ELSE Sheet(smBundle, p)
  BY DEF SampleInv
<1>2. smSheet = Sheet(smBundle, p)
  BY <1>1 DEF Refused
<1>3. PICK c \in Drawn(smBundle, p) : r = Row(smBundle, c)
  BY <1>2 DEF Sheet
<1>4. r.clause = c
  BY <1>3 DEF Row
<1> QED BY <1>2, <1>3, <1>4 DEF Sheet

\* A row lists every patch a reviewer would ask about, for any findings and patches.
THEOREM PatchesAreListedHolds == SampleSpec => []PatchesAreListed
<1>1. SampleInv => PatchesAreListed
  <2> SUFFICES ASSUME SampleInv, smSheet # << >>, "patches.json" \notin smBundle.lost,
                      NEW r \in smSheet.rows, NEW i \in 1..Len(smPatches),
                      \/ \E f \in smOpen : f.clause = r.clause /\ f.element \in smPatches[i].touched
                      \/ /\ \A f \in smOpen : f.clause # r.clause
                         /\ \E f \in smPatches[i].fixed : f.clause = r.clause
               PROVE  i \in r.patches
    BY DEF PatchesAreListed
  <2> DEFINE c == r.clause
  <2>1. smBundle.open = smOpen /\ smBundle.patches = smPatches
    BY DEF SampleInv
  <2>2. r.patches = RowPatches(smBundle, c)
    BY RowsAreDrawn DEF Row
  <2>3. ReadPatches(smBundle) = smPatches
    BY <2>1 DEF ReadPatches
  <2>4. CASE ~ByElement(smBundle) \/ RowElements(smBundle, c) = {}
    BY <2>2, <2>3, <2>4 DEF RowPatches
  <2>5. CASE ByElement(smBundle) /\ RowElements(smBundle, c) # {}
    <3>1. PICK f \in smOpen : f.clause = c
      BY <2>1, <2>5 DEF RowElements, Cited
    <3>2. PICK g \in smOpen : g.clause = c /\ g.element \in smPatches[i].touched
      BY <3>1
    <3>3. g.element \in RowElements(smBundle, c)
      BY <2>1, <3>2 DEF RowElements, Cited
    <3> QED BY <2>2, <2>3, <2>5, <3>2, <3>3 DEF RowPatches
  <2> QED BY <2>4, <2>5
<1> QED BY <1>1, SampleInvariance, PTL

\* A seeded draw is of the rows with the smallest keys of its stratum.
LEMMA SeededDraw ==
  ASSUME NEW b, NEW p, p.method = "random_seeded"
  PROVE  Drawn(b, p) = {c \in Stratum(b, p) :
                          Cardinality(Below(Stratum(b, p), DrawKey[p.seed], c)) < p.size}
BY DEF Drawn, Below

\* In a narrower stratum a row has no more rows before it.
LEMMA NarrowerDraw ==
  ASSUME NEW b, NEW p \in Parameters, NEW q \in Parameters, Narrower(q, p), q.size = p.size,
         q.method = "random_seeded"
  PROVE  Drawn(b, p) \cap Stratum(b, q) \subseteq Drawn(b, q)
<1>1. p.method = "random_seeded" /\ p.seed = q.seed /\ q.size \in Int
  BY SampleAssumption DEF Narrower
<1>2. Stratum(b, q) \subseteq Stratum(b, p)
  <2>1. \A v : /\ InStratum(q.regimes, v) => InStratum(p.regimes, v)
               /\ InStratum(q.severities, v) => InStratum(p.severities, v)
               /\ InStratum(q.provenances, v) => InStratum(p.provenances, v)
    BY DEF Narrower, InStratum
  <2> QED BY <2>1 DEF Stratum
<1>3. Stratum(b, p) \subseteq Clauses /\ IsFiniteSet(Stratum(b, p))
  <2>1. Stratum(b, p) \in SUBSET Clauses
    BY DEF Stratum
  <2> QED BY <2>1, SampleAssumption, FS_Subset
<1>4. ASSUME NEW c \in Drawn(b, p), c \in Stratum(b, q)
      PROVE  c \in Drawn(b, q)
  <2> DEFINE few == Below(Stratum(b, q), DrawKey[q.seed], c)
             many == Below(Stratum(b, p), DrawKey[q.seed], c)
  <2>1. few \in SUBSET many /\ many \in SUBSET Stratum(b, p)
    BY <1>2 DEF Below
  <2>2. Cardinality(many) < q.size
    BY <1>1, <1>4, SeededDraw
  <2> HIDE DEF few, many
  <2>3. IsFiniteSet(many) /\ IsFiniteSet(few) /\ Cardinality(few) <= Cardinality(many)
    BY <1>3, <2>1, FS_Subset
  <2>4. Cardinality(few) \in Nat /\ Cardinality(many) \in Nat
    BY <2>3, FS_CardinalityType
  <2>5. Cardinality(few) < q.size
    BY <1>1, <2>2, <2>3, <2>4
  <2> QED BY <1>4, <2>5, SeededDraw DEF few
<1> QED BY <1>4

\* A draw cannot be steered by drawing again, for any population, strata, seeds and sizes.
THEOREM DrawIsConsistentHolds == SampleSpec => []DrawIsConsistent
<1>1. SampleInv => DrawIsConsistent
  <2> SUFFICES ASSUME SampleInv, smSheet # << >>, ~smSheet.error,
                      smSheet.params.method = "random_seeded"
               PROVE  DrawIsConsistent
    BY DEF DrawIsConsistent
  <2>1. PICK q \in Parameters :
          smSheet = IF ~Accepted(q) \/ Unreadable(smBundle) THEN Refused(q) ELSE Sheet(smBundle, q)
    BY DEF SampleInv
  <2>2. smSheet = Sheet(smBundle, q) /\ Accepted(q)
    BY <2>1 DEF Refused
  <2>3. smSheet.params = q /\ q.method = "random_seeded"
    BY <2>2 DEF Sheet
  <2>4. DrawnClauses = Drawn(smBundle, q)
    <3>1. DrawnClauses = {r.clause : r \in {Row(smBundle, c) : c \in Drawn(smBundle, q)}}
      BY <2>2 DEF DrawnClauses, Sheet
    <3>2. \A c : Row(smBundle, c).clause = c
      BY DEF Row
    <3> QED BY <3>1, <3>2
  <2>5. Cardinality(DrawnClauses)
          = IF Cardinality(Stratum(smBundle, q)) < q.size THEN Cardinality(Stratum(smBundle, q)) ELSE q.size
    <3> DEFINE S == Stratum(smBundle, q)
               key == [c \in S |-> DrawKey[q.seed][c]]
    <3>1. S \in SUBSET Clauses /\ IsFiniteSet(S)
      <4>1. S \in SUBSET Clauses
        BY DEF Stratum
      <4> QED BY <4>1, SampleAssumption, FS_Subset
    <3>2. /\ q.size \in Nat
          /\ DrawKey[q.seed] \in [Clauses -> Nat]
          /\ \A c, d \in Clauses : DrawKey[q.seed][c] = DrawKey[q.seed][d] => c = d
      <4>1. q.size \in Int /\ q.size > 0
        BY <2>2, <2>3, SampleAssumption DEF Accepted
      <4> QED BY <2>3, <4>1, SampleAssumption
    <3> HIDE DEF S
    <3>3. key \in [S -> Nat] /\ \A c, d \in S : key[c] = key[d] => c = d
      BY <3>1, <3>2
    <3>4. \A c \in S : Below(S, DrawKey[q.seed], c) = Below(S, key, c)
      BY DEF Below
    <3> HIDE DEF key
    <3>5. Cardinality({c \in S : Cardinality(Below(S, key, c)) < q.size})
            = IF Cardinality(S) < q.size THEN Cardinality(S) ELSE q.size
      BY <3>1, <3>2, <3>3, SmallestKeys
    <3>6. Drawn(smBundle, q) = {c \in S : Cardinality(Below(S, key, c)) < q.size}
      BY <2>3, <3>4, SeededDraw DEF S
    <3> QED BY <2>4, <3>5, <3>6 DEF S
  <2>6. ASSUME NEW p \in Parameters, Narrower(q, p), q.size = p.size
        PROVE  Drawn(smBundle, p) \cap Stratum(smBundle, q) \subseteq DrawnClauses
    BY <2>3, <2>4, <2>6, NarrowerDraw
  <2>7. ASSUME NEW p \in Parameters, p = [q EXCEPT !.size = p.size], p.size >= q.size
        PROVE  DrawnClauses \subseteq Drawn(smBundle, p)
    <3>1. /\ p.method = q.method /\ p.seed = q.seed /\ p.regimes = q.regimes
          /\ p.severities = q.severities /\ p.provenances = q.provenances
      <4>1. DOMAIN q = {"method", "seed", "list", "regimes", "severities", "provenances", "size"}
        BY SampleAssumption
      <4> QED BY <2>7, <4>1
    <3>2. Stratum(smBundle, p) = Stratum(smBundle, q)
      BY <3>1 DEF Stratum
    <3>3. p.size \in Int /\ q.size \in Int
      BY <2>3, <3>1, SampleAssumption
    <3>4. ASSUME NEW c \in Drawn(smBundle, q) PROVE c \in Drawn(smBundle, p)
      <4> DEFINE before == Below(Stratum(smBundle, q), DrawKey[q.seed], c)
      <4>1. c \in Stratum(smBundle, q) /\ Cardinality(before) < q.size
        BY <2>3, <3>4, SeededDraw
      <4>2. IsFiniteSet(before)
        <5>1. before \in SUBSET Clauses
          BY DEF Below, Stratum
        <5> HIDE DEF before
        <5> QED BY <5>1, SampleAssumption, FS_Subset
      <4>3. Cardinality(before) \in Nat
        BY <4>2, FS_CardinalityType
      <4>4. Cardinality(before) < p.size
        BY <2>7, <3>3, <4>1, <4>3
      <4> QED BY <2>3, <3>1, <3>2, <4>1, <4>4, SeededDraw
    <3> QED BY <2>4, <3>4
  <2> QED BY <2>3, <2>4, <2>5, <2>6, <2>7 DEF DrawIsConsistent
<1> QED BY <1>1, SampleInvariance, PTL
=============================================================================
