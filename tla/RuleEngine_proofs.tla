-------------------------- MODULE RuleEngine_proofs --------------------------
(***************************************************************************)
(* Proofs about the rule engine for every catalog and every model.  First  *)
(* what it relies on in CEL's logic, for every condition: type guards skip *)
(* only elements the condition is false on, and an outcome that is false   *)
(* with some facts unknown is false whatever they are.  Then the inductive *)
(* invariant of the two passes (IInv), then what the report holds of every *)
(* rule that is through and of the evaluation before (ReportInv).  Then    *)
(* the questions a condition asks of the graph (GraphInv) and the policy   *)
(* numbers it reads, on every finite graph and under every number of       *)
(* regimes.                                                                *)
(***************************************************************************)
EXTENDS RuleEngine, GraphWalks, PolicyTable, FiniteSetTheorems, TLAPS

\* A conjunction is false exactly when an operand is, whatever the others are.
LEMMA ConjoinFalse ==
  ASSUME NEW outcomes
  PROVE  Conjoin(outcomes) = "false" <=> "false" \in outcomes
BY DEF Conjoin

\* A disjunction of outcomes is false exactly when every operand is.
LEMMA DisjoinFalse ==
  ASSUME NEW outcomes \in SUBSET Outcome
  PROVE  Disjoin(outcomes) = "false" <=> \A o \in outcomes : o = "false"
BY DEF Disjoin, Outcome

\* A test gives an outcome.
LEMMA TestGivesOutcome ==
  ASSUME NEW t \in Test, NEW reading
  PROVE  TestOutcome(t, reading) \in Outcome
BY DEF TestOutcome, Outcome, Test

\* A clause is false exactly when each of its tests is.
LEMMA ClauseFalse ==
  ASSUME NEW clause \in SUBSET Test, NEW reading
  PROVE  ClauseOutcome(clause, reading) = "false"
           <=> \A t \in clause : TestOutcome(t, reading) = "false"
<1> DEFINE outcomes == {TestOutcome(t, reading) : t \in clause}
<1>1. outcomes \in SUBSET Outcome
  BY TestGivesOutcome
<1>2. Disjoin(outcomes) = "false" <=> \A o \in outcomes : o = "false"
  BY <1>1, DisjoinFalse
<1> QED
  BY <1>2 DEF ClauseOutcome

\* A condition is false exactly when one of its clauses is.
LEMMA EvalFalse ==
  ASSUME NEW cond, NEW reading
  PROVE  Eval(cond, reading) = "false" <=> \E c \in cond : ClauseOutcome(c, reading) = "false"
<1> DEFINE outcomes == {ClauseOutcome(c, reading) : c \in cond}
<1>1. Conjoin(outcomes) = "false" <=> "false" \in outcomes
  BY ConjoinFalse
<1> QED
  BY <1>1 DEF Eval

\* guard.go: an element the guards exclude cannot satisfy the condition, and evaluating the
\* condition on it would have been no error: skipping it changes neither findings nor errors.
THEOREM GuardsAreSound ==
  ASSUME NEW cond \in Condition, NEW reading \in Reading,
         Excludes(TypeGuards(cond), reading)
  PROVE  Eval(cond, reading) = "false"
<1>1. PICK t \in TypeGuards(cond) : reading[t.path] \in Word /\ reading[t.path] \notin t.holds
  BY DEF Excludes
<1>2. {t} \in cond /\ t \in Test
  BY <1>1 DEF TypeGuards, Condition
<1>3. TestOutcome(t, reading) = "false"
  BY <1>1, ValuesAssumption DEF TestOutcome
<1>4. ClauseOutcome({t}, reading) = "false"
  BY <1>2, <1>3, ClauseFalse
<1> QED
  BY <1>2, <1>4, EvalFalse

\* A test that is false with some facts unknown does not read an unknown fact.
LEMMA FalseTestIsKnown ==
  ASSUME NEW t \in Test, NEW partial \in PartialReading, NEW full \in Reading,
         \A p \in Path : partial[p] # Unknown => full[p] = partial[p],
         TestOutcome(t, partial) = "false"
  PROVE  TestOutcome(t, full) = "false"
<1>1. t.path \in Path /\ partial[t.path] # Unknown
  BY DEF TestOutcome, Test
<1>2. full[t.path] = partial[t.path]
  BY <1>1
<1> QED
  BY <1>1, <1>2 DEF TestOutcome

\* dependsOn: when the condition is false with the missing facts unknown, it is false however
\* they are declared, and however they are left out.
THEOREM UnknownsAreSound ==
  ASSUME NEW cond \in Condition, NEW partial \in PartialReading,
         Eval(cond, partial) = "false",
         NEW full \in Completions(partial)
  PROVE  Eval(cond, full) = "false"
<1>1. /\ full \in Reading
      /\ \A p \in Path : partial[p] # Unknown => full[p] = partial[p]
  BY DEF Completions, Reading, PartialReading
<1>2. PICK clause \in cond : ClauseOutcome(clause, partial) = "false"
  BY EvalFalse
<1>3. clause \in SUBSET Test
  BY <1>2 DEF Condition
<1>4. \A t \in clause : TestOutcome(t, partial) = "false"
  BY <1>2, <1>3, ClauseFalse
<1>5. \A t \in clause : TestOutcome(t, full) = "false"
  BY <1>1, <1>3, <1>4, FalseTestIsKnown
<1>6. ClauseOutcome(clause, full) = "false"
  BY <1>3, <1>5, ClauseFalse
<1> QED
  BY <1>2, <1>6, EvalFalse

\* coverRule decides soundly: with the undeclared required facts of an element replaced by
\* unknowns, a false condition is false on the element itself, and under every declaration.
THEOREM MissingFactsAreSound ==
  ASSUME NEW cond \in Condition, NEW reading \in Reading, NEW missing,
         Eval(cond, WithUnknowns(reading, missing)) = "false"
  PROVE  /\ Eval(cond, reading) = "false"
         /\ \A full \in Completions(WithUnknowns(reading, missing)) : Eval(cond, full) = "false"
<1> DEFINE partial == WithUnknowns(reading, missing)
<1>1. partial \in PartialReading
  BY DEF WithUnknowns, Reading, PartialReading
<1>2. reading \in Completions(partial)
  <2> DEFINE open == {p \in Path : partial[p] = Unknown}
             choice == [p \in open |-> reading[p]]
  <2>1. choice \in [open -> Value \cup {Absent}]
    BY DEF Reading
  <2>2. \A p \in Path : p \notin open => partial[p] = reading[p]
    BY DEF WithUnknowns
  <2>3. reading = [p \in Path |-> IF p \in open THEN choice[p] ELSE partial[p]]
    BY <2>2 DEF Reading
  <2> QED
    BY <2>1, <2>3 DEF Completions
<1>3. \A full \in Completions(partial) : Eval(cond, full) = "false"
  BY <1>1, UnknownsAreSound
<1> QED
  BY <1>2, <1>3

-----------------------------------------------------------------------------
(* The engine.                                                             *)

\* The facts decide what evaluating a rule gives: nothing else of the state is read.
LEMMA SameOutcomes ==
  ASSUME UNCHANGED facts, NEW r, NEW x
  PROVE  /\ Evaluated(r, x)' = Evaluated(r, x)
         /\ Fires(r, x)' <=> Fires(r, x)
         /\ Outside(r)' = Outside(r)
         /\ FalseForAll(r, x)' <=> FalseForAll(r, x)
<1>1. \A p, y : RawFact(p, y)' = RawFact(p, y)
  BY DEF RawFact
<1>2. \A y : Read(y)' = Read(y)
  BY <1>1 DEF Read
<1>3. \A y : Missing(r, y)' = Missing(r, y)
  BY <1>1 DEF Missing
<1>4. \A y : Override(r, y)' = Override(r, y)
  BY <1>2 DEF Override, SelectInSeq
<1>5. \A y : SeverityOf(r, y)' = SeverityOf(r, y)
  BY <1>2, <1>4 DEF SeverityOf
<1>6. \A y : Evaluated(r, y)' = Evaluated(r, y)
  BY <1>1, <1>2, <1>5 DEF Evaluated, MessageRenders
<1>7. \A y : Fires(r, y)' <=> Fires(r, y)
  BY <1>6 DEF Fires
<1>8. \A y : DomainOutcome(r, y)' = DomainOutcome(r, y)
  BY <1>2 DEF DomainOutcome
<1>9. Outside(r)' = Outside(r)
  BY <1>7, <1>8 DEF Outside
<1>10. FalseForAll(r, x)' <=> FalseForAll(r, x)
  BY <1>2, <1>3 DEF FalseForAll
<1> QED BY <1>6, <1>7, <1>9, <1>10

\* The rules of an evaluation, and the scope of each, are sequences without repetitions.
LEMMA RulesType ==
  ASSUME TypeOK, TurnInv
  PROVE  /\ Rules \in Seq(Rule) /\ Len(Rules) \in Nat
         /\ \A i \in 1..Len(Rules) : Rules[i] \in Rule
         /\ \A i, j \in 1..Len(Rules) : Rules[i].id = Rules[j].id => i = j
<1>1. catalog \in DOMAIN Catalogs /\ regimes \in EnabledRegimes
  BY DEF TurnInv
<1>2. /\ Rules \in Seq(Rule)
      /\ \A i, j \in 1..Len(Rules) : Rules[i].id = Rules[j].id => i = j
  BY <1>1, RulesAssumption DEF Rules
<1> QED BY <1>2

LEMMA ScopeType ==
  ASSUME NEW r
  PROVE  /\ Len(Scope(r)) \in Nat
         /\ ScopeSet(r) \subseteq Element
         /\ \A i, j \in 1..Len(Scope(r)) : Scope(r)[i] = Scope(r)[j] => i = j
<1>1. /\ Nodes \in Seq(Int) /\ Len(Nodes) \in Nat /\ DOMAIN Nodes = 1..Len(Nodes)
      /\ Edges \in Seq(Int) /\ Len(Edges) \in Nat /\ DOMAIN Edges = 1..Len(Edges)
  BY ElementsAssumption
<1>2. CASE r.scope = "node"
  BY <1>1, <1>2, ElementsAssumption DEF Scope, ScopeSet, Element
<1>3. CASE r.scope # "node" /\ r.scope = "edge"
  BY <1>1, <1>3, ElementsAssumption DEF Scope, ScopeSet, Element
<1>4. CASE r.scope # "node" /\ r.scope # "edge"
  BY <1>4 DEF Scope, ScopeSet, Element
<1> QED BY <1>2, <1>3, <1>4

\* What an element reads is a reading.
LEMMA ReadType ==
  ASSUME TypeOK, NEW x \in Element
  PROVE  Read(x) \in Reading
<1>1. \A p \in Path : RawFact(p, x) \in Value \cup {Absent}
  BY FactsAssumption DEF RawFact, TypeOK
<1> QED BY <1>1 DEF Read, Reading

\* Going one element further.
LEMMA SeenStep ==
  ASSUME NEW r, NEW k \in Nat \ {0}, k <= Len(Scope(r))
  PROVE  /\ Scope(r)[k] \in ScopeSet(r) /\ Scope(r)[k] \notin SeenBefore(r, k)
         /\ SeenBefore(r, k + 1) = SeenBefore(r, k) \cup {Scope(r)[k]}
<1>1. /\ Len(Scope(r)) \in Nat /\ k \in 1..Len(Scope(r))
      /\ \A i, j \in 1..Len(Scope(r)) : Scope(r)[i] = Scope(r)[j] => i = j
  BY ScopeType
<1>2. Scope(r)[k] \in ScopeSet(r) /\ Scope(r)[k] \notin SeenBefore(r, k)
  BY <1>1 DEF ScopeSet, SeenBefore
<1>3. {j \in 1..Len(Scope(r)) : j < k + 1} = {j \in 1..Len(Scope(r)) : j < k} \cup {k}
  BY <1>1
<1>4. SeenBefore(r, k + 1) = SeenBefore(r, k) \cup {Scope(r)[k]}
  BY <1>3 DEF SeenBefore
<1> QED BY <1>2, <1>4

\* The pass begins with nothing and ends with the whole scope.
LEMMA SeenEnds ==
  ASSUME NEW r, NEW k \in Nat
  PROVE  /\ SeenBefore(r, 1) = {}
         /\ SeenBefore(r, k) \subseteq ScopeSet(r)
         /\ k > Len(Scope(r)) => SeenBefore(r, k) = ScopeSet(r)
<1>1. Len(Scope(r)) \in Nat
  BY ScopeType
<1>2. {j \in 1..Len(Scope(r)) : j < 1} = {}
  BY <1>1
<1>3. k > Len(Scope(r)) => {j \in 1..Len(Scope(r)) : j < k} = 1..Len(Scope(r))
  BY <1>1
<1> QED BY <1>2, <1>3 DEF SeenBefore, ScopeSet

\* The scope of a rule is finite, so every set of its elements is.
LEMMA ScopeFinite ==
  ASSUME NEW r, NEW S \in SUBSET ScopeSet(r)
  PROVE  IsFiniteSet(S)
<1> DEFINE f == [i \in 1..Len(Scope(r)) |-> Scope(r)[i]]
<1>1. Len(Scope(r)) \in Nat
  BY ScopeType
<1>2. IsFiniteSet(1..Len(Scope(r)))
  BY <1>1, FS_Interval
<1>3. f \in Surjection(1..Len(Scope(r)), ScopeSet(r))
  BY DEF ScopeSet, Surjection
<1>4. IsFiniteSet(ScopeSet(r))
  BY <1>2, <1>3, FS_Surjection
<1> QED BY <1>4, FS_Subset

\* An element the type guards exclude would not have been a finding, nor an error.
LEMMA ExcludedIsFalse ==
  ASSUME TypeOK, NEW r \in Rule, NEW x \in Element,
         Excludes(TypeGuards(r.condition), Read(x))
  PROVE  Evaluated(r, x) = "false"
<1>1. r.condition \in Condition
  BY DEF Rule
<1>2. Eval(r.condition, Read(x)) = "false"
  BY <1>1, ReadType, GuardsAreSound
<1> QED BY <1>2 DEF Evaluated

\* An element that evaluates and is no finding has a condition that is false.
LEMMA SilentIsFalse ==
  ASSUME NEW r, NEW x, Evaluated(r, x) \in {"true", "false"}, ~Fires(r, x)
  PROVE  Eval(r.condition, Read(x)) = "false"
BY DEF Evaluated, Fires

\* The coverage pass decides soundly, with nothing missing and with the missing facts unknown.
LEMMA DecidedIsFalseForAll ==
  ASSUME TypeOK, NEW r \in Rule, NEW x \in Element,
         Evaluated(r, x) \in {"true", "false"}, ~Fires(r, x),
         Missing(r, x) = {} \/ ~DependsOn(r, x)
  PROVE  FalseForAll(r, x)
<1>1. r.condition \in Condition /\ Read(x) \in Reading
  BY ReadType DEF Rule
<1>2. Eval(r.condition, WithUnknowns(Read(x), Missing(r, x))) = "false"
  <2>1. CASE Missing(r, x) = {}
    <3>1. WithUnknowns(Read(x), {}) = Read(x)
      BY <1>1 DEF WithUnknowns, Reading
    <3> QED BY <2>1, <3>1, SilentIsFalse
  <2>2. CASE ~DependsOn(r, x)
    BY <2>2 DEF DependsOn
  <2> QED BY <2>1, <2>2
<1> QED BY <1>1, <1>2, MissingFactsAreSound DEF FalseForAll

-----------------------------------------------------------------------------
(***************************************************************************)
(* The inductive invariant.                                                *)
(***************************************************************************)

\* A rule that is through stays settled while its own entries stay.
LEMMA SettledKept ==
  ASSUME UNCHANGED facts, NEW r, Settled(r),
         r.id \in errs' <=> r.id \in errs,
         r.id \in hurried' <=> r.id \in hurried,
         r.id \in DOMAIN coverage' <=> r.id \in DOMAIN coverage,
         r.id \in DOMAIN coverage => coverage'[r.id] = coverage[r.id]
                                     /\ counted'[r.id] = counted[r.id]
  PROVE  Settled(r)'
<1>1. FailsOnError(r)'
  BY SameOutcomes DEF Settled, FailsOnError
<1>2. ASSUME r.id \in DOMAIN coverage' PROVE Accounts(r)' /\ DecidesSoundly(r)'
  <2>1. Accounts(r) /\ DecidesSoundly(r)
    BY <1>2 DEF Settled
  <2>2. Accounts(r)'
    BY <1>2, <2>1, SameOutcomes DEF Accounts
  <2>3. DecidesSoundly(r)'
    BY <1>2, <2>1, SameOutcomes DEF DecidesSoundly
  <2> QED BY <2>2, <2>3
<1> QED BY <1>1, <1>2 DEF Settled

\* The past of a rule is settled for as long as reports of other rules stay as they are.
LEMMA PastKept ==
  ASSUME TypeOK, TurnInv, PastInv, UNCHANGED input,
         \A id \in EarlierIds :
           /\ id \in errs' <=> id \in errs
           /\ id \in hurried' <=> id \in hurried
           /\ id \in DOMAIN coverage' <=> id \in DOMAIN coverage
           /\ id \in DOMAIN coverage => coverage'[id] = coverage[id] /\ counted'[id] = counted[id]
  PROVE  \A i \in 1..(rule - 1) : Settled(Rules[i])'
<1> SUFFICES ASSUME NEW i \in 1..(rule - 1) PROVE Settled(Rules[i])'
  OBVIOUS
<1>1. PICK r : r = Rules[i]
  OBVIOUS
<1>2. r.id \in EarlierIds /\ Settled(r)
  BY <1>1 DEF EarlierIds, PastInv
<1>3. Settled(r)'
  BY <1>2, SettledKept DEF input
<1>4. Rules' = Rules
  BY DEF input, Rules
<1> QED BY <1>1, <1>3, <1>4

\* The rule that runs is none of those before it.
LEMMA OwnId ==
  ASSUME TypeOK, TurnInv, rule <= Len(Rules)
  PROVE  /\ R \in Rule /\ R.id \notin EarlierIds
         /\ \A k : k = rule + 1 => {Rules[i].id : i \in 1..(k - 1)} = EarlierIds \cup {R.id}
<1>1. rule \in 1..Len(Rules) /\ Len(Rules) \in Nat
  BY RulesType DEF TypeOK
<1>2. R \in Rule /\ R.id \notin EarlierIds
  BY <1>1, RulesType DEF R, EarlierIds
<1>3. 1..((rule + 1) - 1) = 1..(rule - 1) \cup {rule}
  BY <1>1
<1> QED BY <1>2, <1>3 DEF EarlierIds, R

AtStart ==
  /\ TypeOK /\ catalog \in DOMAIN Catalogs /\ regimes \in EnabledRegimes
  /\ rule = 1 /\ pass = "findings" /\ element = 1 /\ out = << >> /\ notChecked = {}
  /\ errs = {} /\ coverage = << >> /\ counted = << >>

\* At the start of an evaluation no rule has run.
LEMMA StartInv == AtStart => IInv
<1> SUFFICES ASSUME AtStart PROVE IInv
  OBVIOUS
<1> USE DEF AtStart
<1>1. DOMAIN coverage = {} /\ DOMAIN counted = {} /\ Fired = {}
  BY DEF Fired
<1>2. TurnInv
  BY <1>1 DEF TurnInv, EarlierIds
<1>3. WalkInv
  BY <1>1, SeenEnds DEF WalkInv
<1>4. CoverInv /\ PastInv
  BY DEF CoverInv, PastInv
<1> QED BY <1>2, <1>3, <1>4 DEF IInv

LEMMA InitInv == Init => IInv
<1> SUFFICES ASSUME Init PROVE IInv
  OBVIOUS
<1>1. Rules \in Seq(Rule)
  BY RulesAssumption DEF Init, Rules
<1>2. TypeOK
  BY <1>1, FactsAssumption DEF Init, TypeOK
<1> QED BY <1>2, StartInv DEF Init, AtStart

\* A rule ends: it is settled, and those before it stay so.
LEMMA NextRuleInv ==
  ASSUME IInv, NextRule, rule <= Len(Rules), NEW r, r = R, Settled(r)',
         errs' \subseteq errs \cup {r.id}, hurried' \subseteq errs',
         DOMAIN coverage' \subseteq DOMAIN coverage \cup {r.id},
         DOMAIN counted' \subseteq DOMAIN counted \cup {r.id},
         DOMAIN coverage' \subseteq DOMAIN counted',
         \A id \in EarlierIds :
           /\ id \in errs' <=> id \in errs
           /\ id \in hurried' <=> id \in hurried
           /\ id \in DOMAIN coverage' <=> id \in DOMAIN coverage
           /\ id \in DOMAIN coverage => coverage'[id] = coverage[id] /\ counted'[id] = counted[id]
  PROVE  IInv'
<1>1. /\ TypeOK /\ TurnInv /\ PastInv /\ rule \in 1..Len(Rules) /\ Len(Rules) \in Nat
      /\ Rules' = Rules /\ UNCHANGED input
  <2>1. TypeOK /\ TurnInv /\ PastInv
    BY DEF IInv
  <2>2. Len(Rules) \in Nat /\ rule \in 1..Len(Rules)
    BY <2>1, RulesType DEF TypeOK
  <2>3. UNCHANGED input
    BY DEF NextRule
  <2>4. Rules' = Rules
    BY <2>3 DEF input, Rules
  <2> QED BY <2>1, <2>2, <2>3, <2>4
<1>2. TypeOK'
  BY <1>1 DEF TypeOK, NextRule, input
<1>3. EarlierIds' = EarlierIds \cup {r.id}
  <2>1. rule' = rule + 1
    BY DEF NextRule
  <2>2. {Rules[i].id : i \in 1..(rule' - 1)} = EarlierIds \cup {r.id}
    BY <1>1, <2>1, OwnId
  <2> QED BY <1>1, <2>2 DEF EarlierIds
<1>4. TurnInv'
  <2>1. DOMAIN counted \subseteq EarlierIds \cup {r.id}
    BY <1>1 DEF TurnInv
  <2> QED BY <1>1, <1>3, <2>1 DEF TurnInv, NextRule, input
<1>5. WalkInv'
  <2>1. element' = 1 /\ Fired' = {} /\ notChecked' = {}
    BY DEF NextRule, Fired
  <2> QED BY <2>1, SeenEnds DEF WalkInv
<1>6. CoverInv'
  BY DEF CoverInv, NextRule
<1>7. PastInv'
  <2>1. \A i \in 1..(rule - 1) : Settled(Rules[i])'
    BY <1>1, PastKept
  <2>2. PICK k : k = rule
    OBVIOUS
  <2>3. Settled(Rules[k])'
    <3>1. Rules[k]' = r
      BY <1>1, <2>2 DEF R
    <3> QED BY <3>1
  <2>4. \A i \in 1..(rule' - 1) : i \in 1..(rule - 1) \/ i = k
    BY <1>1, <2>2 DEF NextRule
  <2> QED BY <2>1, <2>3, <2>4 DEF PastInv
<1> QED BY <1>2, <1>4, <1>5, <1>6, <1>7 DEF IInv

\* One error, or the end of the time, takes the rule out of the report.
LEMMA DiscardInv == IInv /\ (Fail \/ Interrupted) => IInv'
<1> SUFFICES ASSUME IInv, Fail \/ Interrupted PROVE IInv'
  OBVIOUS
<1>1. /\ TypeOK /\ TurnInv /\ NextRule /\ rule <= Len(Rules) /\ UNCHANGED <<facts, coverage, counted>>
      /\ pass = "findings" /\ errs' = errs \cup {R.id} /\ element \in Nat \ {0}
      /\ element <= Len(Scope(R))
  BY DEF IInv, Fail, Interrupted, Discard, NextRule, input, Considers, Running, TypeOK
<1>2. PICK r : r = R
  OBVIOUS
<1>3. r.id \notin EarlierIds
  BY <1>1, <1>2, OwnId
<1>4. r.id \notin errs /\ r.id \notin hurried /\ r.id \notin DOMAIN coverage
  BY <1>1, <1>3 DEF TurnInv, TypeOK
<1>5. Settled(r)'
  <2>1. CASE Fail
    <3>1. X \in ScopeSet(r) /\ Evaluated(r, X) = "error"
      BY <2>1, <1>1, <1>2, SeenStep DEF Fail, X
    <3>2. PICK x \in ScopeSet(r) : Evaluated(r, x)' = "error"
      BY <3>1, <1>1, SameOutcomes
    <3>3. FailsOnError(r)'
      BY <1>1, <1>2, <3>2 DEF FailsOnError
    <3> QED BY <1>1, <1>4, <3>3 DEF Settled
  <2>2. CASE Interrupted
    <3>1. FailsOnError(r)'
      BY <2>2, <1>1, <1>2 DEF FailsOnError, Interrupted
    <3> QED BY <1>1, <1>4, <3>1 DEF Settled
  <2> QED BY <2>1, <2>2
<1>6. hurried' \in {hurried, hurried \cup {r.id}}
  BY <1>2 DEF Fail, Interrupted
<1>7. /\ errs' = errs \cup {r.id} /\ hurried' \subseteq errs'
      /\ DOMAIN coverage' = DOMAIN coverage /\ DOMAIN counted' = DOMAIN counted
      /\ DOMAIN coverage \subseteq DOMAIN counted
  BY <1>1, <1>2, <1>6 DEF TypeOK
<1>8. \A id \in EarlierIds : /\ id \in errs' <=> id \in errs
                             /\ id \in hurried' <=> id \in hurried
                             /\ coverage' = coverage /\ counted' = counted
  BY <1>1, <1>3, <1>6, <1>7
<1> QED BY <1>1, <1>2, <1>5, <1>7, <1>8, NextRuleInv

\* The finding pass goes on.
LEMMA WalkStep == IInv /\ (Skip \/ Pass \/ Fire) => IInv'
<1> SUFFICES ASSUME IInv, Skip \/ Pass \/ Fire PROVE IInv'
  OBVIOUS
<1>1. /\ TypeOK /\ TurnInv /\ WalkInv /\ PastInv /\ Running
      /\ UNCHANGED <<input, errs, coverage, hurried, counted, rule, pass, decided, notChecked>>
      /\ element' = element + 1 /\ element \in Nat \ {0} /\ element <= Len(Scope(R))
  BY DEF IInv, Skip, Pass, Fire, Considers, Continue, report, earlier, work, TypeOK
<1>2. Rules' = Rules /\ R' = R /\ EarlierIds' = EarlierIds
  BY <1>1 DEF Rules, R, EarlierIds, input
<1>3. TypeOK' /\ TurnInv'
  BY <1>1, <1>2 DEF TypeOK, TurnInv, input
<1>4. /\ R \in Rule /\ X \in Element /\ X \notin SeenBefore(R, element)
      /\ SeenBefore(R, element') = SeenBefore(R, element) \cup {X}
  BY <1>1, OwnId, SeenStep, ScopeType DEF X, Running
<1>5. Evaluated(R, X) \in {"true", "false"}
  BY <1>1, <1>4, ExcludedIsFalse DEF Skip, Pass, Fire
<1>6. PICK r : r = R
  OBVIOUS
<1>7. Fired' = {x \in SeenBefore(r, element') : Fires(r, x)}
  <2>1. Fired = {x \in SeenBefore(r, element) : Fires(r, x)}
    BY <1>1, <1>6 DEF WalkInv
  <2>2. CASE Skip \/ Pass
    <3>1. out' = out /\ ~Fires(r, X)
      BY <2>2, <1>1, <1>4, <1>6, ExcludedIsFalse DEF Skip, Pass, work, Fires
    <3>2. Fired' = Fired
      BY <3>1 DEF Fired
    <3> QED BY <1>4, <1>6, <2>1, <3>1, <3>2
  <2>3. CASE Fire
    <3>1. out' = Append(out, Finding(r, X)) /\ Fires(r, X) /\ Finding(r, X).element = X
      BY <2>3, <1>6 DEF Fire, Fires, Finding
    <3>2. Fired' = Fired \cup {X}
      BY <3>1 DEF Fired
    <3> QED BY <1>4, <1>6, <2>1, <3>1, <3>2
  <2> QED BY <2>2, <2>3
<1>8. WalkInv'
  <2>1. \A x \in SeenBefore(r, element') : Evaluated(r, x) \in {"true", "false"}
    BY <1>1, <1>4, <1>5, <1>6 DEF WalkInv
  <2>2. \A x : Evaluated(r, x)' = Evaluated(r, x) /\ (Fires(r, x)' <=> Fires(r, x))
    BY <1>1, SameOutcomes DEF input
  <2>3. notChecked' = {}
    BY <1>1 DEF WalkInv
  <2> QED BY <1>2, <1>6, <1>7, <2>1, <2>2, <2>3 DEF WalkInv
<1>9. CoverInv'
  BY <1>1 DEF CoverInv, Running
<1>10. PastInv'
  BY <1>1, <1>2, PastKept DEF PastInv, Running
<1> QED BY <1>3, <1>8, <1>9, <1>10 DEF IInv

\* The finding pass is through: nothing erred, and out holds every finding of the rule.
LEMMA WalkEnds ==
  ASSUME IInv, Running, element > Len(Scope(R))
  PROVE  /\ \A x \in ScopeSet(R) : Evaluated(R, x) \in {"true", "false"}
         /\ Fired = {x \in ScopeSet(R) : Fires(R, x)} /\ notChecked = {}
         /\ R \in Rule /\ R.id \notin EarlierIds
         /\ R.id \notin errs /\ R.id \notin DOMAIN coverage /\ R.id \notin DOMAIN counted
<1>1. TypeOK /\ TurnInv /\ WalkInv /\ element \in Nat
  BY DEF IInv, TypeOK
<1>2. SeenBefore(R, element) = ScopeSet(R)
  BY <1>1, SeenEnds
<1>3. R \in Rule /\ R.id \notin EarlierIds
  BY <1>1, OwnId DEF Running
<1> QED BY <1>1, <1>2, <1>3 DEF WalkInv, TurnInv, Running

\* Without coverage the rule is settled when its finding pass ends.
LEMMA EndRuleStep == IInv /\ EndRule => IInv'
<1> SUFFICES ASSUME IInv, EndRule PROVE IInv'
  OBVIOUS
<1>1. /\ NextRule /\ UNCHANGED <<facts, errs, coverage, hurried, counted>>
      /\ Running /\ element > Len(Scope(R)) /\ rule <= Len(Rules) /\ hurried \subseteq errs
      /\ DOMAIN coverage \subseteq DOMAIN counted
  BY DEF EndRule, NextRule, input, Running, IInv, TypeOK
<1>2. PICK r : r = R
  OBVIOUS
<1>3. /\ \A x \in ScopeSet(r) : Evaluated(r, x) \in {"true", "false"}
      /\ r.id \notin errs /\ r.id \notin DOMAIN coverage
  BY <1>1, <1>2, WalkEnds
<1>4. \A x \in ScopeSet(r) : Evaluated(r, x)' # "error"
  BY <1>1, <1>3, SameOutcomes
<1>5. Settled(r)'
  BY <1>1, <1>3, <1>4 DEF Settled, FailsOnError
<1> QED BY <1>1, <1>2, <1>5, NextRuleInv

\* With coverage the second pass begins with the elements the rule fired on.
LEMMA StartCoverageStep == IInv /\ StartCoverage => IInv'
<1> SUFFICES ASSUME IInv, StartCoverage PROVE IInv'
  OBVIOUS
<1>1. /\ TypeOK /\ TurnInv /\ PastInv /\ Running /\ element > Len(Scope(R)) /\ rule <= Len(Rules)
      /\ UNCHANGED <<input, out, errs, coverage, hurried, rule, notChecked>>
      /\ counted' = Put(counted, R.id, Fired) /\ decided' = Cardinality(Fired)
      /\ pass' = "coverage" /\ element' = 1
  BY DEF IInv, StartCoverage, Running
<1>2. PICK r : r = R
  OBVIOUS
<1>3. /\ \A x \in ScopeSet(r) : Evaluated(r, x) \in {"true", "false"}
      /\ Fired = {x \in ScopeSet(r) : Fires(r, x)} /\ notChecked = {}
      /\ r.id \notin EarlierIds /\ r.id \notin DOMAIN counted
  BY <1>1, <1>2, WalkEnds
<1>4. Rules' = Rules /\ R' = r /\ EarlierIds' = EarlierIds /\ Fired' = Fired
  BY <1>1, <1>2 DEF Rules, R, EarlierIds, input, Fired
<1>5. /\ DOMAIN counted' = DOMAIN counted \cup {r.id} /\ counted'[r.id] = Fired
      /\ \A id \in DOMAIN counted : counted'[id] = counted[id]
  BY <1>1, <1>2, <1>3 DEF Put
<1>6. \A x : /\ Evaluated(r, x)' = Evaluated(r, x)
             /\ Fires(r, x)' <=> Fires(r, x)
  BY <1>1, SameOutcomes DEF input
<1>7. TypeOK'
  <2>1. Fired \in SUBSET ScopeSet(r)
    BY <1>3
  <2>2. decided' \in Nat
    BY <1>1, <2>1, ScopeFinite, FS_CardinalityType
  <2> QED BY <1>1, <1>4, <1>5, <2>2 DEF TypeOK, input
<1>8. TurnInv'
  BY <1>1, <1>2, <1>4, <1>5 DEF TurnInv, input, Running
<1>9. WalkInv'
  BY <1>1 DEF WalkInv, Running
<1>10. CoverInv'
  <2>1. SeenBefore(r, 1) = {}
    BY SeenEnds
  <2>2. Fired' = {x \in ScopeSet(r) : Fires(r, x)'}
    BY <1>3, <1>4, <1>6
  <2>3. DecidesSoundly(r)'
    BY <1>3, <1>5, <1>6 DEF DecidesSoundly
  <2> QED BY <1>1, <1>3, <1>4, <1>5, <1>6, <2>1, <2>2, <2>3 DEF CoverInv
<1>11. PastInv'
  <2>1. \A id \in EarlierIds : id \in DOMAIN coverage => counted'[id] = counted[id]
    BY <1>1, <1>5 DEF TypeOK
  <2>2. \A i \in 1..(rule - 1) : Settled(Rules[i])'
    BY <1>1, <2>1, PastKept
  <2> QED BY <1>1, <2>2 DEF PastInv
<1> QED BY <1>7, <1>8, <1>9, <1>10, <1>11 DEF IInv

\* The coverage pass goes one element further: it decides the element, leaves it, or passes it over.
LEMMA CoverElement ==
  ASSUME IInv, Covering,
         UNCHANGED <<input, out, errs, coverage, hurried, rule, pass>>, element' = element + 1,
         \/ /\ Decide /\ X \notin Fired
            /\ R.required # {} => FalseForAll(R, X)
         \/ Leave /\ X \notin Fired
         \/ UNCHANGED <<decided, notChecked, counted>> /\ X \in Fired \cup Outside(R)
  PROVE  IInv'
<1>1. /\ TypeOK /\ TurnInv /\ CoverInv /\ PastInv /\ pass = "coverage" /\ rule <= Len(Rules)
      /\ element \in Nat \ {0} /\ element <= Len(Scope(R))
  BY DEF IInv, Covering, TypeOK, TurnInv
<1>2. PICK r : r = R
  OBVIOUS
<1>3. PICK e : e = X
  OBVIOUS
<1>4. Rules' = Rules /\ R' = r /\ EarlierIds' = EarlierIds /\ Fired' = Fired
  BY <1>1, <1>2 DEF Rules, R, EarlierIds, input, Fired
<1>5. /\ r.id \notin EarlierIds
      /\ e \in ScopeSet(r) /\ e \notin SeenBefore(r, element)
      /\ SeenBefore(r, element') = SeenBefore(r, element) \cup {e}
  BY <1>1, <1>2, <1>3, OwnId, SeenStep DEF X
<1>6. /\ r.id \in DOMAIN counted
      /\ \A x \in ScopeSet(r) : Evaluated(r, x) \in {"true", "false"}
      /\ Fired = {x \in ScopeSet(r) : Fires(r, x)} /\ Fired \subseteq counted[r.id]
      /\ counted[r.id] \subseteq Fired \cup SeenBefore(r, element)
      /\ notChecked \subseteq SeenBefore(r, element)
      /\ decided = Cardinality(counted[r.id]) /\ counted[r.id] \cap notChecked = {}
      /\ SeenBefore(r, element) \ (counted[r.id] \cup notChecked) \subseteq Outside(r)
      /\ DecidesSoundly(r)
  BY <1>1, <1>2 DEF CoverInv
<1>7. /\ DOMAIN counted' = DOMAIN counted
      /\ \A id \in DOMAIN counted : id # r.id => counted'[id] = counted[id]
  BY <1>2 DEF Decide, Leave, Continue, report
<1>8. \A x : /\ Evaluated(r, x)' = Evaluated(r, x)
             /\ Fires(r, x)' <=> Fires(r, x)
             /\ FalseForAll(r, x)' <=> FalseForAll(r, x)
             /\ Outside(r)' = Outside(r)
  BY SameOutcomes DEF input
<1>9. /\ Fired \subseteq counted'[r.id]
      /\ counted'[r.id] \subseteq Fired \cup SeenBefore(r, element')
      /\ notChecked' \subseteq SeenBefore(r, element')
      /\ decided' = Cardinality(counted'[r.id]) /\ decided' \in Nat
      /\ counted'[r.id] \cap notChecked' = {}
      /\ SeenBefore(r, element') \ (counted'[r.id] \cup notChecked') \subseteq Outside(r)
      /\ r.required # {} => \A x \in counted'[r.id] : Fires(r, x) \/ FalseForAll(r, x)
  <2>1. /\ decided \in Nat
        /\ r.required # {} => \A x \in counted[r.id] : Fires(r, x) \/ FalseForAll(r, x)
    BY <1>1, <1>6 DEF TypeOK, DecidesSoundly
  <2>2. CASE Decide /\ X \notin Fired /\ (R.required # {} => FalseForAll(R, X))
    <3>1. counted'[r.id] = counted[r.id] \cup {e} /\ notChecked' = notChecked
      BY <2>2, <1>2, <1>3, <1>6 DEF Decide
    <3>2. e \notin counted[r.id] /\ e \notin notChecked
      BY <2>2, <1>3, <1>5, <1>6
    <3>3. decided' = Cardinality(counted'[r.id]) /\ decided' \in Nat
      <4>1. counted[r.id] \in SUBSET ScopeSet(r)
        BY <1>1, <1>6, SeenEnds
      <4>2. IsFiniteSet(counted[r.id])
        BY <4>1, ScopeFinite
      <4>3. Cardinality(counted[r.id] \cup {e}) = Cardinality(counted[r.id]) + 1
        BY <4>2, <3>2, FS_AddElement
      <4>4. decided' = decided + 1
        BY <2>2 DEF Decide
      <4> QED BY <2>1, <3>1, <4>3, <4>4, <1>6
    <3> QED BY <2>1, <2>2, <3>1, <3>2, <3>3, <1>2, <1>3, <1>5, <1>6
  <2>3. CASE Leave /\ X \notin Fired
    <3>1. counted' = counted /\ decided' = decided /\ notChecked' = notChecked \cup {e}
      BY <2>3, <1>3 DEF Leave, Continue, report
    <3>2. e \notin counted[r.id]
      BY <2>3, <1>3, <1>5, <1>6
    <3> QED BY <2>1, <3>1, <3>2, <1>5, <1>6
  <2>4. CASE UNCHANGED <<decided, notChecked, counted>> /\ X \in Fired \cup Outside(R)
    BY <2>1, <2>4, <1>2, <1>3, <1>5, <1>6
  <2> QED BY <2>2, <2>3, <2>4
<1>10. TypeOK'
  BY <1>1, <1>4, <1>7, <1>9 DEF TypeOK, input
<1>11. TurnInv'
  BY <1>1, <1>2, <1>4, <1>7 DEF TurnInv, input
<1>12. WalkInv'
  BY <1>1 DEF WalkInv, Running
<1>13. CoverInv'
  <2>1. Fired' = {x \in ScopeSet(r) : Fires(r, x)'}
    BY <1>4, <1>6, <1>8
  <2>2. DecidesSoundly(r)'
    BY <1>8, <1>9 DEF DecidesSoundly
  <2>3. Outside(r)' = Outside(r)
    BY <1>8
  <2> QED BY <1>4, <1>6, <1>7, <1>8, <1>9, <2>1, <2>2, <2>3 DEF CoverInv
<1>14. PastInv'
  <2>1. \A id \in EarlierIds : id \in DOMAIN coverage => counted'[id] = counted[id]
    BY <1>1, <1>5, <1>7 DEF TypeOK
  <2>2. \A i \in 1..(rule - 1) : Settled(Rules[i])'
    BY <1>1, <2>1, PastKept
  <2> QED BY <2>2 DEF PastInv
<1> QED BY <1>10, <1>11, <1>12, <1>13, <1>14 DEF IInv

\* Each branch of the coverage pass is one of those.
LEMMA CoverStep ==
  IInv /\ (CoverFired \/ CoverAll \/ CoverOutside \/ CoverDomainFails \/ CoverDecided \/ CoverDepends
             \/ CoverInterrupted) => IInv'
<1> SUFFICES ASSUME IInv PROVE
      (CoverFired \/ CoverAll \/ CoverOutside \/ CoverDomainFails \/ CoverDecided \/ CoverDepends
         \/ CoverInterrupted) => IInv'
  OBVIOUS
<1>1. ASSUME Covering
      PROVE  /\ R \in Rule /\ X \in ScopeSet(R) /\ X \in Element
             /\ Evaluated(R, X) \in {"true", "false"}
             /\ X \in Fired <=> Fires(R, X)
  <2>1. TypeOK /\ TurnInv /\ CoverInv /\ pass = "coverage" /\ rule <= Len(Rules)
        /\ element \in Nat \ {0} /\ element <= Len(Scope(R))
    BY <1>1 DEF IInv, Covering, TypeOK, TurnInv
  <2>2. R \in Rule /\ X \in ScopeSet(R) /\ X \in Element
    BY <2>1, OwnId, SeenStep, ScopeType DEF X
  <2> QED BY <2>1, <2>2 DEF CoverInv
<1>2. CASE CoverFired
  <2>1. Covering /\ X \in Fired /\ Continue /\ UNCHANGED work
    BY <1>2 DEF CoverFired
  <2> QED BY <2>1, CoverElement DEF Continue, work, report
<1>3. CASE CoverAll
  <2>1. Covering /\ X \notin Fired /\ R.required = {} /\ Decide
    BY <1>3 DEF CoverAll
  <2> QED BY <2>1, CoverElement DEF Decide
<1>4. CASE CoverOutside
  <2>1. Covering /\ X \notin Fired /\ R.required # {} /\ Continue /\ UNCHANGED work
        /\ DomainOutcome(R, X) = "false"
    BY <1>4 DEF CoverOutside, Requires
  <2>2. X \in Outside(R)
    BY <2>1, <1>1 DEF Outside
  <2> QED BY <2>1, <2>2, CoverElement DEF Continue, work, report
<1>5. CASE CoverDomainFails \/ CoverDepends \/ CoverInterrupted
  <2>1. Covering /\ X \notin Fired /\ Leave
    BY <1>5 DEF CoverDomainFails, CoverDepends, CoverInterrupted, Requires
  <2> QED BY <2>1, CoverElement DEF Leave, Continue, report
<1>6. CASE CoverDecided
  <2>1. Covering /\ X \notin Fired /\ Decide /\ (Missing(R, X) = {} \/ ~DependsOn(R, X))
    BY <1>6 DEF CoverDecided, Requires
  <2>2. FalseForAll(R, X)
    BY <2>1, <1>1, DecidedIsFalseForAll DEF IInv
  <2> QED BY <2>1, <2>2, CoverElement DEF Decide
<1> QED BY <1>2, <1>3, <1>4, <1>5, <1>6

\* The coverage of a rule that is through accounts for its scope.
LEMMA EndCoverageStep == IInv /\ EndCoverage => IInv'
<1> SUFFICES ASSUME IInv, EndCoverage PROVE IInv'
  OBVIOUS
<1>1. /\ TypeOK /\ TurnInv /\ CoverInv /\ pass = "coverage" /\ rule <= Len(Rules)
      /\ element \in Nat /\ element > Len(Scope(R))
      /\ NextRule /\ UNCHANGED <<facts, errs, hurried, counted>>
      /\ coverage' = Put(coverage, R.id, [decided |-> decided, notChecked |-> notChecked])
  BY DEF IInv, EndCoverage, TypeOK, TurnInv, NextRule, input
<1>2. PICK r : r = R
  OBVIOUS
<1>3. r.id \notin EarlierIds /\ r.id \notin errs /\ r.id \notin DOMAIN coverage
      /\ DOMAIN coverage \subseteq DOMAIN counted /\ hurried \subseteq errs
  BY <1>1, <1>2, OwnId DEF TurnInv, TypeOK
<1>4. /\ DOMAIN coverage' = DOMAIN coverage \cup {r.id}
      /\ coverage'[r.id].decided = decided /\ coverage'[r.id].notChecked = notChecked
      /\ \A id \in DOMAIN coverage : id # r.id => coverage'[id] = coverage[id]
  BY <1>1, <1>2 DEF Put
<1>5. SeenBefore(r, element) = ScopeSet(r)
  BY <1>1, <1>2, SeenEnds
<1>6. /\ r.id \in DOMAIN counted
      /\ \A x \in ScopeSet(r) : Evaluated(r, x) \in {"true", "false"}
      /\ decided = Cardinality(counted[r.id]) /\ counted[r.id] \cap notChecked = {}
      /\ ScopeSet(r) \ (counted[r.id] \cup notChecked) \subseteq Outside(r)
      /\ DecidesSoundly(r)
  BY <1>1, <1>2, <1>5 DEF CoverInv
<1>7. \A x : /\ Evaluated(r, x)' = Evaluated(r, x)
             /\ Fires(r, x)' <=> Fires(r, x)
             /\ FalseForAll(r, x)' <=> FalseForAll(r, x)
             /\ Outside(r)' = Outside(r)
  BY <1>1, SameOutcomes
<1>8. Settled(r)'
  <2>1. FailsOnError(r)'
    BY <1>1, <1>3, <1>6, <1>7 DEF FailsOnError
  <2>2. Accounts(r)'
    BY <1>1, <1>4, <1>6, <1>7 DEF Accounts
  <2>3. DecidesSoundly(r)'
    BY <1>1, <1>6, <1>7 DEF DecidesSoundly
  <2> QED BY <2>1, <2>2, <2>3 DEF Settled
<1> QED BY <1>1, <1>2, <1>3, <1>4, <1>6, <1>8, NextRuleInv

\* Sorting settles nothing anew.
LEMMA SortStep == IInv /\ Sort => IInv'
<1> SUFFICES ASSUME IInv, Sort PROVE IInv'
  OBVIOUS
<1>1. /\ TypeOK /\ TurnInv /\ PastInv /\ rule = Len(Rules) + 1 /\ pass' = "done" /\ pass = "findings"
      /\ UNCHANGED <<input, work, errs, coverage, hurried, counted, rule, element>>
  <2>1. TypeOK /\ TurnInv /\ PastInv
    BY DEF IInv
  <2>2. Len(Rules) \in Nat
    BY <2>1, RulesType
  <2> QED BY <2>1, <2>2 DEF Sort, TypeOK
<1>2. Rules' = Rules /\ EarlierIds' = EarlierIds
  BY <1>1 DEF Rules, EarlierIds, input
<1>3. TypeOK' /\ TurnInv'
  BY <1>1, <1>2 DEF TypeOK, TurnInv, input, work
<1>4. WalkInv' /\ CoverInv'
  BY <1>1 DEF WalkInv, CoverInv, Running
<1>5. \A i \in 1..(rule - 1) : Settled(Rules[i])'
  BY <1>1, PastKept
<1> QED BY <1>1, <1>3, <1>4, <1>5 DEF IInv, PastInv

\* A fact is declared, and the model is evaluated afresh.
LEMMA DeclareStep == IInv /\ Declare => IInv'
<1> SUFFICES ASSUME IInv, Declare PROVE IInv'
  OBVIOUS
<1>1. TypeOK /\ TurnInv /\ UNCHANGED <<catalog, regimes, withCoverage>> /\ StartsAfresh
  BY DEF IInv, Declare
<1>2. Rules' = Rules /\ Len(Rules) \in Nat
  BY <1>1, RulesType DEF Rules
<1>3. facts' \in [Object -> [Field -> Value \cup {Absent}]]
  <2>1. PICK fact \in AskedFor, v \in Declarable : facts' = [facts EXCEPT ![fact[1]][fact[2]] = v]
    BY DEF Declare
  <2>2. v \in Value
    BY <2>1, FactsAssumption
  <2>3. \A o \in Object : facts[o] \in [Field -> Value \cup {Absent}]
    BY <1>1 DEF TypeOK
  <2>4. fact[1] \in Object
    BY <2>1 DEF AskedFor
  <2>5. [facts[fact[1]] EXCEPT ![fact[2]] = v] \in [Field -> Value \cup {Absent}]
    BY <2>2, <2>3, <2>4
  <2> QED BY <1>1, <2>1, <2>5 DEF TypeOK
<1>4. AtStart'
  BY <1>1, <1>2, <1>3 DEF AtStart, TypeOK, TurnInv, StartsAfresh
<1>5. (AtStart => IInv)'
  BY StartInv, PTL
<1> QED BY <1>4, <1>5

LEMMA StutterStep == IInv /\ UNCHANGED vars => IInv'
<1> SUFFICES ASSUME IInv, UNCHANGED vars PROVE IInv'
  OBVIOUS
<1>1. /\ TypeOK /\ TurnInv /\ WalkInv /\ CoverInv /\ PastInv
      /\ UNCHANGED <<input, report, work, rule, pass, element>>
  BY DEF IInv, vars
<1>2. Rules' = Rules /\ R' = R /\ EarlierIds' = EarlierIds /\ Fired' = Fired
  BY <1>1 DEF Rules, R, EarlierIds, Fired, input, work
<1>3. TypeOK' /\ TurnInv'
  BY <1>1, <1>2 DEF TypeOK, TurnInv, input, work, report
<1>4. \A r, x : /\ Evaluated(r, x)' = Evaluated(r, x)
                /\ Fires(r, x)' <=> Fires(r, x)
                /\ FalseForAll(r, x)' <=> FalseForAll(r, x)
                /\ Outside(r)' = Outside(r)
  BY <1>1, SameOutcomes DEF input
<1>5. PICK r : r = R
  OBVIOUS
<1>6. WalkInv'
  BY <1>1, <1>2, <1>4, <1>5 DEF WalkInv, Running, work
<1>7. DecidesSoundly(r)' <=> DecidesSoundly(r)
  BY <1>1, <1>4 DEF DecidesSoundly, report
<1>8. CoverInv'
  BY <1>1, <1>2, <1>4, <1>5, <1>7 DEF CoverInv, work, report
<1>9. \A i \in 1..(rule - 1) : Settled(Rules[i])'
  BY <1>1, PastKept DEF report
<1>10. PastInv'
  BY <1>1, <1>9 DEF PastInv
<1> QED BY <1>3, <1>6, <1>8, <1>10 DEF IInv

\* Every step of an evaluation, and every declaration between two, keeps the invariant.
THEOREM Invariance == Spec => []IInv
<1>1. Init => IInv
  BY InitInv
<1>2. IInv /\ [Next]_vars => IInv'
  BY WalkStep, DiscardInv, EndRuleStep, StartCoverageStep, CoverStep, EndCoverageStep, SortStep,
     DeclareStep, StutterStep DEF Next, Step
<1> QED BY <1>1, <1>2, PTL DEF Spec

-----------------------------------------------------------------------------
(***************************************************************************)
(* What follows for the reports.                                           *)
(***************************************************************************)

\* Every variable keeps its type, whatever the catalog and the model are.
THEOREM TypeCorrect == Spec => []TypeOK
<1>1. IInv => TypeOK
  BY DEF IInv
<1> QED BY <1>1, Invariance, PTL

\* Every rule of a report is settled.
LEMMA ReportedSettled ==
  ASSUME IInv, NEW r \in Reported
  PROVE  Settled(r)
<1>1. TypeOK /\ TurnInv /\ PastInv /\ Len(Rules) \in Nat
  BY RulesType DEF IInv
<1>2. pass = "done" /\ rule = Len(Rules) + 1
  BY <1>1 DEF Reported, TurnInv
<1>3. PICK i \in 1..Len(Rules) : r = Rules[i]
  BY <1>2 DEF Reported
<1>4. i \in 1..(rule - 1)
  BY <1>1, <1>2
<1> QED BY <1>1, <1>3, <1>4 DEF PastInv

\* guard.go: skipping by type guards hides no error, for every rule and every model.
THEOREM GuardsHideNoErrorHolds == Spec => []GuardsHideNoError
<1>1. IInv => GuardsHideNoError
  BY ReportedSettled DEF GuardsHideNoError, Settled
<1> QED BY <1>1, Invariance, PTL

\* coverRule: the coverage of a rule accounts for every element of its scope once.
THEOREM CoverageAccountsHolds == Spec => []CoverageAccounts
<1>1. IInv => CoverageAccounts
  BY ReportedSettled DEF CoverageAccounts, Settled
<1> QED BY <1>1, Invariance, PTL

\* coverRule: what it decided stays decided however the undeclared facts are declared, also when
\* time ran out anywhere.
THEOREM DecidedIsSoundHolds == Spec => []DecidedIsSound
<1>1. IInv => DecidedIsSound
  BY ReportedSettled DEF DecidedIsSound, Settled
<1> QED BY <1>1, Invariance, PTL
-----------------------------------------------------------------------------
(***************************************************************************)
(* What a report says of every rule, and of the evaluation before.         *)
(***************************************************************************)

\* The rules whose findings are in the report.
Through == 1..(IF pass = "coverage" THEN rule ELSE rule - 1)

\* What the i-th rule finds in the model, and what rules can find in it at all.
FoundOf(i) == {Finding(Rules[i], x) : x \in {y \in ScopeSet(Rules[i]) : Fires(Rules[i], y)}}

PossibleOf(i) == {Finding(Rules[i], x) : x \in ScopeSet(Rules[i])}

Possible == UNION {PossibleOf(i) : i \in 1..Len(Rules)}

Entries(list) == {list[j] : j \in 1..Len(list)}

Told == UNION {FoundOf(i) : i \in {k \in Through : Rules[k].id \notin errs}}

\* The report holds every finding of the rules that are through and did not fail, and no other, once.
FoundInv ==
  /\ findings \in Seq(Possible)
  /\ \A j, k \in 1..Len(findings) : findings[j] = findings[k] => j = k
  /\ Entries(findings) = Told

\* What the rule that runs has found is of its elements, each once.
OutInv ==
  Running =>
    /\ out \in Seq(Possible)
    /\ \A j \in 1..Len(out) : out[j] = Finding(R, out[j].element)
    /\ \A j, k \in 1..Len(out) : out[j] = out[k] => j = k

\* A rule has coverage when there is any and it did not fail; only then are its elements counted.
CoveredInv ==
  /\ pass = "coverage" => withCoverage
  /\ \A i \in 1..(rule - 1) :
       IF Rules[i].id \in errs
       THEN Rules[i].id \notin DOMAIN coverage /\ Rules[i].id \notin DOMAIN counted
       ELSE /\ withCoverage <=> Rules[i].id \in DOMAIN coverage
            /\ Rules[i].id \in DOMAIN counted => Rules[i].id \in DOMAIN coverage

\* What an element reads and lacks in given facts.
ReadIn(given, x) ==
  [p \in Path |-> IF At[x][p.root] = NoObject THEN Absent ELSE given[At[x][p.root]][p.field]]

MissingIn(given, r, x) ==
  {p \in r.required :
     ~Declared(p.field,
               IF At[x][p.root] = NoObject THEN Absent ELSE given[At[x][p.root]][p.field],
               At[x][p.root])}

FalseGiven(given, r, x) ==
  \A c \in Completions(WithUnknowns(ReadIn(given, x), MissingIn(given, r, x))) :
    Eval(r.condition, c) = "false"

\* The evaluation before read the same facts but one, and decided soundly by them.
EarlierInv ==
  before # None =>
    /\ before.facts \in [Object -> [Field -> Value \cup {Absent}]]
    /\ \A o \in Object, f \in Field : <<o, f>> # changed => facts[o][f] = before.facts[o][f]
    /\ \A i \in 1..Len(Rules) : \A x \in ScopeSet(Rules[i]) :
         /\ Rules[i].required # {}
         /\ Rules[i].id \in DOMAIN before.counted /\ x \in before.counted[Rules[i].id]
         /\ [rule |-> Rules[i].id, element |-> x] \notin before.found
         => FalseGiven(before.facts, Rules[i], x)

ReportInv == FoundInv /\ OutInv /\ CoveredInv /\ EarlierInv /\ ReportIsCanonical

\* For its lemma that a set of numbers has a least one: nothing is folded here.
FO == INSTANCE FoldTheorems WITH Op <- Applies

\* A severity has a rank, also one that is no severity.
LEMMA RankIsNumber ==
  ASSUME NEW severity
  PROVE  Rank(severity) \in Nat
<1> DEFINE I == {i \in 1..Len(Severities) : Severities[i] = severity}
<1>1. Len(Severities) \in Nat
  BY SeveritiesAssumption
<1>2. CASE Contains(Severities, severity)
  <2>1. I # {} /\ I \in SUBSET Nat
    BY <1>2 DEF Contains
  <2>2. SelectInSeq(Severities, LAMBDA s : s = severity) = Min(I)
    BY <2>1 DEF SelectInSeq
  <2>3. Min(I) \in Nat
    <3> HIDE DEF I
    <3>1. \E x \in I : \A y \in I : x <= y
      BY <2>1, FO!LeastNumber
    <3>2. Min(I) \in I
      BY <3>1 DEF Min
    <3> QED BY <2>1, <3>2
  <2> QED BY <1>2, <2>2, <2>3 DEF Rank
<1>3. CASE ~Contains(Severities, severity)
  BY <1>1, <1>3 DEF Rank
<1> QED BY <1>2, <1>3

\* Findings no two of which agree in rank, rule and element.
Ordered(S) ==
  /\ \A f \in S : f.rule \in Int /\ f.element \in Int
  /\ \A f, g \in S :
       Rank(f.severity) = Rank(g.severity) /\ f.rule = g.rule /\ f.element = g.element => f = g

\* Two of them are in one order, and only one.
LEMMA BeforeIsTotal ==
  ASSUME NEW S, Ordered(S), NEW f \in S, NEW g \in S
  PROVE  /\ Before(f, g) \/ Before(g, f) \/ f = g
         /\ ~(Before(f, g) /\ Before(g, f))
<1>1. PICK rf \in Nat, rg \in Nat : rf = Rank(f.severity) /\ rg = Rank(g.severity)
  BY RankIsNumber
<1>2. f.rule \in Int /\ g.rule \in Int /\ f.element \in Int /\ g.element \in Int
  BY DEF Ordered
<1>3. rf = rg /\ f.rule = g.rule /\ f.element = g.element => f = g
  BY <1>1 DEF Ordered
<1>4. /\ Before(f, g) <=> rf < rg \/ (rf = rg /\ f.rule < g.rule)
                            \/ (rf = rg /\ f.rule = g.rule /\ f.element < g.element)
      /\ Before(g, f) <=> rg < rf \/ (rf = rg /\ g.rule < f.rule)
                            \/ (rf = rg /\ f.rule = g.rule /\ g.element < f.element)
  BY <1>1 DEF Before
<1> QED BY <1>2, <1>3, <1>4

LEMMA BeforeIsTransitive ==
  ASSUME NEW S, Ordered(S), NEW f \in S, NEW g \in S, NEW h \in S, Before(f, g), Before(g, h)
  PROVE  Before(f, h)
<1>1. PICK rf \in Nat, rg \in Nat, rh \in Nat :
        rf = Rank(f.severity) /\ rg = Rank(g.severity) /\ rh = Rank(h.severity)
  BY RankIsNumber
<1>2. f.rule \in Int /\ g.rule \in Int /\ h.rule \in Int
      /\ f.element \in Int /\ g.element \in Int /\ h.element \in Int
  BY DEF Ordered
<1>3. /\ rf < rg \/ (rf = rg /\ f.rule < g.rule)
                 \/ (rf = rg /\ f.rule = g.rule /\ f.element < g.element)
      /\ rg < rh \/ (rg = rh /\ g.rule < h.rule)
                 \/ (rg = rh /\ g.rule = h.rule /\ g.element < h.element)
  BY <1>1 DEF Before
<1>4. rf < rh \/ (rf = rh /\ f.rule < h.rule)
              \/ (rf = rh /\ f.rule = h.rule /\ f.element < h.element)
  BY <1>2, <1>3
<1> QED BY <1>1, <1>4 DEF Before

\* Sorting moves every entry to a place of its own, and the places are in order.
LEMMA SortedParts ==
  ASSUME NEW S, Ordered(S), NEW list \in Seq(S),
         \A i, j \in 1..Len(list) : list[i] = list[j] => i = j
  PROVE  \E at \in [1..Len(list) -> 1..Len(list)] :
           /\ Sorted(list) = [k \in 1..Len(list) |-> list[at[k]]]
           /\ \A i \in 1..Len(list) : \E k \in 1..Len(list) : at[k] = i
           /\ \A k, l \in 1..Len(list) : k < l => Before(list[at[k]], list[at[l]])
<1>0. PICK n \in Nat : n = Len(list)
  OBVIOUS
<1> DEFINE Behind(i) == {j \in 1..n : Before(list[j], list[i]) \/ (~Before(list[i], list[j]) /\ j < i)}
           place == [i \in 1..n |-> Place(list, i)]
           at == [k \in 1..n |-> CHOOSE i \in 1..n : place[i] = k]
<1>1. \A i \in 1..n : list[i] \in S
  BY <1>0
<1>2. ASSUME NEW i \in 1..n
      PROVE  /\ Behind(i) = {j \in 1..n : Before(list[j], list[i])}
             /\ i \notin Behind(i) /\ Behind(i) \subseteq (1..n) \ {i}
  <2>1. ASSUME NEW j \in 1..n, j # i PROVE Before(list[i], list[j]) \/ Before(list[j], list[i])
    <3>1. list[i] # list[j]
      BY <1>0, <2>1
    <3> QED BY <1>1, <3>1, BeforeIsTotal
  <2>2. ~Before(list[i], list[i])
    BY <1>1, BeforeIsTotal
  <2> QED BY <2>1, <2>2
<1>3. IsFiniteSet(1..n) /\ Cardinality(1..n) = n
  BY FS_Interval
<1>4. ASSUME NEW i \in 1..n
      PROVE  IsFiniteSet(Behind(i)) /\ Cardinality(Behind(i)) \in 0..(n - 1)
             /\ place[i] = 1 + Cardinality(Behind(i)) /\ place[i] \in 1..n
  <2> DEFINE rest == (1..n) \ {i}
  <2>1. IsFiniteSet(rest) /\ Cardinality(rest) = n - 1
    BY <1>3, FS_RemoveElement
  <2>2. Behind(i) \in SUBSET rest
    BY <1>2
  <2> HIDE DEF Behind, rest
  <2>3. IsFiniteSet(Behind(i)) /\ Cardinality(Behind(i)) <= n - 1 /\ Cardinality(Behind(i)) \in Nat
    BY <2>1, <2>2, FS_Subset, FS_CardinalityType
  <2>4. place[i] = 1 + Cardinality(Behind(i))
    BY <1>0 DEF Place, Behind
  <2>5. Cardinality(Behind(i)) \in 0..(n - 1)
    BY <2>3
  <2> HIDE DEF place
  <2> QED BY <2>3, <2>4, <2>5
<1>5. ASSUME NEW i \in 1..n, NEW j \in 1..n, Before(list[i], list[j])
      PROVE  place[i] < place[j]
  <2>1. Behind(i) \cup {i} \in SUBSET Behind(j)
    <3>1. \A l \in 1..n : Before(list[l], list[i]) => Before(list[l], list[j])
      BY <1>1, <1>5, BeforeIsTransitive
    <3> QED BY <1>2, <1>5, <3>1
  <2>2. i \notin Behind(i)
    BY <1>2
  <2> HIDE DEF Behind, place
  <2>3. Cardinality(Behind(i) \cup {i}) = Cardinality(Behind(i)) + 1
    BY <1>4, <2>2, FS_AddElement
  <2>4. Cardinality(Behind(i) \cup {i}) <= Cardinality(Behind(j))
    BY <1>4, <2>1, FS_Subset
  <2> QED BY <1>4, <2>3, <2>4
<1>6. place \in [1..n -> 1..n]
  BY <1>4
<1> HIDE DEF place, Behind
<1>7. \A i, j \in 1..n : place[i] = place[j] => i = j
  <2> SUFFICES ASSUME NEW i \in 1..n, NEW j \in 1..n, place[i] = place[j], i # j PROVE FALSE
    OBVIOUS
  <2>1. Before(list[i], list[j]) \/ Before(list[j], list[i])
    <3>1. list[i] # list[j]
      BY <1>0
    <3> QED BY <1>1, <3>1, BeforeIsTotal
  <2>2. place[i] < place[j] \/ place[j] < place[i]
    BY <1>5, <2>1
  <2> QED BY <1>4, <2>2
<1>8. \A k \in 1..n : \E i \in 1..n : place[i] = k
  <2>1. place \in Injection(1..n, 1..n)
    BY <1>6, <1>7 DEF Injection, IsInjective
  <2>2. place \in Surjection(1..n, 1..n)
    BY <1>3, <2>1, FS_Injection
  <2> QED BY <2>2 DEF Surjection
<1>9. \A k \in 1..n : at[k] \in 1..n /\ place[at[k]] = k
  BY <1>8
<1>10. at \in [1..n -> 1..n] /\ \A k \in 1..n : at[k] = CHOOSE i \in 1..n : place[i] = k
  BY <1>9
<1>11. Sorted(list) = [k \in 1..n |-> list[at[k]]]
  <2>1. \A i \in 1..n : Place(list, i) = place[i]
    BY DEF place
  <2>2. \A k \in 1..n : (CHOOSE i \in 1..n : Place(list, i) = k) = at[k]
    BY <1>10, <2>1
  <2>3. Sorted(list) = [k \in 1..n |-> list[CHOOSE i \in 1..n : Place(list, i) = k]]
    BY <1>0 DEF Sorted
  <2> HIDE DEF at
  <2> QED BY <2>2, <2>3
<1> HIDE DEF at
<1>12. \A i \in 1..n : \E k \in 1..n : at[k] = i
  <2> TAKE i \in 1..n
  <2>1. place[i] \in 1..n
    BY <1>6
  <2>2. at[place[i]] = i
    BY <1>7, <1>9, <2>1
  <2> QED BY <2>1, <2>2
<1>13. ASSUME NEW k \in 1..n, NEW l \in 1..n, k < l
       PROVE  Before(list[at[k]], list[at[l]])
  <2>1. at[k] \in 1..n /\ at[l] \in 1..n /\ place[at[k]] = k /\ place[at[l]] = l
    BY <1>9
  <2>2. ~Before(list[at[l]], list[at[k]])
    <3> SUFFICES ASSUME Before(list[at[l]], list[at[k]]) PROVE FALSE
      OBVIOUS
    <3>1. place[at[l]] < place[at[k]]
      BY <1>5, <2>1
    <3> QED BY <1>13, <2>1, <3>1
  <2>3. list[at[k]] # list[at[l]]
    BY <1>0, <1>13, <2>1
  <2> QED BY <1>1, <2>1, <2>2, <2>3, BeforeIsTotal
<1> QED BY <1>0, <1>10, <1>11, <1>12, <1>13

\* Whether two findings agree shows in their rule and element.
LEMMA PossibleOrdered ==
  ASSUME TypeOK, TurnInv
  PROVE  Ordered(Possible)
<1>1. ASSUME NEW f \in Possible
      PROVE  \E i \in 1..Len(Rules) : \E x \in ScopeSet(Rules[i]) :
               /\ f = Finding(Rules[i], x) /\ f.rule = Rules[i].id /\ f.element = x
               /\ f.rule \in Int /\ f.element \in Int
  <2>1. PICK i \in 1..Len(Rules) : \E x \in ScopeSet(Rules[i]) : f = Finding(Rules[i], x)
    BY DEF Possible, PossibleOf
  <2>2. PICK x \in ScopeSet(Rules[i]) : f = Finding(Rules[i], x)
    BY <2>1
  <2>3. f.rule = Rules[i].id /\ f.element = x
    BY <2>2 DEF Finding
  <2>4. Rules[i] \in Rule
    BY RulesType
  <2>5. Rules[i].id \in Int
    BY <2>4 DEF Rule
  <2>6. x \in Element
    BY ScopeType
  <2>7. x \in Int
    BY <2>6, ElementsAssumption DEF Element
  <2> QED BY <2>2, <2>3, <2>5, <2>7
<1>2. ASSUME NEW f \in Possible, NEW g \in Possible, f.rule = g.rule, f.element = g.element
      PROVE  f = g
  <2>1. PICK i \in 1..Len(Rules) : \E x \in ScopeSet(Rules[i]) :
          f = Finding(Rules[i], x) /\ f.rule = Rules[i].id /\ f.element = x
    BY <1>1
  <2>2. PICK j \in 1..Len(Rules) : \E x \in ScopeSet(Rules[j]) :
          g = Finding(Rules[j], x) /\ g.rule = Rules[j].id /\ g.element = x
    BY <1>1
  <2>3. i = j
    BY <1>2, <2>1, <2>2, RulesType
  <2> QED BY <1>2, <2>1, <2>2, <2>3
<1> QED BY <1>1, <1>2 DEF Ordered

\* The same facts make the same findings.
LEMMA SameFindings ==
  ASSUME UNCHANGED input
  PROVE  /\ Rules' = Rules /\ Possible' = Possible /\ \A i : FoundOf(i)' = FoundOf(i)
         /\ \A r, x : Finding(r, x)' = Finding(r, x)
<1>1. UNCHANGED facts /\ Rules' = Rules
  BY DEF input, Rules
<1>2. \A p, y : RawFact(p, y)' = RawFact(p, y)
  BY <1>1 DEF RawFact
<1>3. \A y : Read(y)' = Read(y)
  BY <1>2 DEF Read
<1>4. \A r, y : Override(r, y)' = Override(r, y)
  BY <1>3 DEF Override, SelectInSeq
<1>5. \A r, y : SeverityOf(r, y)' = SeverityOf(r, y)
  BY <1>3, <1>4 DEF SeverityOf
<1>6. \A r, y : Finding(r, y)' = Finding(r, y)
  BY <1>5 DEF Finding
<1>7. \A r, y : Fires(r, y)' <=> Fires(r, y)
  BY <1>1, SameOutcomes
<1>8. Possible' = Possible
  <2>1. \A i : PossibleOf(i)' = PossibleOf(i)
    BY <1>1, <1>6 DEF PossibleOf
  <2> QED BY <1>1, <2>1 DEF Possible
<1>9. \A i : FoundOf(i)' = FoundOf(i)
  BY <1>1, <1>6, <1>7 DEF FoundOf
<1> QED BY <1>1, <1>6, <1>8, <1>9

\* What a rule that is through has told stays told.
LEMMA FoundKept ==
  ASSUME FoundInv, UNCHANGED <<input, findings>>, Through' = Through,
         \A i \in Through : Rules[i].id \in errs' <=> Rules[i].id \in errs
  PROVE  FoundInv'
<1>1. Rules' = Rules /\ Possible' = Possible /\ \A i : FoundOf(i)' = FoundOf(i)
  BY SameFindings
<1>2. Told' = Told
  BY <1>1 DEF Told
<1> QED BY <1>1, <1>2 DEF FoundInv, Entries

\* A rule that fails tells nothing.
LEMMA FoundWithout ==
  ASSUME TypeOK, TurnInv, FoundInv, UNCHANGED <<input, findings>>, rule <= Len(Rules),
         Through = 1..(rule - 1), Through' = 1..rule, errs' = errs \cup {R.id}
  PROVE  FoundInv'
<1>1. Rules' = Rules /\ Possible' = Possible /\ \A i : FoundOf(i)' = FoundOf(i)
  BY SameFindings
<1>2. \A i \in 1..(rule - 1) : Rules[i].id # R.id
  BY OwnId DEF EarlierIds
<1>3. rule \in Nat
  BY RulesType DEF TypeOK
<1>4. 1..rule = 1..(rule - 1) \cup {rule} \/ rule = 0
  BY <1>3
<1>5. {k \in Through' : Rules[k].id \notin errs'} = {k \in Through : Rules[k].id \notin errs}
  BY <1>2, <1>3, <1>4 DEF R
<1>6. Told' = Told
  BY <1>1, <1>5 DEF Told
<1> QED BY <1>1, <1>6 DEF FoundInv, Entries

\* A rule that is through tells all it found.
LEMMA FoundAlso ==
  ASSUME TypeOK, TurnInv, FoundInv, OutInv, Running, UNCHANGED <<input, errs>>,
         Fired = {x \in ScopeSet(R) : Fires(R, x)},
         findings' = findings \o out,
         Through = 1..(rule - 1), Through' = 1..rule
  PROVE  FoundInv'
<1>0. rule <= Len(Rules) /\ rule \in 1..Len(Rules)
  BY RulesType DEF Running, TypeOK
<1>1. Rules' = Rules /\ Possible' = Possible /\ \A i : FoundOf(i)' = FoundOf(i)
  BY SameFindings
<1>2. R.id \notin errs /\ \A i \in 1..(rule - 1) : Rules[i].id # R.id
  BY <1>0, OwnId DEF EarlierIds, TurnInv
<1>3. /\ findings \in Seq(Possible) /\ out \in Seq(Possible)
      /\ \A j, k \in 1..Len(findings) : findings[j] = findings[k] => j = k
      /\ \A j, k \in 1..Len(out) : out[j] = out[k] => j = k
      /\ \A j \in 1..Len(out) : out[j] = Finding(R, out[j].element)
  BY DEF FoundInv, OutInv
<1>4. 1..rule = 1..(rule - 1) \cup {rule}
  BY <1>0
<1>5. {k \in Through' : Rules[k].id \notin errs'} = {k \in Through : Rules[k].id \notin errs} \cup {rule}
  BY <1>2, <1>4 DEF R
<1>6. Told' = Told \cup FoundOf(rule)
  BY <1>1, <1>5 DEF Told
<1>7. Entries(out) = FoundOf(rule)
  <2>1. \A f \in Entries(out) : f = Finding(R, f.element) /\ f.element \in Fired
    BY <1>3 DEF Entries, Fired
  <2>2. \A x \in Fired : \E f \in Entries(out) : f.element = x
    BY DEF Entries, Fired
  <2>3. FoundOf(rule) = {Finding(R, x) : x \in Fired}
    BY DEF FoundOf, R
  <2> QED BY <2>1, <2>2, <2>3
<1>8. \A j \in 1..Len(findings), k \in 1..Len(out) : findings[j] # out[k]
  <2> SUFFICES ASSUME NEW j \in 1..Len(findings), NEW k \in 1..Len(out), findings[j] = out[k] PROVE FALSE
    OBVIOUS
  <2>1. findings[j] \in Told
    BY DEF FoundInv, Entries
  <2>2. PICK i \in 1..(rule - 1) : findings[j] \in FoundOf(i)
    BY <2>1 DEF Told
  <2>3. findings[j].rule = Rules[i].id
    BY <2>2 DEF FoundOf, Finding
  <2>4. out[k].rule = R.id
    <3>1. PICK x : out[k] = Finding(R, x)
      BY <1>3
    <3> QED BY <3>1 DEF Finding
  <2> QED BY <1>2, <2>3, <2>4
<1>9. PICK m \in Nat, n \in Nat : m = Len(findings) /\ n = Len(out)
  BY <1>3
<1>10. /\ findings' \in Seq(Possible) /\ Len(findings') = m + n
       /\ \A j \in 1..m : findings'[j] = findings[j]
       /\ \A j \in 1..(m + n) : j > m => findings'[j] = out[j - m]
  BY <1>3, <1>9
<1>11. \A j, k \in 1..(m + n) : findings'[j] = findings'[k] => j = k
  <2> SUFFICES ASSUME NEW j \in 1..(m + n), NEW k \in 1..(m + n), findings'[j] = findings'[k] PROVE j = k
    OBVIOUS
  <2>1. CASE j <= m /\ k <= m
    <3>1. j \in 1..m /\ k \in 1..m
      BY <2>1
    <3> QED BY <3>1, <1>3, <1>9, <1>10
  <2>2. CASE j > m /\ k > m
    <3>1. j - m \in 1..n /\ k - m \in 1..n
      BY <2>2
    <3>2. j - m = k - m
      BY <2>2, <3>1, <1>3, <1>9, <1>10
    <3> QED BY <3>2
  <2>3. CASE j <= m /\ k > m
    <3>1. j \in 1..m /\ k - m \in 1..n
      BY <2>3
    <3> QED BY <2>3, <3>1, <1>8, <1>9, <1>10
  <2>4. CASE j > m /\ k <= m
    <3>1. k \in 1..m /\ j - m \in 1..n
      BY <2>4
    <3> QED BY <2>4, <3>1, <1>8, <1>9, <1>10
  <2> QED BY <2>1, <2>2, <2>3, <2>4
<1>12. Entries(findings)' = Entries(findings) \cup Entries(out)
  <2>1. Entries(findings)' = {findings'[j] : j \in 1..(m + n)}
    BY <1>10 DEF Entries
  <2>2. \A j \in 1..(m + n) : findings'[j] \in Entries(findings) \cup Entries(out)
    <3> TAKE j \in 1..(m + n)
    <3>1. CASE j <= m
      <4>1. j \in 1..m
        BY <3>1
      <4> QED BY <4>1, <1>9, <1>10 DEF Entries
    <3>2. CASE j > m
      <4>1. PICK l \in 1..n : l = j - m
        BY <3>2
      <4>2. findings'[j] = out[l]
        BY <3>2, <4>1, <1>10
      <4> QED BY <4>2, <1>9 DEF Entries
    <3>3. j <= m \/ j > m
      OBVIOUS
    <3> QED BY <3>1, <3>2, <3>3
  <2>3. \A f \in Entries(findings) : f \in Entries(findings)'
    <3> TAKE f \in Entries(findings)
    <3>1. PICK j \in 1..m : f = findings[j]
      BY <1>9 DEF Entries
    <3>2. j \in 1..(m + n)
      OBVIOUS
    <3> QED BY <2>1, <3>1, <3>2, <1>10
  <2>4. \A f \in Entries(out) : f \in Entries(findings)'
    <3> TAKE f \in Entries(out)
    <3>1. PICK j \in 1..n : f = out[j]
      BY <1>9 DEF Entries
    <3>2. m + j \in 1..(m + n) /\ m + j > m /\ (m + j) - m = j
      OBVIOUS
    <3> QED BY <2>1, <3>1, <3>2, <1>10
  <2> QED BY <2>1, <2>2, <2>3, <2>4
<1>13. Entries(findings) = Told
  BY DEF FoundInv
<1> QED BY <1>1, <1>6, <1>7, <1>10, <1>11, <1>12, <1>13 DEF FoundInv

\* Sorting tells the same.
LEMMA FoundSorted ==
  ASSUME TypeOK, TurnInv, FoundInv, UNCHANGED <<input, errs>>, Through' = Through,
         findings' = Sorted(findings)
  PROVE  /\ FoundInv'
         /\ \A j, k \in 1..Len(findings') : j < k => Before(findings'[j], findings'[k])
<1>1. Rules' = Rules /\ Possible' = Possible /\ \A i : FoundOf(i)' = FoundOf(i)
  BY SameFindings
<1>2. Told' = Told
  BY <1>1 DEF Told
<1>3. findings \in Seq(Possible) /\ \A j, k \in 1..Len(findings) : findings[j] = findings[k] => j = k
  BY DEF FoundInv
<1>4. PICK n \in Nat : n = Len(findings)
  BY <1>3
<1>5. PICK at \in [1..n -> 1..n] :
        /\ Sorted(findings) = [k \in 1..n |-> findings[at[k]]]
        /\ \A i \in 1..n : \E k \in 1..n : at[k] = i
        /\ \A k, l \in 1..n : k < l => Before(findings[at[k]], findings[at[l]])
  <2>1. PICK S, list : S = Possible /\ list = findings
    OBVIOUS
  <2>2. Ordered(S)
    BY <2>1, PossibleOrdered
  <2>3. list \in Seq(S) /\ Len(list) = n /\ \A i, j \in 1..Len(list) : list[i] = list[j] => i = j
    BY <1>3, <1>4, <2>1
  <2>4. \E at \in [1..Len(list) -> 1..Len(list)] :
          /\ Sorted(list) = [k \in 1..Len(list) |-> list[at[k]]]
          /\ \A i \in 1..Len(list) : \E k \in 1..Len(list) : at[k] = i
          /\ \A k, l \in 1..Len(list) : k < l => Before(list[at[k]], list[at[l]])
    BY <2>2, <2>3, SortedParts
  <2>5. PICK at \in [1..n -> 1..n] :
          /\ Sorted(list) = [k \in 1..n |-> list[at[k]]]
          /\ \A i \in 1..n : \E k \in 1..n : at[k] = i
          /\ \A k, l \in 1..n : k < l => Before(list[at[k]], list[at[l]])
    BY <2>3, <2>4
  <2> QED BY <2>1, <2>5
<1>6. \A k \in 1..n : findings[k] \in Possible
  BY <1>3, <1>4
<1>7. /\ findings' \in Seq(Possible) /\ Len(findings') = n
      /\ \A k \in 1..n : findings'[k] = findings[at[k]] /\ at[k] \in 1..n
  <2> DEFINE list == [k \in 1..n |-> findings[at[k]]]
  <2>1. findings' = list
    BY <1>5
  <2>2. \A k \in 1..n : at[k] \in 1..n /\ findings[at[k]] \in Possible
    BY <1>6
  <2>3. list \in [1..n -> Possible] /\ \A k \in 1..n : list[k] = findings[at[k]]
    BY <2>2
  <2> HIDE DEF list
  <2>4. list \in Seq(Possible) /\ Len(list) = n
    BY <2>3
  <2> QED BY <2>1, <2>2, <2>3, <2>4
<1>8. \A j, k \in 1..n : j < k => Before(findings'[j], findings'[k])
  BY <1>5, <1>7
<1>9. \A j, k \in 1..n : findings'[j] = findings'[k] => j = k
  <2> SUFFICES ASSUME NEW j \in 1..n, NEW k \in 1..n, findings'[j] = findings'[k], j # k PROVE FALSE
    OBVIOUS
  <2>1. Before(findings'[j], findings'[k]) \/ Before(findings'[k], findings'[j])
    BY <1>8
  <2>2. findings'[j] \in Possible /\ Before(findings'[j], findings'[j])
    BY <1>6, <1>7, <2>1
  <2> QED BY <2>2, PossibleOrdered, BeforeIsTotal
<1>10. Entries(findings)' = Entries(findings)
  <2>1. Entries(findings)' = {findings'[k] : k \in 1..n}
    BY <1>7 DEF Entries
  <2>2. Entries(findings) = {findings[k] : k \in 1..n}
    BY <1>4 DEF Entries
  <2>3. \A k \in 1..n : findings'[k] \in Entries(findings)
    BY <1>7, <2>2
  <2>4. \A i \in 1..n : findings[i] \in Entries(findings)'
    <3> TAKE i \in 1..n
    <3>1. PICK k \in 1..n : at[k] = i
      BY <1>5
    <3>2. findings[i] = findings'[k]
      BY <1>7, <3>1
    <3> QED BY <2>1, <3>2
  <2> QED BY <2>1, <2>2, <2>3, <2>4
<1> QED BY <1>1, <1>2, <1>7, <1>8, <1>9, <1>10 DEF FoundInv

\* The report before this evaluation stays what it is while the evaluation runs.
LEMMA EarlierKept ==
  ASSUME EarlierInv, UNCHANGED <<input, before, changed>>
  PROVE  EarlierInv'
<1>1. Rules' = Rules /\ facts' = facts
  BY DEF input, Rules
<1>2. ASSUME before # None, NEW i \in 1..Len(Rules), NEW x \in ScopeSet(Rules[i])
      PROVE  FalseGiven(before.facts, Rules[i], x)' <=> FalseGiven(before.facts, Rules[i], x)
  BY <1>1
<1>3. \A r : ScopeSet(r)' = ScopeSet(r)
  OBVIOUS
<1> QED BY <1>1, <1>2, <1>3 DEF EarlierInv

\* Within a rule the report of the rules before it stands.
LEMMA WithinRule ==
  ASSUME TypeOK, TurnInv, ReportInv, OutInv', pass # "done",
         UNCHANGED <<input, earlier, findings, errs, coverage, rule, pass>>,
         DOMAIN counted' = DOMAIN counted
  PROVE  ReportInv'
<1>1. Through' = Through /\ Rules' = Rules
  BY DEF Through, input, Rules
<1>2. FoundInv'
  BY <1>1, FoundKept DEF ReportInv
<1>3. CoveredInv'
  BY <1>1 DEF CoveredInv, ReportInv, input
<1>4. EarlierInv'
  BY EarlierKept DEF ReportInv, earlier
<1>5. ReportIsCanonical'
  BY DEF ReportIsCanonical
<1> QED BY <1>2, <1>3, <1>4, <1>5 DEF ReportInv

\* A rule ends: it has coverage, or has failed, or there is none.
LEMMA EndsRule ==
  ASSUME TypeOK, TurnInv, ReportInv, NextRule, rule <= Len(Rules), FoundInv', NEW r, r = R,
         \A id \in EarlierIds :
           /\ id \in errs' <=> id \in errs
           /\ id \in DOMAIN coverage' <=> id \in DOMAIN coverage
           /\ id \in DOMAIN counted' <=> id \in DOMAIN counted,
         r.id \in errs' => r.id \notin DOMAIN coverage' /\ r.id \notin DOMAIN counted',
         r.id \notin errs' => /\ withCoverage <=> r.id \in DOMAIN coverage'
                              /\ r.id \in DOMAIN counted' => r.id \in DOMAIN coverage'
  PROVE  ReportInv'
<1>1. /\ rule' = rule + 1 /\ pass' = "findings" /\ out' = << >> /\ UNCHANGED <<input, earlier>>
      /\ rule \in Nat
  BY RulesType DEF NextRule, TypeOK
<1>2. Rules' = Rules
  BY <1>1 DEF input, Rules
<1>3. OutInv'
  BY <1>1 DEF OutInv
<1>4. \A i \in 1..(rule' - 1) : i \in 1..(rule - 1) \/ Rules[i] = r
  BY <1>1 DEF R
<1>5. \A i \in 1..(rule - 1) : Rules[i].id \in EarlierIds
  BY DEF EarlierIds
<1>6. CoveredInv'
  <2>1. withCoverage' = withCoverage
    BY <1>1 DEF input
  <2>2. SUFFICES ASSUME NEW i \in 1..(rule' - 1)
                 PROVE  IF Rules[i].id \in errs'
                        THEN Rules[i].id \notin DOMAIN coverage' /\ Rules[i].id \notin DOMAIN counted'
                        ELSE /\ withCoverage <=> Rules[i].id \in DOMAIN coverage'
                             /\ Rules[i].id \in DOMAIN counted' => Rules[i].id \in DOMAIN coverage'
    BY <1>1, <1>2, <2>1 DEF CoveredInv
  <2>3. CASE i \in 1..(rule - 1)
    BY <1>5, <2>3 DEF CoveredInv, ReportInv
  <2>4. CASE Rules[i] = r
    BY <2>4
  <2> QED BY <1>4, <2>3, <2>4
<1>7. EarlierInv'
  BY <1>1, EarlierKept DEF ReportInv, earlier
<1>8. ReportIsCanonical'
  BY <1>1 DEF ReportIsCanonical
<1> QED BY <1>3, <1>6, <1>7, <1>8 DEF ReportInv

\* The report of a rule in its finding pass, and of one in its coverage pass.
LEMMA ThroughIs ==
  ASSUME TypeOK
  PROVE  /\ pass = "findings" => Through = 1..(rule - 1)
         /\ pass = "coverage" => Through = 1..rule
         /\ pass = "done" => Through = 1..(rule - 1)
BY DEF Through, TypeOK

\* The finding pass goes on.
LEMMA WalkReport == IInv /\ ReportInv /\ (Skip \/ Pass \/ Fire) => ReportInv'
<1> SUFFICES ASSUME IInv, ReportInv, Skip \/ Pass \/ Fire PROVE ReportInv'
  OBVIOUS
<1>1. /\ TypeOK /\ TurnInv /\ WalkInv /\ OutInv /\ Running
      /\ UNCHANGED <<input, earlier, findings, errs, coverage, counted, rule, pass>>
      /\ element \in Nat \ {0} /\ element <= Len(Scope(R))
  BY DEF IInv, ReportInv, Skip, Pass, Fire, Considers, Continue, report, TypeOK
<1>2. Rules' = Rules /\ R' = R /\ Possible' = Possible /\ \A r, x : Finding(r, x)' = Finding(r, x)
  BY <1>1, SameFindings DEF R, input, Rules
<1>3. OutInv'
  <2>1. CASE Skip \/ Pass
    <3>1. out' = out
      BY <2>1 DEF Skip, Pass, work
    <3> QED BY <1>1, <1>2, <3>1 DEF OutInv, Running
  <2>2. CASE Fire
    <3>1. out' = Append(out, Finding(R, X))
      BY <2>2 DEF Fire
    <3>2. PICK f, e : f = Finding(R, X) /\ e = X
      OBVIOUS
    <3>3. f.element = e
      BY <3>2 DEF Finding
    <3>4. e \in ScopeSet(R) /\ e \notin SeenBefore(R, element)
      BY <1>1, <3>2, SeenStep DEF X
    <3>5. \A j \in 1..Len(out) : out[j].element # e
      BY <1>1, <3>4 DEF WalkInv, Fired
    <3>6. f \in Possible
      <4>1. rule \in 1..Len(Rules)
        BY <1>1, RulesType DEF Running, TypeOK
      <4>2. f \in PossibleOf(rule)
        BY <3>2, <3>4 DEF PossibleOf, R
      <4> QED BY <4>1, <4>2 DEF Possible
    <3>7. PICK n \in Nat : n = Len(out)
      BY <1>1 DEF OutInv
    <3>8. /\ out \in Seq(Possible)
          /\ \A j \in 1..n : out[j] = Finding(R, out[j].element)
          /\ \A j, k \in 1..n : out[j] = out[k] => j = k
      BY <1>1, <3>7 DEF OutInv
    <3>9. /\ out' \in Seq(Possible) /\ Len(out') = n + 1 /\ out'[n + 1] = f
          /\ \A j \in 1..n : out'[j] = out[j]
      BY <3>1, <3>2, <3>6, <3>7, <3>8
    <3>10. \A j \in 1..(n + 1) : j \in 1..n \/ j = n + 1
      OBVIOUS
    <3>11. \A j \in 1..(n + 1) : out'[j] = Finding(R, out'[j].element)
      BY <3>2, <3>3, <3>8, <3>9, <3>10
    <3>12. \A j, k \in 1..(n + 1) : out'[j] = out'[k] => j = k
      <4>1. \A j \in 1..n : out[j] # f
        BY <3>3, <3>5, <3>7
      <4> QED BY <3>8, <3>9, <3>10, <4>1
    <3> QED BY <1>2, <3>9, <3>11, <3>12 DEF OutInv
  <2> QED BY <2>1, <2>2
<1> QED BY <1>1, <1>3, WithinRule DEF Running

\* A rule that fails has no findings, no coverage and no count.
LEMMA DiscardReport == IInv /\ ReportInv /\ (Fail \/ Interrupted) => ReportInv'
<1> SUFFICES ASSUME IInv, ReportInv, Fail \/ Interrupted PROVE ReportInv'
  OBVIOUS
<1>1. /\ TypeOK /\ TurnInv /\ NextRule /\ rule <= Len(Rules) /\ pass = "findings"
      /\ UNCHANGED <<input, findings, coverage, counted>> /\ errs' = errs \cup {R.id}
      /\ rule' = rule + 1 /\ pass' = "findings" /\ rule \in Nat
  BY RulesType DEF IInv, Fail, Interrupted, Discard, NextRule, Considers, Running, TypeOK
<1>2. Through = 1..(rule - 1) /\ Through' = 1..rule
  BY <1>1 DEF Through
<1>3. FoundInv'
  BY <1>1, <1>2, FoundWithout DEF ReportInv
<1>4. PICK r : r = R
  OBVIOUS
<1>5. r.id \notin EarlierIds
  BY <1>1, <1>4, OwnId
<1>6. r.id \notin DOMAIN coverage /\ r.id \notin DOMAIN counted
  BY <1>1, <1>4, <1>5 DEF TurnInv
<1> QED BY <1>1, <1>3, <1>4, <1>5, <1>6, EndsRule

\* The finding pass is through, and there is no other.
LEMMA EndRuleReport == IInv /\ ReportInv /\ EndRule => ReportInv'
<1> SUFFICES ASSUME IInv, ReportInv, EndRule PROVE ReportInv'
  OBVIOUS
<1>1. /\ TypeOK /\ TurnInv /\ NextRule /\ Running /\ rule <= Len(Rules) /\ pass = "findings"
      /\ element > Len(Scope(R)) /\ ~withCoverage
      /\ UNCHANGED <<input, errs, coverage, counted>> /\ findings' = findings \o out
      /\ rule' = rule + 1 /\ pass' = "findings" /\ rule \in Nat
  BY RulesType DEF IInv, EndRule, NextRule, Running, TypeOK
<1>2. Through = 1..(rule - 1) /\ Through' = 1..rule
  BY <1>1 DEF Through
<1>3. Fired = {x \in ScopeSet(R) : Fires(R, x)} /\ R.id \notin errs
      /\ R.id \notin DOMAIN coverage /\ R.id \notin DOMAIN counted
  BY <1>1, WalkEnds
<1>4. FoundInv'
  BY <1>1, <1>2, <1>3, FoundAlso DEF ReportInv
<1>5. PICK r : r = R
  OBVIOUS
<1> QED BY <1>1, <1>3, <1>4, <1>5, EndsRule

\* The finding pass is through, and coverage begins.
LEMMA StartCoverageReport == IInv /\ ReportInv /\ StartCoverage => ReportInv'
<1> SUFFICES ASSUME IInv, ReportInv, StartCoverage PROVE ReportInv'
  OBVIOUS
<1>1. /\ TypeOK /\ TurnInv /\ Running /\ rule <= Len(Rules) /\ pass = "findings"
      /\ element > Len(Scope(R)) /\ withCoverage
      /\ UNCHANGED <<input, earlier, errs, coverage, rule>> /\ findings' = findings \o out
      /\ counted' = Put(counted, R.id, Fired) /\ pass' = "coverage" /\ rule \in Nat
  BY RulesType DEF IInv, StartCoverage, Running, TypeOK
<1>2. Through = 1..(rule - 1) /\ Through' = 1..rule
  BY <1>1 DEF Through
<1>3. Fired = {x \in ScopeSet(R) : Fires(R, x)} /\ R.id \notin EarlierIds
  BY <1>1, WalkEnds
<1>4. FoundInv'
  BY <1>1, <1>2, <1>3, FoundAlso DEF ReportInv
<1>5. OutInv'
  BY <1>1 DEF OutInv, Running
<1>6. CoveredInv'
  <2>1. Rules' = Rules /\ withCoverage' = withCoverage
    BY <1>1 DEF Rules, input
  <2>2. \A i \in 1..(rule - 1) : Rules[i].id \in DOMAIN counted' <=> Rules[i].id \in DOMAIN counted
    <3>1. DOMAIN counted' = DOMAIN counted \cup {R.id}
      BY <1>1 DEF Put
    <3>2. \A i \in 1..(rule - 1) : Rules[i].id # R.id
      BY <1>3 DEF EarlierIds
    <3> QED BY <3>1, <3>2
  <2> QED BY <1>1, <2>1, <2>2 DEF CoveredInv, ReportInv
<1>7. EarlierInv'
  BY <1>1, EarlierKept DEF ReportInv, earlier
<1>8. ReportIsCanonical'
  BY <1>1 DEF ReportIsCanonical
<1> QED BY <1>4, <1>5, <1>6, <1>7, <1>8 DEF ReportInv

\* The coverage pass tells no finding and takes none away.
LEMMA CoverReport ==
  IInv /\ ReportInv
  /\ (CoverFired \/ CoverAll \/ CoverOutside \/ CoverDomainFails \/ CoverDecided \/ CoverDepends
        \/ CoverInterrupted) => ReportInv'
<1> SUFFICES ASSUME IInv, ReportInv,
                    CoverFired \/ CoverAll \/ CoverOutside \/ CoverDomainFails \/ CoverDecided
                      \/ CoverDepends \/ CoverInterrupted
             PROVE  ReportInv'
  OBVIOUS
<1>1. Covering /\ (Decide \/ Leave \/ (Continue /\ UNCHANGED work))
  BY DEF CoverFired, CoverAll, CoverOutside, CoverDomainFails, CoverDecided, CoverDepends,
         CoverInterrupted, Requires
<1>2. /\ TypeOK /\ TurnInv /\ pass = "coverage"
      /\ UNCHANGED <<input, earlier, findings, errs, coverage, rule, pass>>
      /\ DOMAIN counted' = DOMAIN counted
  <2>1. TypeOK /\ TurnInv /\ pass = "coverage"
    BY <1>1 DEF IInv, Covering
  <2>2. CASE Decide
    BY <2>1, <2>2 DEF Decide
  <2>3. CASE Leave \/ (Continue /\ UNCHANGED work)
    BY <2>1, <2>3 DEF Leave, Continue, report
  <2> QED BY <1>1, <2>2, <2>3
<1>3. OutInv'
  BY <1>2 DEF OutInv, Running
<1> QED BY <1>2, <1>3, WithinRule

LEMMA EndCoverageReport == IInv /\ ReportInv /\ EndCoverage => ReportInv'
<1> SUFFICES ASSUME IInv, ReportInv, EndCoverage PROVE ReportInv'
  OBVIOUS
<1>1. /\ TypeOK /\ TurnInv /\ CoverInv /\ NextRule /\ rule <= Len(Rules) /\ pass = "coverage"
      /\ UNCHANGED <<input, findings, errs, counted>>
      /\ coverage' = Put(coverage, R.id, [decided |-> decided, notChecked |-> notChecked])
      /\ rule' = rule + 1 /\ pass' = "findings" /\ rule \in Nat
  BY RulesType DEF IInv, EndCoverage, NextRule, TypeOK, TurnInv
<1>2. Through = 1..rule /\ Through' = 1..rule
  BY <1>1 DEF Through
<1>3. FoundInv'
  BY <1>1, <1>2, FoundKept DEF ReportInv
<1>4. PICK r : r = R
  OBVIOUS
<1>5. r.id \notin EarlierIds
  BY <1>1, <1>4, OwnId
<1>6. DOMAIN coverage' = DOMAIN coverage \cup {r.id}
  BY <1>1, <1>4 DEF Put
<1>7. r.id \notin errs /\ withCoverage
  BY <1>1, <1>4, <1>5 DEF TurnInv, CoveredInv, ReportInv
<1> QED BY <1>1, <1>3, <1>4, <1>5, <1>6, <1>7, EndsRule

\* The findings are sorted once every rule is through.
LEMMA SortReport == IInv /\ ReportInv /\ Sort => ReportInv'
<1> SUFFICES ASSUME IInv, ReportInv, Sort PROVE ReportInv'
  OBVIOUS
<1>1. /\ TypeOK /\ TurnInv /\ pass = "findings" /\ pass' = "done"
      /\ UNCHANGED <<input, before, changed, errs, coverage, counted, rule>>
      /\ findings' = Sorted(findings)
  BY DEF IInv, Sort, earlier
<1>2. Through' = Through /\ Rules' = Rules
  BY <1>1 DEF Through, Rules, input
<1>3. /\ FoundInv'
      /\ \A j, k \in 1..Len(findings') : j < k => Before(findings'[j], findings'[k])
  BY <1>1, <1>2, FoundSorted DEF ReportInv
<1>4. OutInv'
  BY <1>1 DEF OutInv, Running
<1>5. CoveredInv'
  BY <1>1, <1>2 DEF CoveredInv, ReportInv, input
<1>6. EarlierInv'
  BY <1>1, EarlierKept DEF ReportInv
<1>7. ReportIsCanonical'
  BY <1>3 DEF ReportIsCanonical
<1> QED BY <1>3, <1>4, <1>5, <1>6, <1>7 DEF ReportInv

LEMMA StutterReport == IInv /\ ReportInv /\ UNCHANGED vars => ReportInv'
<1> SUFFICES ASSUME IInv, ReportInv, UNCHANGED vars PROVE ReportInv'
  OBVIOUS
<1>1. /\ TypeOK /\ TurnInv
      /\ UNCHANGED <<input, before, changed, findings, errs, coverage, counted, rule, pass, out>>
  BY DEF IInv, vars, earlier, report, work
<1>2. Through' = Through /\ Rules' = Rules /\ R' = R
  BY <1>1 DEF Through, Rules, input, R
<1>3. Possible' = Possible /\ \A r, x : Finding(r, x)' = Finding(r, x)
  BY <1>1, SameFindings
<1>4. FoundInv'
  BY <1>1, <1>2, FoundKept DEF ReportInv
<1>5. OutInv'
  BY <1>1, <1>2, <1>3 DEF OutInv, ReportInv, Running
<1>6. CoveredInv'
  BY <1>1, <1>2 DEF CoveredInv, ReportInv, input
<1>7. EarlierInv'
  BY <1>1, EarlierKept DEF ReportInv
<1>8. ReportIsCanonical'
  BY <1>1 DEF ReportIsCanonical, ReportInv
<1> QED BY <1>4, <1>5, <1>6, <1>7, <1>8 DEF ReportInv

\* At the start of an evaluation nothing is told and nothing is covered.
LEMMA StartReport ==
  ASSUME rule = 1, pass = "findings", out = << >>, findings = << >>
  PROVE  FoundInv /\ OutInv /\ CoveredInv /\ ReportIsCanonical
<1>1. Through = {}
  BY DEF Through
<1>2. Told = {}
  BY <1>1 DEF Told
<1>3. FoundInv
  BY <1>2 DEF FoundInv, Entries
<1>4. OutInv /\ CoveredInv /\ ReportIsCanonical
  BY DEF OutInv, CoveredInv, ReportIsCanonical
<1> QED BY <1>3, <1>4

LEMMA InitReport == Init => ReportInv
<1> SUFFICES ASSUME Init PROVE ReportInv
  OBVIOUS
<1>1. FoundInv /\ OutInv /\ CoveredInv /\ ReportIsCanonical
  BY StartReport DEF Init
<1>2. EarlierInv
  BY DEF Init, EarlierInv
<1> QED BY <1>1, <1>2 DEF ReportInv

\* What an element reads in the facts of the model.
LEMMA ReadsFacts ==
  ASSUME NEW r, NEW x
  PROVE  /\ Read(x) = ReadIn(facts, x) /\ Missing(r, x) = MissingIn(facts, r, x)
         /\ FalseForAll(r, x) <=> FalseGiven(facts, r, x)
<1>1. Read(x) = ReadIn(facts, x)
  BY DEF Read, ReadIn, RawFact
<1>2. Missing(r, x) = MissingIn(facts, r, x)
  BY DEF Missing, MissingIn, RawFact
<1> QED BY <1>1, <1>2 DEF FalseForAll, FalseGiven

\* The rules a report speaks of, those told of included.
LEMMA ReportedRule ==
  ASSUME TypeOK, TurnInv, NEW r \in Reported
  PROVE  /\ pass = "done" /\ rule = Len(Rules) + 1 /\ Len(Rules) \in Nat
         /\ \E i \in 1..Len(Rules) : i \in 1..(rule - 1) /\ r = Rules[i] /\ r \in Rule
<1>1. Len(Rules) \in Nat /\ \A i \in 1..Len(Rules) : Rules[i] \in Rule
  BY RulesType
<1>2. pass = "done" /\ rule = Len(Rules) + 1
  BY DEF Reported, TurnInv
<1>3. PICK i \in 1..Len(Rules) : r = Rules[i]
  BY <1>2 DEF Reported
<1>4. i \in 1..(rule - 1)
  BY <1>1, <1>2
<1> QED BY <1>1, <1>2, <1>3, <1>4

\* A report holds of each rule what it finds, or nothing when it failed.
LEMMA TellsOf ==
  ASSUME TypeOK, TurnInv, FoundInv, NEW i \in 1..Len(Rules), i \in Through
  PROVE  FindingsOf(Rules[i]) = IF Rules[i].id \in errs THEN {} ELSE FoundOf(i)
<1>1. \A k \in 1..Len(Rules) : Rules[k].id = Rules[i].id => k = i
  BY RulesType
<1>2. Through \subseteq 1..Len(Rules)
  <2>1. rule \in 1..(Len(Rules) + 1) /\ Len(Rules) \in Nat /\ (pass = "coverage" => rule <= Len(Rules))
    BY RulesType DEF TypeOK, TurnInv
  <2> QED BY <2>1 DEF Through
<1>3. \A k : \A f \in FoundOf(k) : f.rule = Rules[k].id
  BY DEF FoundOf, Finding
<1>4. ASSUME NEW f \in FindingsOf(Rules[i]) PROVE Rules[i].id \notin errs /\ f \in FoundOf(i)
  <2>1. f \in Entries(findings) /\ f.rule = Rules[i].id
    BY DEF FindingsOf, Entries
  <2>2. f \in Told
    BY <2>1 DEF FoundInv
  <2>3. PICK k \in Through : Rules[k].id \notin errs /\ f \in FoundOf(k)
    BY <2>2 DEF Told
  <2>4. k = i
    BY <1>1, <1>2, <1>3, <2>1, <2>3
  <2> QED BY <2>3, <2>4
<1>5. ASSUME Rules[i].id \notin errs, NEW f \in FoundOf(i) PROVE f \in FindingsOf(Rules[i])
  <2>1. f \in Told
    BY <1>5 DEF Told
  <2>2. f \in Entries(findings)
    BY <2>1 DEF FoundInv
  <2>3. f.rule = Rules[i].id
    BY <1>3
  <2> QED BY <2>2, <2>3 DEF Entries, FindingsOf
<1> QED BY <1>4, <1>5

\* evaluate: a rule tells everything or fails.
LEMMA ReportsAllOrNothing == IInv /\ ReportInv => AllOrNothing
<1> SUFFICES ASSUME IInv, ReportInv, NEW r \in Reported
             PROVE  IF r.id \in errs
                    THEN FindingsOf(r) = {} /\ r.id \notin DOMAIN coverage
                    ELSE /\ FindingsOf(r) = {Finding(r, x) : x \in {y \in ScopeSet(r) : Fires(r, y)}}
                         /\ withCoverage <=> r.id \in DOMAIN coverage
  BY DEF AllOrNothing
<1>1. TypeOK /\ TurnInv /\ FoundInv /\ CoveredInv
  BY DEF IInv, ReportInv
<1>2. PICK i \in 1..Len(Rules) : i \in 1..(rule - 1) /\ r = Rules[i] /\ pass = "done"
  BY <1>1, ReportedRule
<1>3. i \in Through
  BY <1>1, <1>2, ThroughIs
<1>4. FindingsOf(Rules[i]) = IF Rules[i].id \in errs THEN {} ELSE FoundOf(i)
  BY <1>1, <1>3, TellsOf
<1>5. IF Rules[i].id \in errs
      THEN Rules[i].id \notin DOMAIN coverage
      ELSE withCoverage <=> Rules[i].id \in DOMAIN coverage
  BY <1>1, <1>2 DEF CoveredInv
<1> QED BY <1>2, <1>4, <1>5 DEF FoundOf

\* What the last report decided without a finding is false under every declaration.
LEMMA SilentBefore ==
  ASSUME IInv, ReportInv, NEW r \in Reported, NEW x \in ScopeSet(r),
         r.required # {}, r.id \in DOMAIN counted, x \in counted[r.id],
         \A j \in 1..Len(findings) : findings[j].rule # r.id \/ findings[j].element # x
  PROVE  FalseGiven(facts, r, x)
<1>1. TypeOK /\ TurnInv /\ FoundInv /\ CoveredInv
  BY DEF IInv, ReportInv
<1>2. PICK i \in 1..Len(Rules) : i \in 1..(rule - 1) /\ r = Rules[i] /\ pass = "done"
  BY <1>1, ReportedRule
<1>3. r.id \notin errs /\ r.id \in DOMAIN coverage
  BY <1>1, <1>2 DEF CoveredInv
<1>4. DecidesSoundly(r)
  BY <1>3, ReportedSettled DEF Settled
<1>5. ~Fires(r, x)
  <2> SUFFICES ASSUME Fires(r, x) PROVE FALSE
    OBVIOUS
  <2>1. AllOrNothing
    BY ReportsAllOrNothing
  <2>2. Finding(r, x) \in FindingsOf(r)
    BY <1>3, <2>1 DEF AllOrNothing
  <2>3. PICK j \in 1..Len(findings) : findings[j] = Finding(r, x)
    BY <2>2 DEF FindingsOf
  <2>4. findings[j].rule = r.id /\ findings[j].element = x
    BY <2>3 DEF Finding
  <2> QED BY <2>4
<1>6. FalseForAll(r, x)
  BY <1>4, <1>5 DEF DecidesSoundly
<1> QED BY <1>6, ReadsFacts

\* The evaluation after a declaration remembers the report before it.
LEMMA DeclareReport == IInv /\ ReportInv /\ Declare => ReportInv'
<1> SUFFICES ASSUME IInv, ReportInv, Declare PROVE ReportInv'
  OBVIOUS
<1>1. /\ TypeOK /\ TurnInv /\ pass = "done" /\ StartsAfresh
      /\ UNCHANGED <<catalog, regimes>>
  BY DEF IInv, Declare
<1>2. (FoundInv /\ OutInv /\ CoveredInv /\ ReportIsCanonical)'
  <2>1. rule' = 1 /\ pass' = "findings" /\ out' = << >> /\ findings' = << >>
    BY <1>1 DEF StartsAfresh
  <2>2. (rule = 1 /\ pass = "findings" /\ out = << >> /\ findings = << >>
           => FoundInv /\ OutInv /\ CoveredInv /\ ReportIsCanonical)'
    BY StartReport, PTL
  <2> QED BY <2>1, <2>2
<1>3. Rules' = Rules
  BY <1>1 DEF Rules
<1>4. PICK fact \in AskedFor, v \in Declarable :
        facts' = [facts EXCEPT ![fact[1]][fact[2]] = v] /\ changed' = fact
  BY DEF Declare
<1>5. PICK found :
        found = {[rule |-> findings[j].rule, element |-> findings[j].element] : j \in 1..Len(findings)}
  OBVIOUS
<1>6. before'.found = found /\ before'.counted = counted /\ before'.facts = facts
  BY <1>5 DEF Declare
<1>7. facts \in [Object -> [Field -> Value \cup {Absent}]]
  BY <1>1 DEF TypeOK
<1>8. \A o \in Object, f \in Field : <<o, f>> # changed' => facts'[o][f] = facts[o][f]
  <2>1. PICK o1 \in Object, f1 \in Field : fact = <<o1, f1>>
    BY <1>4 DEF AskedFor
  <2>2. facts' = [facts EXCEPT ![o1] = [facts[o1] EXCEPT ![f1] = v]]
    BY <1>4, <2>1
  <2> QED BY <1>4, <1>7, <2>1, <2>2
<1>9. ASSUME NEW i \in 1..Len(Rules), NEW x \in ScopeSet(Rules[i]),
             Rules[i].required # {}, Rules[i].id \in DOMAIN counted, x \in counted[Rules[i].id],
             [rule |-> Rules[i].id, element |-> x] \notin found
      PROVE  FalseGiven(facts, Rules[i], x)
  <2>1. Rules[i] \in Reported
    BY <1>1 DEF Reported
  <2>2. \A j \in 1..Len(findings) : findings[j].rule # Rules[i].id \/ findings[j].element # x
    BY <1>5, <1>9
  <2>3. PICK r : r = Rules[i]
    OBVIOUS
  <2> QED BY <1>9, <2>1, <2>2, <2>3, SilentBefore
<1>10. EarlierInv'
  <2>1. \A r : ScopeSet(r)' = ScopeSet(r)
    OBVIOUS
  <2>2. \A i, x : FalseGiven(before.facts, Rules[i], x)' <=> FalseGiven(facts, Rules[i], x)
    BY <1>3, <1>6
  <2> QED BY <1>3, <1>6, <1>7, <1>8, <1>9, <2>1, <2>2 DEF EarlierInv
<1> QED BY <1>2, <1>10 DEF ReportInv

\* Every step of an evaluation, and every declaration between two, keeps the report right.
THEOREM ReportInvariance == Spec => []ReportInv
<1>1. Init => ReportInv
  BY InitReport
<1>2. IInv /\ ReportInv /\ [Next]_vars => ReportInv'
  BY WalkReport, DiscardReport, EndRuleReport, StartCoverageReport, CoverReport, EndCoverageReport,
     SortReport, DeclareReport, StutterReport DEF Next, Step
<1> QED BY <1>1, <1>2, Invariance, PTL DEF Spec

\* evaluate: a rule reports everything it holds for, or nothing and an error, for every catalog,
\* every model, and wherever time runs out; a rule that failed has no coverage.
THEOREM AllOrNothingHolds == Spec => []AllOrNothing
<1>1. IInv /\ ReportInv => AllOrNothing
  BY ReportsAllOrNothing
<1> QED BY <1>1, Invariance, ReportInvariance, PTL

\* sortFindings: severity, rule and element decide the place of every finding of every report.
THEOREM ReportIsCanonicalHolds == Spec => []ReportIsCanonical
<1>1. ReportInv => ReportIsCanonical
  BY DEF ReportInv
<1> QED BY <1>1, ReportInvariance, PTL

\* A condition is as false on a reading as on another that agrees where the condition looks.
LEMMA SameReading ==
  ASSUME NEW cond \in Condition, NEW a, NEW b,
         \A t \in UNION cond : a[t.path] = b[t.path],
         Eval(cond, a) = "false"
  PROVE  Eval(cond, b) = "false"
<1>1. PICK clause \in cond : ClauseOutcome(clause, a) = "false"
  BY EvalFalse
<1>2. clause \in SUBSET Test
  BY DEF Condition
<1>3. \A t \in clause : TestOutcome(t, b) = TestOutcome(t, a)
  BY <1>1 DEF TestOutcome
<1>4. \A t \in clause : TestOutcome(t, a) = "false"
  BY <1>1, <1>2, ClauseFalse
<1>5. ClauseOutcome(clause, b) = "false"
  BY <1>2, <1>3, <1>4, ClauseFalse
<1> QED BY <1>5, EvalFalse

\* A reading that fills in the unknown facts is one of the completions.
LEMMA FilledIn ==
  ASSUME NEW partial, NEW reading \in Reading
  PROVE  [q \in Path |-> IF partial[q] = Unknown THEN reading[q] ELSE partial[q]] \in Completions(partial)
<1> DEFINE open == {q \in Path : partial[q] = Unknown}
           choice == [q \in open |-> reading[q]]
           full == [q \in Path |-> IF partial[q] = Unknown THEN reading[q] ELSE partial[q]]
<1>1. choice \in [open -> Value \cup {Absent}]
  BY DEF Reading
<1>2. full = [q \in Path |-> IF q \in open THEN choice[q] ELSE partial[q]]
  OBVIOUS
<1> HIDE DEF full
<1>3. full \in Completions(partial)
  BY <1>1, <1>2 DEF Completions
<1> QED BY <1>3 DEF full

\* A rule that decided an element whatever its undeclared facts are does not fire on it when one of
\* them is declared.
LEMMA StaysSilent ==
  ASSUME TypeOK, EarlierInv, before # None, NEW r \in Rule, NEW x \in Element,
         FalseGiven(before.facts, r, x), ReadsAsRequired(r, x),
         NEW p \in r.required, FactAt(p, x) = changed, WasMissing(p, x)
  PROVE  ~Fires(r, x)
<1>1. PICK given : given = before.facts
  OBVIOUS
<1>2. \A o \in Object, f \in Field : <<o, f>> # changed => facts[o][f] = given[o][f]
  BY <1>1 DEF EarlierInv
<1> DEFINE missing == MissingIn(given, r, x)
           partial == WithUnknowns(ReadIn(given, x), missing)
           full == [q \in Path |-> IF partial[q] = Unknown THEN Read(x)[q] ELSE partial[q]]
<1>3. full \in Completions(partial)
  <2>1. Read(x) \in Reading
    BY ReadType
  <2> HIDE DEF partial
  <2> QED BY <2>1, FilledIn
<1>4. Eval(r.condition, full) = "false"
  BY <1>1, <1>3 DEF FalseGiven
<1>5. \A q \in Path : At[x][q.root] \in Object \cup {NoObject} /\ q.field \in Field
  BY FactsAssumption
<1>6. ASSUME NEW q \in r.required, FactAt(q, x) = changed PROVE q \in missing
  <2>1. At[x][q.root] = At[x][p.root] /\ q.field = p.field
    BY <1>6 DEF FactAt
  <2>2. /\ At[x][p.root] # NoObject
        /\ ~Declared(p.field, given[At[x][p.root]][p.field], At[x][p.root])
    BY <1>1 DEF WasMissing
  <2> QED BY <2>1, <2>2 DEF MissingIn
<1>7. ASSUME NEW t \in UNION r.condition PROVE full[t.path] = Read(x)[t.path]
  <2>1. PICK q \in Path : q = t.path
    BY DEF Rule, Condition, Test
  <2>2. CASE partial[q] = Unknown
    BY <2>1, <2>2
  <2>3. CASE partial[q] # Unknown
    <3>1. q \notin missing /\ partial[q] = ReadIn(given, x)[q]
      BY <2>3 DEF WithUnknowns
    <3>2. FactAt(q, x) # changed
      <4>1. CASE q \in r.required
        BY <1>6, <3>1, <4>1
      <4>2. CASE q \notin r.required
        BY <2>1, <4>2 DEF ReadsAsRequired
      <4> QED BY <4>1, <4>2
    <3>3. ReadIn(given, x)[q] = Read(x)[q]
      <4>1. CASE At[x][q.root] = NoObject
        BY <4>1 DEF ReadIn, Read, RawFact
      <4>2. CASE At[x][q.root] # NoObject
        <5>1. At[x][q.root] \in Object /\ q.field \in Field
          BY <1>5, <4>2
        <5>2. facts[At[x][q.root]][q.field] = given[At[x][q.root]][q.field]
          BY <1>2, <3>2, <5>1 DEF FactAt
        <5> QED BY <4>2, <5>2 DEF ReadIn, Read, RawFact
      <4> QED BY <4>1, <4>2
    <3>4. full[q] = partial[q]
      BY <2>3
    <3> QED BY <2>1, <3>1, <3>3, <3>4
  <2> QED BY <2>2, <2>3
<1> HIDE DEF full, partial, missing
<1>8. Eval(r.condition, Read(x)) = "false"
  <2>1. r.condition \in Condition
    BY DEF Rule
  <2> QED BY <1>4, <1>7, <2>1, SameReading
<1> QED BY <1>8 DEF Fires, Evaluated

\* What "decided" means to a reader of the report: a rule that decided an element without a finding
\* finds nothing there when the architect declares one of the facts it had required in vain, for
\* every catalog and every model.
THEOREM SilenceLastsHolds == Spec => []SilenceLasts
<1>1. IInv /\ ReportInv => SilenceLasts
  <2> SUFFICES ASSUME IInv, ReportInv, before # None, NEW r \in Reported, NEW x \in ScopeSet(r),
                      r.id \in DOMAIN before.counted, x \in before.counted[r.id],
                      [rule |-> r.id, element |-> x] \notin before.found,
                      ReadsAsRequired(r, x),
                      NEW p \in r.required, FactAt(p, x) = changed, WasMissing(p, x)
               PROVE  \A f \in FindingsOf(r) : f.element # x
    BY DEF SilenceLasts
  <2>1. TypeOK /\ TurnInv /\ EarlierInv
    BY DEF IInv, ReportInv
  <2>2. PICK i \in 1..Len(Rules) : r = Rules[i] /\ r \in Rule
    BY <2>1, ReportedRule
  <2>3. x \in Element
    BY ScopeType
  <2>4. FalseGiven(before.facts, r, x)
    <3>1. r.required # {}
      OBVIOUS
    <3> QED BY <2>1, <2>2, <3>1 DEF EarlierInv
  <2>5. ~Fires(r, x)
    BY <2>1, <2>2, <2>3, <2>4, StaysSilent
  <2>6. \A f \in FindingsOf(r) : \E y \in ScopeSet(r) : Fires(r, y) /\ f = Finding(r, y)
    BY ReportsAllOrNothing DEF AllOrNothing
  <2>7. \A y : Finding(r, y).element = y
    BY DEF Finding
  <2> QED BY <2>5, <2>6, <2>7
<1> QED BY <1>1, Invariance, ReportInvariance, PTL

-----------------------------------------------------------------------------
(***************************************************************************)
(* Graph walks: what a queue comes to hold is the least set that holds the *)
(* start and is closed; what is in it is what a walk reaches.              *)
(***************************************************************************)

\* The neighbours of each node.
Adjacency == [GraphNodes -> SUBSET GraphNodes]

ClosedUnder(T, nb) == \A n \in T : nb[n] \subseteq T

\* The least closed set that holds s.
Closure(s, nb) == {n \in GraphNodes : \A c \in SUBSET GraphNodes : s \subseteq c /\ ClosedUnder(c, nb) => n \in c}

StepAround(s, nb) == s \cup UNION {nb[n] : n \in s}

\* The equation Spread chooses a solution of.
SpreadEquation(nb, f) ==
  f = [s \in SUBSET GraphNodes |->
         LET t == s \cup UNION {nb[n] : n \in s} IN IF t = s THEN s ELSE f[t]]

LEMMA ClosureFacts ==
  ASSUME NEW nb \in Adjacency, NEW s \in SUBSET GraphNodes
  PROVE  /\ s \subseteq Closure(s, nb) /\ Closure(s, nb) \subseteq GraphNodes
         /\ ClosedUnder(Closure(s, nb), nb)
         /\ StepAround(s, nb) \in SUBSET GraphNodes
         /\ StepAround(s, nb) = s => Closure(s, nb) = s
         /\ Closure(StepAround(s, nb), nb) = Closure(s, nb)
<1>1. s \subseteq Closure(s, nb) /\ Closure(s, nb) \subseteq GraphNodes
  BY DEF Closure
<1>2. ClosedUnder(Closure(s, nb), nb)
  BY DEF Closure, ClosedUnder, Adjacency
<1>3. StepAround(s, nb) \in SUBSET GraphNodes
  BY DEF StepAround, Adjacency
<1>4. ASSUME StepAround(s, nb) = s PROVE Closure(s, nb) = s
  <2>1. ClosedUnder(s, nb)
    BY <1>4 DEF ClosedUnder, StepAround
  <2> QED BY <1>1, <2>1 DEF Closure
<1>5. \A c \in SUBSET GraphNodes : ClosedUnder(c, nb) => (s \subseteq c <=> StepAround(s, nb) \subseteq c)
  BY DEF ClosedUnder, StepAround
<1>6. Closure(StepAround(s, nb), nb) = Closure(s, nb)
  BY <1>5 DEF Closure
<1> QED BY <1>1, <1>2, <1>3, <1>4, <1>6

LEMMA SpreadIsClosure ==
  ASSUME NEW nb \in Adjacency, NEW start \in GraphNodes
  PROVE  Spread(start, nb) = Closure({start}, nb)
<1> DEFINE seen == CHOOSE f : SpreadEquation(nb, f)
           closure == [s \in SUBSET GraphNodes |-> Closure(s, nb)]
<1>1. SpreadEquation(nb, closure)
  <2>1. ASSUME NEW s \in SUBSET GraphNodes
        PROVE  closure[s] = LET t == s \cup UNION {nb[n] : n \in s} IN IF t = s THEN s ELSE closure[t]
    <3>1. /\ StepAround(s, nb) \in SUBSET GraphNodes
          /\ StepAround(s, nb) = s => Closure(s, nb) = s
          /\ Closure(StepAround(s, nb), nb) = Closure(s, nb)
      BY ClosureFacts
    <3>2. closure[s] = IF StepAround(s, nb) = s THEN s ELSE closure[StepAround(s, nb)]
      BY <3>1
    <3> QED BY <3>2 DEF StepAround
  <2> HIDE DEF closure
  <2>2. closure = [s \in SUBSET GraphNodes |-> closure[s]]
    BY DEF closure
  <2> QED BY <2>1, <2>2 DEF SpreadEquation
<1>2. SpreadEquation(nb, seen)
  BY <1>1
<1>3. Spread(start, nb) = seen[{start}]
  BY DEF Spread, SpreadEquation
<1> HIDE DEF seen, closure
<1>4. ASSUME NEW s \in SUBSET GraphNodes
      PROVE  seen[s] = IF StepAround(s, nb) = s THEN s ELSE seen[StepAround(s, nb)]
  BY <1>2 DEF SpreadEquation, StepAround
<1> DEFINE wrong == {s \in SUBSET GraphNodes : seen[s] # Closure(s, nb)}
           sizes == {Cardinality(GraphNodes \ s) : s \in wrong}
<1>5. wrong = {}
  <2> SUFFICES ASSUME wrong # {} PROVE FALSE
    OBVIOUS
  <2>1. \A s \in SUBSET GraphNodes : IsFiniteSet(GraphNodes \ s) /\ Cardinality(GraphNodes \ s) \in Nat
    <3> SUFFICES ASSUME NEW s \in SUBSET GraphNodes
                 PROVE  IsFiniteSet(GraphNodes \ s) /\ Cardinality(GraphNodes \ s) \in Nat
      OBVIOUS
    <3>1. IsFiniteSet(GraphNodes \ s)
      BY WalksAssumption, FS_Subset
    <3> QED BY <3>1, FS_CardinalityType
  <2>2. sizes \in SUBSET Nat /\ sizes # {}
    BY <2>1
  <2> HIDE DEF sizes
  <2>3. PICK m \in sizes : \A k \in sizes : m <= k
    BY <2>2, FO!LeastNumber
  <2>4. PICK s \in wrong : m = Cardinality(GraphNodes \ s)
    BY DEF sizes
  <2> DEFINE t == StepAround(s, nb)
  <2>5. /\ t \in SUBSET GraphNodes /\ s \subseteq t
        /\ t = s => Closure(s, nb) = s
        /\ Closure(t, nb) = Closure(s, nb)
    <3>1. s \subseteq t
      BY DEF StepAround
    <3> QED BY <3>1, ClosureFacts
  <2>6. t # s /\ seen[s] = seen[t]
    BY <1>4, <2>4, <2>5
  <2>7. t \in wrong
    BY <2>4, <2>5, <2>6
  <2> HIDE DEF t, wrong
  <2>8. Cardinality(GraphNodes \ t) \in sizes
    BY <2>7 DEF sizes
  <2>9. Cardinality(GraphNodes \ t) < m
    <3>1. GraphNodes \ t \in SUBSET (GraphNodes \ s) /\ GraphNodes \ t # GraphNodes \ s
      BY <2>4, <2>5, <2>6 DEF wrong
    <3>2. /\ Cardinality(GraphNodes \ t) <= Cardinality(GraphNodes \ s)
          /\ Cardinality(GraphNodes \ s) # Cardinality(GraphNodes \ t)
      <4>1. s \in SUBSET GraphNodes
        BY <2>4 DEF wrong
      <4> QED BY <2>1, <3>1, <4>1, FS_Subset
    <3>3. Cardinality(GraphNodes \ t) \in Nat /\ m \in Nat
      BY <2>1, <2>2, <2>3, <2>5
    <3> QED BY <2>4, <3>2, <3>3
  <2>10. m \in Int /\ Cardinality(GraphNodes \ t) \in Int
    BY <2>2, <2>3, <2>1, <2>5
  <2> QED BY <2>3, <2>8, <2>9, <2>10
<1> QED BY <1>3, <1>5

\* A queue that starts with a node comes to hold a closed set, and nothing a closed set would not.
LEMMA SpreadFacts ==
  ASSUME NEW nb \in Adjacency, NEW start \in GraphNodes
  PROVE  /\ start \in Spread(start, nb) /\ Spread(start, nb) \subseteq GraphNodes
         /\ ClosedUnder(Spread(start, nb), nb)
         /\ \A T \in SUBSET GraphNodes : start \in T /\ ClosedUnder(T, nb) => Spread(start, nb) \subseteq T
<1>1. {start} \in SUBSET GraphNodes
  OBVIOUS
<1>2. /\ {start} \subseteq Closure({start}, nb) /\ Closure({start}, nb) \subseteq GraphNodes
      /\ ClosedUnder(Closure({start}, nb), nb)
  BY <1>1, ClosureFacts
<1>3. \A T \in SUBSET GraphNodes : start \in T /\ ClosedUnder(T, nb) => Closure({start}, nb) \subseteq T
  BY DEF Closure
<1> QED BY <1>2, <1>3, SpreadIsClosure

-----------------------------------------------------------------------------
\* A walk of any length from a to b, each step to a neighbour.
Walks(nb, a, b) ==
  {s \in Seq(GraphNodes) :
     /\ Len(s) > 0 /\ s[1] = a /\ s[Len(s)] = b
     /\ \A i \in 1..(Len(s) - 1) : s[i + 1] \in nb[s[i]]}

\* Cutting out a circle leaves a walk that is shorter.
LEMMA CutCircle ==
  ASSUME NEW nb \in Adjacency, NEW a, NEW b, NEW s \in Walks(nb, a, b),
         NEW i \in 1..Len(s), NEW j \in 1..Len(s), i < j, s[i] = s[j]
  PROVE  \E t \in Walks(nb, a, b) : Len(t) < Len(s)
<1>1. PICK l \in Nat : l = Len(s)
  BY DEF Walks
<1>2. PICK m \in Nat : m = l - (j - i)
  BY <1>1
<1> DEFINE t == [k \in 1..m |-> IF k <= i THEN s[k] ELSE s[k + (j - i)]]
<1>3. /\ i \in Nat /\ j \in Nat /\ 1 <= i /\ i <= m /\ m < l /\ j <= l
      /\ s \in Seq(GraphNodes) /\ s[1] = a /\ s[l] = b
      /\ \A k \in 1..l : s[k] \in GraphNodes
      /\ \A k \in 1..(l - 1) : s[k + 1] \in nb[s[k]]
  BY <1>1, <1>2 DEF Walks
<1>4. /\ \A k \in 1..m : k <= i => t[k] = s[k]
      /\ \A k \in 1..m, n \in 1..l : k > i /\ n = k + (j - i) => t[k] = s[n]
      /\ \A k \in 1..m : k > i => k + (j - i) \in 1..l
  BY <1>1, <1>2, <1>3
<1>5. t \in Seq(GraphNodes) /\ Len(t) = m
  <2>1. ASSUME NEW k \in 1..m PROVE t[k] \in GraphNodes
    <3>1. CASE k <= i
      <4>1. k \in 1..l
        BY <1>3
      <4> HIDE DEF t
      <4> QED BY <1>3, <1>4, <3>1, <4>1
    <3>2. CASE k > i
      <4>1. PICK n \in 1..l : n = k + (j - i)
        BY <1>4, <3>2
      <4>2. t[k] = s[n]
        BY <1>4, <3>2, <4>1
      <4> HIDE DEF t
      <4> QED BY <1>3, <4>2
    <3> QED BY <1>3, <3>1, <3>2
  <2> QED BY <2>1
<1> HIDE DEF t
<1>6. t[1] = a /\ t[m] = b
  <2>1. t[1] = a
    <3>1. 1 \in 1..m /\ 1 <= i
      BY <1>3
    <3>2. t[1] = s[1]
      BY <1>4, <3>1
    <3> QED BY <1>3, <3>2
  <2>2. CASE m = i
    <3>1. t[m] = s[i] /\ j = l
      BY <1>2, <1>3, <1>4, <2>2
    <3> QED BY <1>3, <2>1, <3>1
  <2>3. CASE m # i
    <3>1. m \in 1..m /\ m > i /\ l = m + (j - i) /\ l \in 1..l
      BY <1>2, <1>3, <2>3
    <3> QED BY <1>3, <1>4, <2>1, <3>1
  <2> QED BY <2>2, <2>3
<1>7. ASSUME NEW k \in 1..(m - 1) PROVE t[k + 1] \in nb[t[k]]
  <2>1. k \in 1..m /\ k + 1 \in 1..m /\ k \in Nat
    OBVIOUS
  <2>2. CASE k < i
    <3>1. k <= i /\ k + 1 <= i /\ k \in 1..(l - 1)
      BY <1>3, <2>1, <2>2
    <3> QED BY <1>3, <1>4, <2>1, <3>1
  <2>3. CASE k = i
    <3>1. j + 1 = (k + 1) + (j - i) /\ k + 1 > i /\ j + 1 \in 1..l /\ j \in 1..(l - 1)
      BY <1>2, <1>3, <2>1, <2>3
    <3>2. t[k] = s[j]
      <4>1. k <= i
        BY <1>3, <2>3
      <4>2. t[k] = s[k]
        BY <1>4, <2>1, <4>1
      <4> QED BY <2>3, <4>2
    <3>3. t[k + 1] = s[j + 1]
      BY <1>4, <2>1, <3>1
    <3> QED BY <1>3, <3>1, <3>2, <3>3
  <2>4. CASE k > i
    <3>1. PICK n \in 1..(l - 1) : n = k + (j - i)
      <4>1. k + (j - i) \in 1..(l - 1)
        BY <1>2, <1>3, <2>1, <2>4
      <4> QED BY <4>1
    <3>2. n \in 1..l /\ n + 1 \in 1..l /\ n + 1 = (k + 1) + (j - i) /\ k + 1 > i
      BY <1>3, <2>1, <2>4, <3>1
    <3>3. t[k] = s[n] /\ t[k + 1] = s[n + 1]
      BY <1>4, <2>1, <2>4, <3>1, <3>2
    <3> QED BY <1>3, <3>1, <3>3
  <2> QED BY <1>3, <2>1, <2>2, <2>3, <2>4
<1>8. t \in Walks(nb, a, b)
  BY <1>3, <1>5, <1>6, <1>7 DEF Walks
<1> QED BY <1>1, <1>3, <1>5, <1>8

\* Where there is a walk there is one that meets no node twice.
LEMMA ShortWalk ==
  ASSUME NEW nb \in Adjacency, NEW a, NEW b, Walks(nb, a, b) # {}
  PROVE  \E s \in Walks(nb, a, b) : Len(s) <= Cardinality(GraphNodes)
<1> DEFINE lengths == {Len(s) : s \in Walks(nb, a, b)}
<1>1. lengths \in SUBSET Nat /\ lengths # {}
  <2>1. \A s \in Walks(nb, a, b) : Len(s) \in Nat
    BY DEF Walks
  <2> QED BY <2>1
<1> HIDE DEF lengths
<1>2. PICK m \in lengths : \A k \in lengths : m <= k
  BY <1>1, FO!LeastNumber
<1>3. PICK s \in Walks(nb, a, b) : m = Len(s)
  BY <1>2 DEF lengths
<1>4. ASSUME NEW i \in 1..m, NEW j \in 1..m, i < j, s[i] = s[j] PROVE FALSE
  <2>1. PICK t \in Walks(nb, a, b) : Len(t) < Len(s)
    BY <1>3, <1>4, CutCircle
  <2>2. Len(t) \in lengths /\ Len(t) \in Nat
    BY <1>1 DEF lengths
  <2>3. m \in Nat
    BY <1>1, <1>2
  <2> QED BY <1>2, <1>3, <2>1, <2>2, <2>3
<1>5. m \in Nat /\ \A i \in 1..m : s[i] \in GraphNodes
  BY <1>3 DEF Walks
<1> DEFINE visit == [i \in 1..m |-> s[i]]
<1>6. visit \in Injection(1..m, GraphNodes)
  <2>1. \A i, j \in 1..m : s[i] = s[j] => i = j
    <3> SUFFICES ASSUME NEW i \in 1..m, NEW j \in 1..m, s[i] = s[j], i # j PROVE FALSE
      OBVIOUS
    <3>1. i < j \/ j < i
      BY <1>5
    <3> QED BY <1>4, <3>1
  <2> QED BY <1>5, <2>1 DEF Injection, IsInjective
<1>7. Cardinality(1..m) <= Cardinality(GraphNodes)
  BY <1>6, WalksAssumption, FS_Injection
<1>8. Cardinality(1..m) = m
  <2>1. Cardinality(1..m) = IF 1 > m THEN 0 ELSE m - 1 + 1
    BY <1>5, FS_Interval
  <2> QED BY <1>5, <2>1
<1> QED BY <1>3, <1>7, <1>8

\* A walk stays in a set that is closed along it, from its start on or from its end back.
LEMMA WalkStays ==
  ASSUME NEW nb \in Adjacency, NEW a, NEW b, NEW s \in Walks(nb, a, b), NEW T \in SUBSET GraphNodes,
         a \in T, ClosedUnder(T, nb)
  PROVE  \A i \in 1..Len(s) : s[i] \in T
<1>1. PICK l \in Nat : l = Len(s)
  BY DEF Walks
<1> DEFINE within == {k \in 0..(l - 1) : s[k + 1] \in T}
<1>2. 0 \in within
  BY <1>1 DEF Walks
<1>3. ASSUME NEW k \in 0..(l - 1 - 1), k \in within PROVE k + 1 \in within
  <2>1. k + 1 \in 1..(l - 1) /\ s[(k + 1) + 1] \in nb[s[k + 1]]
    BY <1>1 DEF Walks
  <2> QED BY <1>1, <1>3, <2>1 DEF ClosedUnder
<1>4. l - 1 \in Nat
  BY <1>1 DEF Walks
<1> HIDE DEF within
<1>5. 0..(l - 1) \subseteq within
  BY <1>2, <1>3, <1>4, FO!UpTo
<1>6. ASSUME NEW i \in 1..l PROVE s[i] \in T
  <2>1. i - 1 \in within
    BY <1>1, <1>5
  <2>2. (i - 1) + 1 = i
    OBVIOUS
  <2> QED BY <2>1, <2>2 DEF within
<1> QED BY <1>1, <1>6

ClosedBack(T, nb) == \A n, m \in GraphNodes : m \in nb[n] /\ m \in T => n \in T

LEMMA WalkCameFrom ==
  ASSUME NEW nb \in Adjacency, NEW a, NEW b, NEW s \in Walks(nb, a, b), NEW T \in SUBSET GraphNodes,
         b \in T, ClosedBack(T, nb)
  PROVE  \A i \in 1..Len(s) : s[i] \in T
<1>1. PICK l \in Nat : l = Len(s)
  BY DEF Walks
<1> DEFINE within == {k \in 0..(l - 1) : s[l - k] \in T}
<1>2. 0 \in within
  BY <1>1 DEF Walks
<1>3. ASSUME NEW k \in 0..(l - 1 - 1), k \in within PROVE k + 1 \in within
  <2>1. PICK n \in 1..(l - 1) : n = l - (k + 1)
    <3>1. l - (k + 1) \in 1..(l - 1)
      BY <1>1
    <3> QED BY <3>1
  <2>2. s[n + 1] \in nb[s[n]] /\ s[n] \in GraphNodes /\ s[n + 1] \in GraphNodes
    BY <1>1 DEF Walks
  <2>3. n + 1 = l - k
    BY <1>1, <2>1
  <2> QED BY <1>1, <1>3, <2>1, <2>2, <2>3 DEF ClosedBack
<1>4. l - 1 \in Nat
  BY <1>1 DEF Walks
<1> HIDE DEF within
<1>5. 0..(l - 1) \subseteq within
  BY <1>2, <1>3, <1>4, FO!UpTo
<1>6. ASSUME NEW i \in 1..l PROVE s[i] \in T
  <2>1. l - i \in within
    BY <1>1, <1>5
  <2>2. l - (l - i) = i
    BY <1>1
  <2> QED BY <2>1, <2>2 DEF within
<1> QED BY <1>1, <1>6

\* Walks: standing still, one step more at the end or at the start, one after the other.
LEMMA StandStill ==
  ASSUME NEW nb \in Adjacency, NEW a \in GraphNodes
  PROVE  <<a>> \in Walks(nb, a, a)
BY DEF Walks

LEMMA StepOn ==
  ASSUME NEW nb \in Adjacency, NEW a, NEW b, NEW s \in Walks(nb, a, b), NEW c \in nb[b]
  PROVE  Append(s, c) \in Walks(nb, a, c)
<1>1. PICK l \in Nat : l = Len(s)
  BY DEF Walks
<1> DEFINE t == Append(s, c)
<1>2. /\ l > 0 /\ s \in Seq(GraphNodes) /\ s[1] = a /\ s[l] = b /\ b \in GraphNodes
      /\ \A k \in 1..(l - 1) : s[k + 1] \in nb[s[k]]
  BY <1>1 DEF Walks
<1>3. c \in GraphNodes
  BY <1>2 DEF Adjacency
<1>4. t \in Seq(GraphNodes) /\ Len(t) = l + 1 /\ t[l + 1] = c /\ \A k \in 1..l : t[k] = s[k]
  BY <1>1, <1>2, <1>3
<1> HIDE DEF t
<1>5. ASSUME NEW k \in 1..l PROVE t[k + 1] \in nb[t[k]]
  <2>1. CASE k = l
    BY <1>2, <1>4, <2>1
  <2>2. CASE k # l
    <3>1. k \in 1..(l - 1) /\ k + 1 \in 1..l
      BY <2>2
    <3> QED BY <1>2, <1>4, <3>1
  <2> QED BY <2>1, <2>2
<1>6. t[1] = a /\ Len(t) - 1 = l /\ Len(t) > 0
  BY <1>2, <1>4
<1> QED BY <1>4, <1>5, <1>6 DEF Walks, t

LEMMA Join ==
  ASSUME NEW nb \in Adjacency, NEW a, NEW b, NEW c, NEW s \in Walks(nb, a, b), NEW r \in Walks(nb, b, c)
  PROVE  \E t \in Walks(nb, a, c) : /\ Len(t) = Len(s) + Len(r) - 1
                                    /\ \A k \in 1..Len(s) : t[k] = s[k]
<1>1. PICK l \in Nat, n \in Nat : l = Len(s) /\ n = Len(r)
  BY DEF Walks
<1>2. PICK m \in Nat : m = l + n - 1
  <2>1. l > 0
    BY <1>1 DEF Walks
  <2>2. l + n - 1 \in Nat
    BY <2>1
  <2> QED BY <2>2
<1> DEFINE t == [k \in 1..m |-> IF k <= l THEN s[k] ELSE r[k - l + 1]]
<1>3. /\ l > 0 /\ s[1] = a /\ s[l] = b /\ \A k \in 1..l : s[k] \in GraphNodes
      /\ n > 0 /\ r[1] = b /\ r[n] = c /\ \A k \in 1..n : r[k] \in GraphNodes
      /\ \A k \in 1..(l - 1) : s[k + 1] \in nb[s[k]]
      /\ \A k \in 1..(n - 1) : r[k + 1] \in nb[r[k]]
      /\ l <= m
  BY <1>1, <1>2 DEF Walks
<1>4. \A k \in 1..m : t[k] \in GraphNodes
  BY <1>2, <1>3
<1>5. t \in Seq(GraphNodes) /\ Len(t) = m
  BY <1>4
<1>6. t[1] = a /\ t[m] = c
  <2>1. t[1] = a
    BY <1>3
  <2>2. CASE n = 1
    BY <1>2, <1>3, <2>2
  <2>3. CASE n # 1
    <3>1. m > l /\ m - l + 1 = n
      BY <1>2, <1>3, <2>3
    <3> QED BY <1>3, <3>1
  <2> QED BY <2>1, <2>2, <2>3
<1>7. ASSUME NEW k \in 1..(m - 1) PROVE t[k + 1] \in nb[t[k]]
  <2>1. CASE k < l
    <3>1. t[k] = s[k] /\ t[k + 1] = s[k + 1] /\ k \in 1..(l - 1)
      BY <1>3, <2>1
    <3> QED BY <1>3, <3>1
  <2>2. CASE k = l
    <3>1. t[k] = r[1] /\ t[k + 1] = r[(k + 1) - l + 1] /\ (k + 1) - l + 1 = 1 + 1 /\ 1 \in 1..(n - 1)
      BY <1>2, <1>3, <2>2
    <3>2. t[k + 1] = r[1 + 1]
      BY <3>1
    <3> QED BY <1>3, <3>1, <3>2
  <2>3. CASE k > l
    <3>1. PICK i \in 1..(n - 1) : i = k - l + 1
      BY <1>2, <1>3, <2>3
    <3>2. t[k] = r[i] /\ t[k + 1] = r[(k + 1) - l + 1] /\ (k + 1) - l + 1 = i + 1
      BY <1>3, <2>3, <3>1
    <3>3. t[k + 1] = r[i + 1]
      BY <3>2
    <3> QED BY <1>3, <3>2, <3>3
  <2> QED BY <1>3, <2>1, <2>2, <2>3
<1>8. \A k \in 1..l : t[k] = s[k]
  BY <1>3
<1> HIDE DEF t
<1>9. t \in Walks(nb, a, c)
  BY <1>3, <1>5, <1>6, <1>7 DEF Walks
<1> QED BY <1>1, <1>2, <1>5, <1>8, <1>9

\* The sequences AnswersAreWalks looks among are those of at most twice as many nodes as there are.
LEMMA NodeSeqsAre ==
  ASSUME NEW s
  PROVE  s \in NodeSeqs <=> s \in Seq(GraphNodes) /\ Len(s) \in 1..(2 * Cardinality(GraphNodes) - 1)
<1>1. Cardinality(GraphNodes) \in Nat
  BY WalksAssumption, FS_CardinalityType
<1>2. PICK top \in Int : top = 2 * Cardinality(GraphNodes) - 1
  BY <1>1
<1>3. ASSUME s \in NodeSeqs PROVE s \in Seq(GraphNodes) /\ Len(s) \in 1..top
  <2>1. PICK k \in 1..top : s \in [1..k -> GraphNodes]
    BY <1>2, <1>3 DEF NodeSeqs
  <2>2. s \in Seq(GraphNodes) /\ Len(s) = k
    BY <2>1
  <2> QED BY <2>2
<1>4. ASSUME s \in Seq(GraphNodes), Len(s) \in 1..top PROVE s \in NodeSeqs
  <2>1. s \in [1..Len(s) -> GraphNodes]
    BY <1>4
  <2> QED BY <1>2, <1>4, <2>1 DEF NodeSeqs
<1> QED BY <1>2, <1>3, <1>4

\* A walk among them, one that enters only U, one that meets M.
BoundedWalk(nb, a, b) ==
  \E s \in NodeSeqs : /\ s[1] = a /\ s[Len(s)] = b
                      /\ \A i \in 1..(Len(s) - 1) : s[i + 1] \in nb[s[i]]

BoundedAround(nb, U, a, b) ==
  \E s \in NodeSeqs : /\ s[1] = a /\ s[Len(s)] = b
                      /\ \A i \in 1..(Len(s) - 1) : s[i + 1] \in nb[s[i]]
                      /\ \A i \in 2..Len(s) : s[i] \in U

BoundedThrough(nb, M, a, b) ==
  \E s \in NodeSeqs : /\ s[1] = a /\ s[Len(s)] = b
                      /\ \A i \in 1..(Len(s) - 1) : s[i + 1] \in nb[s[i]]
                      /\ \E i \in 1..Len(s) : s[i] \in M

\* They are long enough: a walk between two nodes, or through a third, is among them.
LEMMA WalksAreBounded ==
  ASSUME NEW nb \in Adjacency, NEW a, NEW b
  PROVE  Walks(nb, a, b) # {} <=> BoundedWalk(nb, a, b)
<1>1. Cardinality(GraphNodes) \in Nat
  BY WalksAssumption, FS_CardinalityType
<1>2. ASSUME Walks(nb, a, b) # {}
      PROVE  BoundedWalk(nb, a, b)
  <2>1. PICK s \in Walks(nb, a, b) : Len(s) <= Cardinality(GraphNodes)
    BY <1>2, ShortWalk
  <2>2. s \in Seq(GraphNodes) /\ Len(s) > 0
    BY <2>1 DEF Walks
  <2>3. Len(s) \in 1..(2 * Cardinality(GraphNodes) - 1)
    BY <1>1, <2>1, <2>2
  <2>4. s \in NodeSeqs
    BY <2>2, <2>3, NodeSeqsAre
  <2> QED BY <2>1, <2>4 DEF Walks, BoundedWalk
<1>3. ASSUME NEW s \in NodeSeqs, s[1] = a, s[Len(s)] = b,
             \A i \in 1..(Len(s) - 1) : s[i + 1] \in nb[s[i]]
      PROVE  s \in Walks(nb, a, b)
  <2>1. s \in Seq(GraphNodes) /\ Len(s) > 0
    BY NodeSeqsAre
  <2> QED BY <1>3, <2>1 DEF Walks
<1> QED BY <1>2, <1>3 DEF BoundedWalk

\* Two adjacencies that are each other's converse.
Converse(nb, back) == \A n, m \in GraphNodes : m \in nb[n] <=> n \in back[m]

\* What a queue comes to hold is what a walk reaches, forward and back.
LEMMA SpreadIsReach ==
  ASSUME NEW nb \in Adjacency, NEW a \in GraphNodes
  PROVE  Spread(a, nb) = {b \in GraphNodes : Walks(nb, a, b) # {}}
<1> DEFINE T == {b \in GraphNodes : Walks(nb, a, b) # {}}
<1>1. /\ a \in Spread(a, nb) /\ Spread(a, nb) \in SUBSET GraphNodes
      /\ ClosedUnder(Spread(a, nb), nb)
  BY SpreadFacts
<1>2. a \in T
  BY StandStill
<1>3. ClosedUnder(T, nb)
  <2> SUFFICES ASSUME NEW b \in T, NEW c \in nb[b] PROVE c \in T
    BY DEF ClosedUnder
  <2>1. PICK s \in Walks(nb, a, b) : TRUE
    OBVIOUS
  <2>2. Append(s, c) \in Walks(nb, a, c)
    BY StepOn
  <2> QED BY <2>2 DEF Adjacency
<1>4. Spread(a, nb) \subseteq T
  <2>1. T \in SUBSET GraphNodes
    OBVIOUS
  <2> HIDE DEF T
  <2> QED BY <1>2, <1>3, <2>1, SpreadFacts
<1>5. ASSUME NEW b \in T PROVE b \in Spread(a, nb)
  <2>1. PICK s \in Walks(nb, a, b) : TRUE
    OBVIOUS
  <2>2. \A i \in 1..Len(s) : s[i] \in Spread(a, nb)
    BY <1>1, WalkStays
  <2>3. Len(s) \in 1..Len(s) /\ s[Len(s)] = b
    BY DEF Walks
  <2> QED BY <2>2, <2>3
<1> QED BY <1>4, <1>5

LEMMA StepBefore ==
  ASSUME NEW nb \in Adjacency, NEW a \in GraphNodes, NEW b \in nb[a], NEW c, Walks(nb, b, c) # {}
  PROVE  Walks(nb, a, c) # {}
<1>1. <<a>> \in Walks(nb, a, a)
  BY StandStill
<1>2. Append(<<a>>, b) \in Walks(nb, a, b)
  BY <1>1, StepOn
<1>3. PICK s : s \in Walks(nb, a, b)
  BY <1>2
<1>4. PICK r \in Walks(nb, b, c) : TRUE
  OBVIOUS
<1> QED BY <1>3, <1>4, Join

LEMMA SpreadBack ==
  ASSUME NEW nb \in Adjacency, NEW back \in Adjacency, Converse(nb, back), NEW b \in GraphNodes
  PROVE  Spread(b, back) = {a \in GraphNodes : Walks(nb, a, b) # {}}
<1> DEFINE T == {a \in GraphNodes : Walks(nb, a, b) # {}}
<1>1. /\ b \in Spread(b, back) /\ Spread(b, back) \in SUBSET GraphNodes
      /\ ClosedUnder(Spread(b, back), back)
  BY SpreadFacts
<1>2. b \in T
  BY StandStill
<1>3. ClosedUnder(T, back)
  <2> SUFFICES ASSUME NEW n \in T, NEW a \in back[n] PROVE a \in T
    BY DEF ClosedUnder
  <2>1. a \in GraphNodes /\ n \in GraphNodes /\ n \in nb[a]
    BY DEF Adjacency, Converse
  <2> QED BY <2>1, StepBefore
<1>4. Spread(b, back) \subseteq T
  <2>1. T \in SUBSET GraphNodes
    OBVIOUS
  <2> HIDE DEF T
  <2> QED BY <1>2, <1>3, <2>1, SpreadFacts
<1>5. ASSUME NEW a \in T PROVE a \in Spread(b, back)
  <2>1. PICK s \in Walks(nb, a, b) : TRUE
    OBVIOUS
  <2>2. ClosedBack(Spread(b, back), nb)
    BY <1>1 DEF ClosedBack, ClosedUnder, Converse
  <2>3. \A i \in 1..Len(s) : s[i] \in Spread(b, back)
    BY <1>1, <2>2, WalkCameFrom
  <2>4. 1 \in 1..Len(s) /\ s[1] = a
    BY DEF Walks
  <2> QED BY <2>3, <2>4
<1> QED BY <1>4, <1>5

\* A walk meets a member of M exactly when a member is reached from its start and reaches its end.
LEMMA ThroughIsMeeting ==
  ASSUME NEW nb \in Adjacency, NEW back \in Adjacency, Converse(nb, back),
         NEW a \in GraphNodes, NEW b \in GraphNodes, NEW M \in SUBSET GraphNodes
  PROVE  Spread(a, nb) \cap Spread(b, back) \cap M # {} <=> BoundedThrough(nb, M, a, b)
<1>1. Cardinality(GraphNodes) \in Nat
  BY WalksAssumption, FS_CardinalityType
<1>2. ASSUME NEW n \in Spread(a, nb) \cap Spread(b, back), n \in M
      PROVE  BoundedThrough(nb, M, a, b)
  <2>1. Walks(nb, a, n) # {} /\ Walks(nb, n, b) # {}
    BY SpreadIsReach, SpreadBack
  <2>2. PICK s \in Walks(nb, a, n) : Len(s) <= Cardinality(GraphNodes)
    BY <2>1, ShortWalk
  <2>3. PICK r \in Walks(nb, n, b) : Len(r) <= Cardinality(GraphNodes)
    BY <2>1, ShortWalk
  <2>4. PICK t \in Walks(nb, a, b) : Len(t) = Len(s) + Len(r) - 1 /\ \A k \in 1..Len(s) : t[k] = s[k]
    BY Join
  <2>5. Len(s) \in Nat /\ Len(r) \in Nat /\ Len(s) > 0 /\ Len(r) > 0 /\ s[Len(s)] = n
    BY DEF Walks
  <2>6. Len(t) \in 1..(2 * Cardinality(GraphNodes) - 1)
    BY <1>1, <2>2, <2>3, <2>4, <2>5
  <2>7. t \in NodeSeqs
    BY <2>6, NodeSeqsAre DEF Walks
  <2>8. Len(s) \in 1..Len(t) /\ t[Len(s)] = n
    BY <2>4, <2>5, <2>6
  <2> QED BY <1>2, <2>7, <2>8 DEF Walks, BoundedThrough
<1>3. ASSUME NEW s \in NodeSeqs, s[1] = a, s[Len(s)] = b,
             \A i \in 1..(Len(s) - 1) : s[i + 1] \in nb[s[i]],
             NEW i \in 1..Len(s), s[i] \in M
      PROVE  Spread(a, nb) \cap Spread(b, back) \cap M # {}
  <2>1. s \in Walks(nb, a, b)
    BY <1>3, NodeSeqsAre DEF Walks
  <2>2. /\ a \in Spread(a, nb) /\ Spread(a, nb) \in SUBSET GraphNodes
        /\ ClosedUnder(Spread(a, nb), nb)
        /\ b \in Spread(b, back) /\ Spread(b, back) \in SUBSET GraphNodes
        /\ ClosedUnder(Spread(b, back), back)
    BY SpreadFacts
  <2>3. ClosedBack(Spread(b, back), nb)
    BY <2>2 DEF ClosedBack, ClosedUnder, Converse
  <2>4. s[i] \in Spread(a, nb)
    BY <2>1, <2>2, WalkStays
  <2>5. s[i] \in Spread(b, back)
    BY <2>1, <2>2, <2>3, WalkCameFrom
  <2> QED BY <1>3, <2>4, <2>5
<1> QED BY <1>2, <1>3 DEF BoundedThrough

\* Only into nodes of U.
Into(nb, U) == [n \in GraphNodes |-> {m \in nb[n] : m \in U}]

LEMMA IntoIsAdjacency ==
  ASSUME NEW nb \in Adjacency, NEW U
  PROVE  Into(nb, U) \in Adjacency /\ \A n \in GraphNodes : Into(nb, U)[n] = {m \in nb[n] : m \in U}
BY DEF Adjacency, Into

\* A walk around what is outside U is a walk whose nodes after the first are in U.
LEMMA AroundIsInto ==
  ASSUME NEW nb \in Adjacency, NEW U, NEW a, NEW b
  PROVE  Walks(Into(nb, U), a, b) # {} <=> BoundedAround(nb, U, a, b)
<1>1. PICK into \in Adjacency : into = Into(nb, U)
  BY IntoIsAdjacency
<1>2. \A n \in GraphNodes : into[n] = {m \in nb[n] : m \in U}
  BY <1>1, IntoIsAdjacency
<1>3. ASSUME NEW s \in NodeSeqs
      PROVE  (\A i \in 1..(Len(s) - 1) : s[i + 1] \in into[s[i]]) <=>
               /\ \A i \in 1..(Len(s) - 1) : s[i + 1] \in nb[s[i]]
               /\ \A i \in 2..Len(s) : s[i] \in U
  <2>1. PICK l \in Nat : l = Len(s)
    BY NodeSeqsAre
  <2>2. \A i \in 1..l : s[i] \in GraphNodes
    BY <2>1, NodeSeqsAre
  <2>3. ASSUME NEW i \in 1..(l - 1)
        PROVE  s[i + 1] \in into[s[i]] <=> s[i + 1] \in nb[s[i]] /\ s[i + 1] \in U
    BY <1>2, <2>2
  <2>4. (\A i \in 2..l : s[i] \in U) <=> \A i \in 1..(l - 1) : s[i + 1] \in U
    <3>1. ASSUME \A i \in 1..(l - 1) : s[i + 1] \in U, NEW i \in 2..l PROVE s[i] \in U
      <4>1. PICK j \in 1..(l - 1) : j + 1 = i
        <5>1. i - 1 \in 1..(l - 1) /\ (i - 1) + 1 = i
          OBVIOUS
        <5> QED BY <5>1
      <4> QED BY <3>1, <4>1
    <3>2. ASSUME \A i \in 2..l : s[i] \in U, NEW i \in 1..(l - 1) PROVE s[i + 1] \in U
      BY <3>2
    <3> QED BY <3>1, <3>2
  <2> QED BY <2>1, <2>3, <2>4
<1>4. Walks(into, a, b) # {} <=> BoundedWalk(into, a, b)
  BY WalksAreBounded
<1> QED BY <1>1, <1>3, <1>4 DEF BoundedWalk, BoundedAround

\* Who reaches a node through U: the predecessors of what is spread backward within U, and the
\* node itself.
LEMMA UpstreamIsInto ==
  ASSUME NEW nb \in Adjacency, NEW back \in Adjacency, Converse(nb, back), NEW U, NEW b \in GraphNodes
  PROVE  LET open == IF b \notin U THEN {} ELSE Spread(b, Into(back, U))
         IN  {b} \cup UNION {back[n] : n \in open}
               = {n \in GraphNodes : n = b \/ Walks(Into(nb, U), n, b) # {}}
<1> DEFINE open == IF b \notin U THEN {} ELSE Spread(b, Into(back, U))
           found == {b} \cup UNION {back[n] : n \in open}
<1>1. PICK into \in Adjacency, from \in Adjacency : into = Into(nb, U) /\ from = Into(back, U)
  BY IntoIsAdjacency
<1>2. /\ \A n \in GraphNodes : into[n] = {m \in nb[n] : m \in U}
      /\ \A n \in GraphNodes : from[n] = {m \in back[n] : m \in U}
  BY <1>1, IntoIsAdjacency
<1> DEFINE good == {n \in GraphNodes : n \in U /\ Walks(into, n, b) # {}}
<1>3. open \subseteq good
  <2>1. CASE b \notin U
    BY <2>1
  <2>2. CASE b \in U
    <3>1. b \in good
      BY <2>2, StandStill
    <3>2. ClosedUnder(good, from)
      <4> SUFFICES ASSUME NEW n \in good, NEW p \in from[n] PROVE p \in good
        BY DEF ClosedUnder
      <4>1. p \in GraphNodes /\ p \in U /\ p \in back[n]
        BY <1>2 DEF Adjacency
      <4>2. n \in into[p]
        BY <1>2, <4>1 DEF Converse
      <4> QED BY <4>1, <4>2, StepBefore
    <3>3. good \in SUBSET GraphNodes
      OBVIOUS
    <3> HIDE DEF good
    <3>4. Spread(b, from) \subseteq good
      BY <3>1, <3>2, <3>3, SpreadFacts
    <3> QED BY <1>1, <2>2, <3>4
  <2> QED BY <2>1, <2>2
<1>4. open \subseteq GraphNodes /\ found \subseteq GraphNodes
  BY <1>3 DEF Adjacency
<1>5. ASSUME NEW n \in found, n # b PROVE Walks(into, n, b) # {}
  <2>1. PICK p \in open : n \in back[p]
    BY <1>5
  <2>2. p \in GraphNodes /\ p \in U /\ n \in GraphNodes /\ Walks(into, p, b) # {}
    BY <1>3, <1>4
  <2>3. p \in into[n]
    BY <1>2, <2>1, <2>2 DEF Converse
  <2> QED BY <2>2, <2>3, StepBefore
<1>6. ASSUME NEW n \in GraphNodes, NEW s \in Walks(into, n, b) PROVE n \in found
  <2>1. ClosedBack(found, into)
    <3> SUFFICES ASSUME NEW x \in GraphNodes, NEW y \in GraphNodes, y \in into[x], y \in found
                 PROVE  x \in found
      BY DEF ClosedBack
    <3>1. y \in U /\ x \in back[y]
      BY <1>2 DEF Converse
    <3>2. y \in open
      <4>1. CASE y = b
        <5>1. y \in Spread(y, from)
          BY SpreadFacts
        <5> QED BY <1>1, <3>1, <4>1, <5>1
      <4>2. CASE y # b
        <5>1. PICK p \in open : y \in back[p]
          BY <4>2
        <5>2. b \in U /\ p \in Spread(b, from) /\ p \in GraphNodes /\ y \in from[p]
          BY <1>1, <1>2, <1>4, <3>1, <5>1
        <5>3. ClosedUnder(Spread(b, from), from)
          BY SpreadFacts
        <5>4. y \in Spread(b, from)
          BY <5>2, <5>3 DEF ClosedUnder
        <5> QED BY <1>1, <5>2, <5>4
      <4> QED BY <4>1, <4>2
    <3> QED BY <3>1, <3>2
  <2>2. found \in SUBSET GraphNodes /\ b \in found
    BY <1>4
  <2> HIDE DEF found
  <2>3. \A i \in 1..Len(s) : s[i] \in found
    BY <2>1, <2>2, WalkCameFrom
  <2>4. 1 \in 1..Len(s) /\ s[1] = n
    BY DEF Walks
  <2> QED BY <2>3, <2>4
<1>7. found = {n \in GraphNodes : n = b \/ Walks(into, n, b) # {}}
  <2> HIDE DEF found
  <2>1. b \in found
    BY DEF found
  <2> QED BY <1>4, <1>5, <1>6, <2>1
<1> QED BY <1>1, <1>7

-----------------------------------------------------------------------------
\* The graph of an evaluation, as the walks read it.
LEMMA GraphFacts ==
  ASSUME gGraph \in Graphs
  PROVE  /\ Out \in Adjacency /\ In \in Adjacency /\ Converse(Out, In)
         /\ DataOut \in Adjacency /\ DataIn \in Adjacency /\ Converse(DataOut, DataIn)
         /\ \A n, m \in GraphNodes : m \in DataOut[n] <=> <<n, m>> \in DataPairs
<1>1. \A e \in gGraph.edges : e.from \in GraphNodes /\ e.to \in GraphNodes
  BY WalksAssumption
<1>2. Out \in Adjacency /\ In \in Adjacency
  BY <1>1 DEF Out, In, Adjacency
<1>3. Converse(Out, In)
  BY <1>1 DEF Converse, Out, In
<1>4. \A p \in DataPairs : p[1] \in GraphNodes /\ p[2] \in GraphNodes /\ p = <<p[1], p[2]>>
  BY <1>1 DEF DataPairs
<1>5. DataOut \in Adjacency /\ DataIn \in Adjacency
  BY <1>4 DEF DataOut, DataIn, Adjacency
<1>6. \A n, m \in GraphNodes : m \in DataOut[n] <=> <<n, m>> \in DataPairs
  BY <1>4 DEF DataOut
<1>7. \A n, m \in GraphNodes : n \in DataIn[m] <=> <<n, m>> \in DataPairs
  BY <1>4 DEF DataIn
<1> QED BY <1>2, <1>3, <1>5, <1>6, <1>7 DEF Converse

\* Each family of questions, answered without its cache.
ThroughType(from, to, types) ==
  IF from \in GraphNodes /\ to \in Spread(from, Out)
       /\ \E n \in Spread(from, Out) \cap Spread(to, In) : OfType(n, types)
  THEN {to} ELSE {}

\* What a cache of each family holds: the walk of every question that has its key.
HoldsSpreads(c, neighbours) == \A k \in DOMAIN c : c[k] = Spread(k, neighbours)

HoldsThrough(c) ==
  \A q \in Queries : q.ask = "pathThrough" /\ <<q.from, q.to, q.types>> \in DOMAIN c =>
    c[<<q.from, q.to, q.types>>] = ThroughType(q.from, q.to, q.types)

HoldsAvoiding(c) ==
  \A q \in Queries : q.ask \in {"pathAvoidingType", "pathAvoidingAttr"} /\ AvoidKey(q) \in DOMAIN c =>
    c[AvoidKey(q)] = AvoidingWalk(q)

HoldsUpstream(c) ==
  \A q \in Queries :
    q.ask \in {"upstreamAvoiding", "upstreamAvoidingFunctions"} /\ UpstreamKey(q) \in DOMAIN c =>
      c[UpstreamKey(q)] = UpstreamWalk(q)

HoldWalks(caches) ==
  /\ DOMAIN caches = {"fwd", "bwd", "dataFwd", "dataBwd", "path", "avoid", "upAvoid", "writers"}
  /\ HoldsSpreads(caches.fwd, Out)
  /\ HoldsSpreads(caches.bwd, In)
  /\ HoldsSpreads(caches.dataFwd, DataOut)
  /\ HoldsSpreads(caches.dataBwd, DataIn)
  /\ HoldsThrough(caches.path)
  /\ HoldsAvoiding(caches.avoid)
  /\ HoldsUpstream(caches.upAvoid)

CachesInv == gGraph \in Graphs /\ HoldWalks(gCaches)

\* What is promised of a question, as the lemmas above speak of walks.
LEMMA WalksPromised ==
  ASSUME gGraph \in Graphs, NEW a, NEW b
  PROVE  /\ SomeWalk(a, b, Along, LAMBDA s : TRUE) <=>
              a \in GraphNodes /\ b \in GraphNodes /\ Walks(Out, a, b) # {}
         /\ SomeWalk(a, b, DataAlong, LAMBDA s : TRUE) <=>
              a \in GraphNodes /\ b \in GraphNodes /\ Walks(DataOut, a, b) # {}
<1>1. PICK fore \in Adjacency : fore = Out
  BY GraphFacts
<1>2. PICK data \in Adjacency : /\ data = DataOut
                                /\ \A n, m \in GraphNodes : m \in data[n] <=> <<n, m>> \in DataPairs
  BY GraphFacts
<1>3. ASSUME NEW nb \in Adjacency
      PROVE  BoundedWalk(nb, a, b) <=> a \in GraphNodes /\ b \in GraphNodes /\ Walks(nb, a, b) # {}
  <2>1. \A s \in NodeSeqs : s[1] \in GraphNodes /\ s[Len(s)] \in GraphNodes
    BY NodeSeqsAre
  <2>2. Walks(nb, a, b) # {} <=> BoundedWalk(nb, a, b)
    BY WalksAreBounded
  <2> QED BY <2>1, <2>2 DEF BoundedWalk
<1>4. SomeWalk(a, b, Along, LAMBDA s : TRUE) <=> BoundedWalk(fore, a, b)
  BY <1>1 DEF SomeWalk, IsWalk, Along, BoundedWalk
<1>5. SomeWalk(a, b, DataAlong, LAMBDA s : TRUE) <=> BoundedWalk(data, a, b)
  <2>1. \A s \in NodeSeqs : \A i \in 1..(Len(s) - 1) : s[i] \in GraphNodes /\ s[i + 1] \in GraphNodes
    BY NodeSeqsAre
  <2>2. \A s \in NodeSeqs :
          (\A i \in 1..(Len(s) - 1) : s[i + 1] \in data[s[i]])
            <=> (\A i \in 1..(Len(s) - 1) : <<s[i], s[i + 1]>> \in DataPairs)
    BY <1>2, <2>1
  <2> QED BY <2>2 DEF SomeWalk, IsWalk, DataAlong, BoundedWalk
<1> QED BY <1>1, <1>2, <1>3, <1>4, <1>5

\* The nodes a question may enter.
Free(q) == {n \in GraphNodes : ~Blocked(n, q)}

LEMMA AroundPromised ==
  ASSUME gGraph \in Graphs, NEW a, NEW b, NEW q
  PROVE  Around(a, b, q) <=> a \in GraphNodes /\ b \in GraphNodes /\ Walks(Into(Out, Free(q)), a, b) # {}
<1>1. PICK fore \in Adjacency : fore = Out
  BY GraphFacts
<1>2. PICK U : U = Free(q)
  OBVIOUS
<1>3. \A s \in NodeSeqs : \A i \in 1..Len(s) : s[i] \in GraphNodes
  BY NodeSeqsAre
<1>4. \A s \in NodeSeqs : Len(s) \in Nat /\ s[1] \in GraphNodes /\ s[Len(s)] \in GraphNodes
  BY NodeSeqsAre
<1>5. \A s \in NodeSeqs : (\A i \in 2..Len(s) : ~Blocked(s[i], q)) <=> \A i \in 2..Len(s) : s[i] \in U
  BY <1>2, <1>3, <1>4 DEF Free
<1>6. Around(a, b, q) <=> BoundedAround(fore, U, a, b)
  BY <1>1, <1>5 DEF Around, SomeWalk, IsWalk, Along, BoundedAround
<1>7. Walks(Into(fore, U), a, b) # {} <=> BoundedAround(fore, U, a, b)
  BY AroundIsInto
<1>8. BoundedAround(fore, U, a, b) => a \in GraphNodes /\ b \in GraphNodes
  BY <1>4 DEF BoundedAround
<1> QED BY <1>1, <1>2, <1>6, <1>7, <1>8

\* The code's walks give what is promised.
LEMMA PlainAnswers ==
  ASSUME gGraph \in Graphs, NEW q
  PROVE  /\ q.ask = "reachable" =>
              Promised(q) = IF q.from \in GraphNodes THEN Ifto(q, Spread(q.from, Out)) ELSE {}
         /\ q.ask = "dataFlows" =>
              Promised(q) = IF q.from \in GraphNodes THEN Ifto(q, Spread(q.from, DataOut)) ELSE {}
         /\ q.ask = "dataSources" =>
              Promised(q) = IF q.to \in GraphNodes
                            THEN {n \in Spread(q.to, DataIn) \ {q.to} : q.attr \in {"", gGraph.node[n].layer}}
                            ELSE {}
<1>1. PICK fore \in Adjacency : fore = Out
  BY GraphFacts
<1>2. PICK data \in Adjacency, back \in Adjacency : data = DataOut /\ back = DataIn /\ Converse(data, back)
  BY GraphFacts
<1>3. ASSUME q.ask = "reachable"
      PROVE  Promised(q) = IF q.from \in GraphNodes THEN Ifto(q, Spread(q.from, Out)) ELSE {}
  <2>1. Promised(q) = {n \in {q.to} : SomeWalk(q.from, n, Along, LAMBDA s : TRUE)}
    BY <1>3 DEF Promised
  <2>2. CASE q.from \notin GraphNodes
    BY <2>1, <2>2, WalksPromised
  <2>3. CASE q.from \in GraphNodes
    <3>1. Spread(q.from, fore) = {b \in GraphNodes : Walks(fore, q.from, b) # {}}
      BY <2>3, SpreadIsReach
    <3> QED BY <1>1, <2>1, <2>3, <3>1, WalksPromised DEF Ifto
  <2> QED BY <2>2, <2>3
<1>4. ASSUME q.ask = "dataFlows"
      PROVE  Promised(q) = IF q.from \in GraphNodes THEN Ifto(q, Spread(q.from, DataOut)) ELSE {}
  <2>1. Promised(q) = {n \in {q.to} : SomeWalk(q.from, n, DataAlong, LAMBDA s : TRUE)}
    BY <1>4 DEF Promised
  <2>2. CASE q.from \notin GraphNodes
    BY <2>1, <2>2, WalksPromised
  <2>3. CASE q.from \in GraphNodes
    <3>1. Spread(q.from, data) = {b \in GraphNodes : Walks(data, q.from, b) # {}}
      BY <2>3, SpreadIsReach
    <3> QED BY <1>2, <2>1, <2>3, <3>1, WalksPromised DEF Ifto
  <2> QED BY <2>2, <2>3
<1>5. ASSUME q.ask = "dataSources"
      PROVE  Promised(q) = IF q.to \in GraphNodes
                           THEN {n \in Spread(q.to, DataIn) \ {q.to} : q.attr \in {"", gGraph.node[n].layer}}
                           ELSE {}
  <2>1. Promised(q) = {n \in GraphNodes \ {q.to} :
                         /\ q.attr \in {"", gGraph.node[n].layer}
                         /\ SomeWalk(n, q.to, DataAlong, LAMBDA s : TRUE)}
    BY <1>5 DEF Promised
  <2>2. \A n : SomeWalk(n, q.to, DataAlong, LAMBDA s : TRUE) <=>
                 n \in GraphNodes /\ q.to \in GraphNodes /\ Walks(data, n, q.to) # {}
    BY <1>2, WalksPromised
  <2>3. CASE q.to \notin GraphNodes
    BY <2>1, <2>2, <2>3
  <2>4. CASE q.to \in GraphNodes
    <3>1. Spread(q.to, back) = {a \in GraphNodes : Walks(data, a, q.to) # {}}
      BY <1>2, <2>4, SpreadBack
    <3> QED BY <1>2, <2>1, <2>2, <2>4, <3>1
  <2> QED BY <2>3, <2>4
<1> QED BY <1>3, <1>4, <1>5

LEMMA ThroughAnswers ==
  ASSUME gGraph \in Graphs, NEW q, q.ask = "pathThrough"
  PROVE  Promised(q) = ThroughType(q.from, q.to, q.types)
<1>1. PICK fore \in Adjacency, back \in Adjacency : fore = Out /\ back = In /\ Converse(fore, back)
  BY GraphFacts
<1>2. PICK M \in SUBSET GraphNodes : M = {n \in GraphNodes : OfType(n, q.types)}
  OBVIOUS
<1>3. \A s \in NodeSeqs : s[1] \in GraphNodes /\ s[Len(s)] \in GraphNodes /\ Len(s) \in 1..Len(s)
  BY NodeSeqsAre
<1>4. \A s \in NodeSeqs : (\E i \in 1..Len(s) : OfType(s[i], q.types)) <=> \E i \in 1..Len(s) : s[i] \in M
  <2>1. \A s \in NodeSeqs : \A i \in 1..Len(s) : s[i] \in GraphNodes
    BY NodeSeqsAre
  <2> QED BY <1>2, <2>1
<1> DEFINE meets(n) == SomeWalk(q.from, n, Along, LAMBDA s : \E i \in 1..Len(s) : OfType(s[i], q.types))
<1>5. \A n : meets(n) <=> BoundedThrough(fore, M, q.from, n)
  BY <1>1, <1>4 DEF SomeWalk, IsWalk, Along, BoundedThrough
<1>6. Promised(q) = {n \in {q.to} : meets(n)}
  BY DEF Promised
<1> HIDE DEF meets
<1>7. CASE q.from \in GraphNodes /\ q.to \in GraphNodes
  <2>1. PICK a \in GraphNodes, b \in GraphNodes : a = q.from /\ b = q.to
    BY <1>7
  <2>2. Spread(a, fore) \cap Spread(b, back) \cap M # {} <=> BoundedThrough(fore, M, a, b)
    BY <1>1, ThroughIsMeeting
  <2>3. meets(b) <=> \E n \in Spread(a, fore) \cap Spread(b, back) : n \in M
    BY <1>5, <2>1, <2>2
  <2>4. Spread(a, fore) \subseteq GraphNodes
    BY SpreadFacts
  <2>5. meets(b) <=> \E n \in Spread(a, fore) \cap Spread(b, back) : OfType(n, q.types)
    BY <1>2, <2>3, <2>4
  <2>6. meets(b) => b \in Spread(a, fore)
    <3>1. ASSUME meets(b) PROVE Walks(fore, a, b) # {}
      <4>1. BoundedWalk(fore, a, b)
        BY <1>5, <2>1, <3>1 DEF BoundedThrough, BoundedWalk
      <4> QED BY <4>1, WalksAreBounded
    <3> QED BY <3>1, SpreadIsReach
  <2> QED BY <1>1, <1>6, <1>7, <2>1, <2>5, <2>6 DEF ThroughType
<1>8. CASE ~(q.from \in GraphNodes /\ q.to \in GraphNodes)
  <2>1. ~meets(q.to)
    BY <1>3, <1>5, <1>8 DEF BoundedThrough
  <2>2. q.from \in GraphNodes => q.to \notin Spread(q.from, Out)
    <3>1. q.from \in GraphNodes => Spread(q.from, fore) \subseteq GraphNodes
      BY SpreadFacts
    <3> QED BY <1>1, <1>8, <3>1
  <2> QED BY <1>6, <2>1, <2>2 DEF ThroughType
<1> QED BY <1>7, <1>8

LEMMA AvoidingAnswers ==
  ASSUME gGraph \in Graphs, NEW q, q.ask \in {"pathAvoidingType", "pathAvoidingAttr"}
  PROVE  Promised(q) = IF q.from \in GraphNodes THEN Ifto(q, AvoidingWalk(q)) ELSE {}
<1>1. Promised(q) = {n \in {q.to} : Around(q.from, n, q)}
  BY DEF Promised
<1>2. CASE q.from \notin GraphNodes
  BY <1>1, <1>2, AroundPromised
<1>3. CASE q.from \in GraphNodes
  <2>1. PICK fore \in Adjacency, U \in {Free(q)} : fore = Out
    BY GraphFacts
  <2>2. PICK into \in Adjacency : into = Into(fore, U)
    BY IntoIsAdjacency
  <2>3. AvoidingWalk(q) = Spread(q.from, into)
    <3>1. [n \in GraphNodes |-> {m \in Out[n] : ~Blocked(m, q)}] = Into(Out, Free(q))
      <4>1. \A n \in GraphNodes : {m \in Out[n] : ~Blocked(m, q)} = {m \in Out[n] : m \in Free(q)}
        <5>1. \A n \in GraphNodes : Out[n] \subseteq GraphNodes
          BY GraphFacts DEF Adjacency
        <5> QED BY <5>1 DEF Free
      <4> QED BY <4>1 DEF Into
    <3> QED BY <2>1, <2>2, <3>1 DEF AvoidingWalk
  <2>4. Spread(q.from, into) = {b \in GraphNodes : Walks(into, q.from, b) # {}}
    BY <1>3, SpreadIsReach
  <2>5. Around(q.from, q.to, q) <=> q.to \in GraphNodes /\ Walks(into, q.from, q.to) # {}
    BY <1>3, <2>1, <2>2, AroundPromised
  <2> QED BY <1>1, <1>3, <2>3, <2>4, <2>5 DEF Ifto
<1> QED BY <1>2, <1>3

LEMMA UpstreamAnswers ==
  ASSUME gGraph \in Graphs, NEW q,
         q.ask \in {"upstreamAvoidingAttr", "upstreamAvoiding", "upstreamAvoidingFunctions"}
  PROVE  Promised(q) = IF q.to \in GraphNodes THEN UpstreamWalk(q) ELSE {}
<1>1. Promised(q) = {n \in GraphNodes : n = q.to \/ Around(n, q.to, q)}
  BY DEF Promised
<1>2. CASE q.to \notin GraphNodes
  BY <1>1, <1>2, AroundPromised
<1>3. CASE q.to \in GraphNodes
  <2>1. PICK fore \in Adjacency, back \in Adjacency, U \in {Free(q)} :
          fore = Out /\ back = In /\ Converse(fore, back) /\ U = Free(q)
    BY GraphFacts
  <2>2. PICK b \in GraphNodes : b = q.to
    BY <1>3
  <2> DEFINE open == IF b \notin U THEN {} ELSE Spread(b, Into(back, U))
  <2>3. {b} \cup UNION {back[n] : n \in open}
          = {n \in GraphNodes : n = b \/ Walks(Into(fore, U), n, b) # {}}
    BY <2>1, UpstreamIsInto
  <2>4. UpstreamWalk(q) = {b} \cup UNION {back[n] : n \in open}
    <3>1. [n \in GraphNodes |-> {p \in In[n] : ~Blocked(p, q)}] = Into(In, Free(q))
      <4>1. \A n \in GraphNodes : {p \in In[n] : ~Blocked(p, q)} = {p \in In[n] : p \in Free(q)}
        <5>1. \A n \in GraphNodes : In[n] \subseteq GraphNodes
          BY GraphFacts DEF Adjacency
        <5> QED BY <5>1 DEF Free
      <4> QED BY <4>1 DEF Into
    <3>2. Blocked(b, q) <=> b \notin U
      BY <2>1 DEF Free
    <3> QED BY <2>1, <2>2, <3>1, <3>2 DEF UpstreamWalk
  <2>5. \A n : Around(n, q.to, q) <=> n \in GraphNodes /\ Walks(Into(fore, U), n, b) # {}
    BY <2>1, <2>2, AroundPromised
  <2> QED BY <1>1, <1>3, <2>2, <2>3, <2>4, <2>5
<1> QED BY <1>2, <1>3

\* The inductive invariant: the caches, and the latest answer.
GraphInv ==
  /\ CachesInv
  /\ gAnswer # << >> =>
       \E q \in Queries :
         gAnswer = <<q, gAnswer[2]>> /\ (q.ask # "writersInto" => gAnswer[2] = Promised(q))

\* What is promised of a question depends on the graph alone.
LEMMA PromisedUnchanged ==
  ASSUME UNCHANGED gGraph, NEW q
  PROVE  Promised(q)' = Promised(q)
<1>1. gGraph' = gGraph
  OBVIOUS
<1>2. Out' = Out /\ DataPairs' = DataPairs
  BY <1>1 DEF Out, DataPairs
<1>3. \A n : Blocked(n, q)' = Blocked(n, q) /\ \A types : OfType(n, types)' = OfType(n, types)
  BY <1>1 DEF Blocked, OfType, Attributes, BlockedByControl, BlockedByFunctions, OfKind
<1>4. \A a, b : Around(a, b, q)' = Around(a, b, q)
  BY <1>2, <1>3 DEF Around, SomeWalk, IsWalk, Along
<1>5. \A a, b : SomeWalk(a, b, Along, LAMBDA s : TRUE)' = SomeWalk(a, b, Along, LAMBDA s : TRUE)
  BY <1>2 DEF SomeWalk, IsWalk, Along
<1>6. \A a, b : SomeWalk(a, b, DataAlong, LAMBDA s : TRUE)' = SomeWalk(a, b, DataAlong, LAMBDA s : TRUE)
  BY <1>2 DEF SomeWalk, IsWalk, DataAlong
<1>7. \A a, b : SomeWalk(a, b, Along, LAMBDA s : \E i \in 1..Len(s) : OfType(s[i], q.types))'
                 = SomeWalk(a, b, Along, LAMBDA s : \E i \in 1..Len(s) : OfType(s[i], q.types))
  BY <1>2, <1>3 DEF SomeWalk, IsWalk, Along
<1> QED
  BY <1>1, <1>4, <1>5, <1>6, <1>7 DEF Promised

\* A question answered as promised, over caches that stay true, keeps the invariant.
LEMMA AnswerStep ==
  ASSUME GraphInv, NEW q \in Queries, NEW nodes, Answer(q, nodes),
         q.ask # "writersInto" => nodes = Promised(q), CachesInv'
  PROVE  GraphInv'
<1>1. gAnswer' = <<q, nodes>> /\ gGraph' = gGraph
  BY DEF Answer
<1>2. Promised(q)' = Promised(q)
  BY <1>1, PromisedUnchanged
<1> QED BY <1>1, <1>2 DEF GraphInv

\* What the walks of a graph are is the same after a step, since the graph is.
LEMMA WalksUnchanged ==
  ASSUME UNCHANGED gGraph
  PROVE  /\ \A k : /\ Spread(k, Out)' = Spread(k, Out) /\ Spread(k, In)' = Spread(k, In)
                   /\ Spread(k, DataOut)' = Spread(k, DataOut) /\ Spread(k, DataIn)' = Spread(k, DataIn)
         /\ \A a, b, types : ThroughType(a, b, types)' = ThroughType(a, b, types)
         /\ \A q : AvoidingWalk(q)' = AvoidingWalk(q) /\ UpstreamWalk(q)' = UpstreamWalk(q)
<1>1. Out' = Out /\ In' = In /\ DataPairs' = DataPairs
  BY DEF Out, In, DataPairs
<1>2. DataOut' = DataOut /\ DataIn' = DataIn
  BY <1>1 DEF DataOut, DataIn
<1>3. \A n, types : OfType(n, types)' = OfType(n, types)
  BY DEF OfType
<1>4. \A n, q : Blocked(n, q)' = Blocked(n, q)
  BY <1>3 DEF Blocked, Attributes, BlockedByControl, BlockedByFunctions, OfKind, OfType
<1>5. \A k : /\ Spread(k, Out)' = Spread(k, Out) /\ Spread(k, In)' = Spread(k, In)
             /\ Spread(k, DataOut)' = Spread(k, DataOut) /\ Spread(k, DataIn)' = Spread(k, DataIn)
  BY <1>1, <1>2 DEF Spread
<1>6. \A a, b, types : ThroughType(a, b, types)' = ThroughType(a, b, types)
  BY <1>3, <1>5 DEF ThroughType
<1>7. \A q : AvoidingWalk(q)' = AvoidingWalk(q)
  BY <1>1, <1>4 DEF AvoidingWalk
<1>8. \A q : UpstreamWalk(q)' = UpstreamWalk(q)
  BY <1>1, <1>4 DEF UpstreamWalk
<1> QED BY <1>5, <1>6, <1>7, <1>8

\* Caches that hold the walks of the graph hold them after a step too.
LEMMA CachesStep ==
  ASSUME UNCHANGED gGraph, gGraph \in Graphs, HoldWalks(gCaches')
  PROVE  CachesInv'
<1>1. HoldsSpreads(gCaches.fwd, Out)' /\ HoldsSpreads(gCaches.bwd, In)'
  BY WalksUnchanged DEF HoldWalks, HoldsSpreads
<1>2. HoldsSpreads(gCaches.dataFwd, DataOut)' /\ HoldsSpreads(gCaches.dataBwd, DataIn)'
  BY WalksUnchanged DEF HoldWalks, HoldsSpreads
<1>3. HoldsThrough(gCaches.path)'
  BY WalksUnchanged DEF HoldWalks, HoldsThrough
<1>4. HoldsAvoiding(gCaches.avoid)'
  BY WalksUnchanged DEF HoldWalks, HoldsAvoiding, AvoidKey
<1>5. HoldsUpstream(gCaches.upAvoid)'
  BY WalksUnchanged DEF HoldWalks, HoldsUpstream, UpstreamKey
<1>6. (DOMAIN gCaches = {"fwd", "bwd", "dataFwd", "dataBwd", "path", "avoid", "upAvoid", "writers"})'
  BY DEF HoldWalks
<1> QED BY <1>1, <1>2, <1>3, <1>4, <1>5, <1>6 DEF CachesInv, HoldWalks

\* A cache of plain walks that keeps one more.
LEMMA KeptSpreads ==
  ASSUME NEW c, NEW key, NEW neighbours, HoldsSpreads(c, neighbours)
  PROVE  /\ HoldsSpreads(Kept(c, key, Spread(key, neighbours)), neighbours)
         /\ Kept(c, key, Spread(key, neighbours))[key] = Spread(key, neighbours)
BY DEF HoldsSpreads, Kept

\* A question about an absent node.
LEMMA NothingStep ==
  ASSUME GraphInv, NEW q \in Queries, Nothing(q), Promised(q) = {}
  PROVE  GraphInv'
<1>1. gCaches' = gCaches /\ gGraph' = gGraph /\ Answer(q, {})
  BY DEF Nothing, Answer
<1>2. CachesInv'
  BY <1>1, CachesStep DEF GraphInv, CachesInv
<1> QED BY <1>1, <1>2, AnswerStep

LEMMA ReachableStep ==
  ASSUME GraphInv, NEW q \in Queries, Reachable(q)
  PROVE  GraphInv'
<1>1. CASE ~Known(q, "from")
  BY <1>1, NothingStep, PlainAnswers DEF Reachable, Known, GraphInv, CachesInv
<1>2. CASE Known(q, "from")
  <2> DEFINE fwd == Kept(gCaches.fwd, q.from, Spread(q.from, Out))
  <2>1. gCaches' = [gCaches EXCEPT !.fwd = fwd] /\ Answer(q, Ifto(q, fwd[q.from]))
    BY <1>2 DEF Reachable
  <2>2. gGraph' = gGraph
    BY <2>1 DEF Answer
  <2>3. HoldsSpreads(fwd, Out) /\ fwd[q.from] = Spread(q.from, Out)
    BY KeptSpreads DEF GraphInv, CachesInv, HoldWalks
  <2> HIDE DEF fwd
  <2>4. HoldWalks(gCaches')
    BY <2>1, <2>3 DEF GraphInv, CachesInv, HoldWalks
  <2>5. Ifto(q, fwd[q.from]) = Promised(q)
    BY <1>2, <2>3, PlainAnswers DEF Known, Reachable, GraphInv, CachesInv
  <2>6. CachesInv'
    BY <2>2, <2>4, CachesStep DEF GraphInv, CachesInv
  <2> QED BY <2>1, <2>5, <2>6, AnswerStep
<1> QED BY <1>1, <1>2

LEMMA DataFlowsStep ==
  ASSUME GraphInv, NEW q \in Queries, DataFlows(q)
  PROVE  GraphInv'
<1>1. CASE ~Known(q, "from")
  BY <1>1, NothingStep, PlainAnswers DEF DataFlows, Known, GraphInv, CachesInv
<1>2. CASE Known(q, "from")
  <2> DEFINE dataFwd == Kept(gCaches.dataFwd, q.from, Spread(q.from, DataOut))
  <2>1. gCaches' = [gCaches EXCEPT !.dataFwd = dataFwd] /\ Answer(q, Ifto(q, dataFwd[q.from]))
    BY <1>2 DEF DataFlows
  <2>2. gGraph' = gGraph
    BY <2>1 DEF Answer
  <2>3. HoldsSpreads(dataFwd, DataOut) /\ dataFwd[q.from] = Spread(q.from, DataOut)
    BY KeptSpreads DEF GraphInv, CachesInv, HoldWalks
  <2> HIDE DEF dataFwd
  <2>4. HoldWalks(gCaches')
    BY <2>1, <2>3 DEF GraphInv, CachesInv, HoldWalks
  <2>5. Ifto(q, dataFwd[q.from]) = Promised(q)
    BY <1>2, <2>3, PlainAnswers DEF Known, DataFlows, GraphInv, CachesInv
  <2>6. CachesInv'
    BY <2>2, <2>4, CachesStep DEF GraphInv, CachesInv
  <2> QED BY <2>1, <2>5, <2>6, AnswerStep
<1> QED BY <1>1, <1>2

LEMMA DataSourcesStep ==
  ASSUME GraphInv, NEW q \in Queries, DataSources(q)
  PROVE  GraphInv'
<1>1. CASE ~Known(q, "to")
  BY <1>1, NothingStep, PlainAnswers DEF DataSources, Known, GraphInv, CachesInv
<1>2. CASE Known(q, "to")
  <2> DEFINE dataBwd == Kept(gCaches.dataBwd, q.to, Spread(q.to, DataIn))
             sources == {n \in dataBwd[q.to] \ {q.to} : q.attr \in {"", gGraph.node[n].layer}}
  <2>1. gCaches' = [gCaches EXCEPT !.dataBwd = dataBwd] /\ Answer(q, sources)
    BY <1>2 DEF DataSources
  <2>2. gGraph' = gGraph
    BY <2>1 DEF Answer
  <2>3. HoldsSpreads(dataBwd, DataIn) /\ dataBwd[q.to] = Spread(q.to, DataIn)
    BY KeptSpreads DEF GraphInv, CachesInv, HoldWalks
  <2> HIDE DEF dataBwd
  <2>4. HoldWalks(gCaches')
    BY <2>1, <2>3 DEF GraphInv, CachesInv, HoldWalks
  <2>5. sources = Promised(q)
    BY <1>2, <2>3, PlainAnswers DEF Known, DataSources, GraphInv, CachesInv
  <2>6. CachesInv'
    BY <2>2, <2>4, CachesStep DEF GraphInv, CachesInv
  <2> QED BY <2>1, <2>5, <2>6, AnswerStep
<1> QED BY <1>1, <1>2

\* Two questions that share a key of a cache ask for the same walk.
LEMMA AvoidKeyTells ==
  ASSUME NEW q \in Queries, q.ask \in {"pathAvoidingType", "pathAvoidingAttr"},
         NEW r \in Queries, r.ask \in {"pathAvoidingType", "pathAvoidingAttr"},
         AvoidKey(r) = AvoidKey(q)
  PROVE  AvoidingWalk(r) = AvoidingWalk(q)
<1>1. r.from = q.from /\ r.ask = q.ask
  BY DEF AvoidKey
<1>2. \A n : Blocked(n, r) <=> Blocked(n, q)
  <2>1. CASE q.ask = "pathAvoidingType"
    <3>1. PICK t, u : q.types = {t} /\ r.types = {u}
      BY <1>1, <2>1, WalksAssumption
    <3>2. t = u
      BY <1>1, <2>1, <3>1 DEF AvoidKey
    <3> QED BY <1>1, <2>1, <3>1, <3>2 DEF Blocked
  <2>2. CASE q.ask = "pathAvoidingAttr"
    <3>1. r.attr = q.attr
      BY <1>1, <2>2 DEF AvoidKey
    <3> QED BY <1>1, <2>2, <3>1 DEF Blocked
  <2> QED BY <2>1, <2>2
<1> QED BY <1>1, <1>2 DEF AvoidingWalk

LEMMA UpstreamKeyTells ==
  ASSUME NEW q, NEW r, UpstreamKey(r) = UpstreamKey(q)
  PROVE  UpstreamWalk(r) = UpstreamWalk(q)
<1>1. /\ r.to = q.to /\ r.types = q.types /\ r.kinds = q.kinds
      /\ r.more = q.more /\ r.attr = q.attr /\ r.ask = q.ask
  BY DEF UpstreamKey
<1>2. \A n : Blocked(n, r) <=> Blocked(n, q)
  BY <1>1 DEF Blocked, BlockedByControl, BlockedByFunctions
<1> QED BY <1>1, <1>2 DEF UpstreamWalk

\* A cache of keyed walks that keeps one more.
LEMMA KeptAvoiding ==
  ASSUME NEW c, HoldsAvoiding(c), NEW q \in Queries, q.ask \in {"pathAvoidingType", "pathAvoidingAttr"}
  PROVE  /\ HoldsAvoiding(Kept(c, AvoidKey(q), AvoidingWalk(q)))
         /\ Kept(c, AvoidKey(q), AvoidingWalk(q))[AvoidKey(q)] = AvoidingWalk(q)
<1>1. \A r \in Queries : r.ask \in {"pathAvoidingType", "pathAvoidingAttr"} /\ AvoidKey(r) = AvoidKey(q) =>
        AvoidingWalk(r) = AvoidingWalk(q)
  BY AvoidKeyTells
<1> QED BY <1>1 DEF HoldsAvoiding, Kept

LEMMA KeptUpstream ==
  ASSUME NEW c, HoldsUpstream(c), NEW q \in Queries, q.ask \in {"upstreamAvoiding", "upstreamAvoidingFunctions"}
  PROVE  /\ HoldsUpstream(Kept(c, UpstreamKey(q), UpstreamWalk(q)))
         /\ Kept(c, UpstreamKey(q), UpstreamWalk(q))[UpstreamKey(q)] = UpstreamWalk(q)
<1>1. \A r \in Queries : UpstreamKey(r) = UpstreamKey(q) => UpstreamWalk(r) = UpstreamWalk(q)
  BY UpstreamKeyTells
<1> QED BY <1>1 DEF HoldsUpstream, Kept

LEMMA PathAvoidingStep ==
  ASSUME GraphInv, NEW q \in Queries, PathAvoiding(q)
  PROVE  GraphInv'
<1>1. CASE ~Known(q, "from")
  BY <1>1, NothingStep, AvoidingAnswers DEF PathAvoiding, Known, GraphInv, CachesInv
<1>2. CASE Known(q, "from")
  <2> DEFINE avoid == Kept(gCaches.avoid, AvoidKey(q), AvoidingWalk(q))
  <2>1. gCaches' = [gCaches EXCEPT !.avoid = avoid] /\ Answer(q, Ifto(q, avoid[AvoidKey(q)]))
    BY <1>2 DEF PathAvoiding
  <2>2. gGraph' = gGraph /\ q.ask \in {"pathAvoidingType", "pathAvoidingAttr"}
    BY <2>1 DEF Answer, PathAvoiding
  <2>3. HoldsAvoiding(avoid) /\ avoid[AvoidKey(q)] = AvoidingWalk(q)
    BY <2>2, KeptAvoiding DEF GraphInv, CachesInv, HoldWalks
  <2> HIDE DEF avoid
  <2>4. HoldWalks(gCaches')
    BY <2>1, <2>3 DEF GraphInv, CachesInv, HoldWalks
  <2>5. Ifto(q, avoid[AvoidKey(q)]) = Promised(q)
    BY <1>2, <2>2, <2>3, AvoidingAnswers DEF Known, GraphInv, CachesInv
  <2>6. CachesInv'
    BY <2>2, <2>4, CachesStep DEF GraphInv, CachesInv
  <2> QED BY <2>1, <2>5, <2>6, AnswerStep
<1> QED BY <1>1, <1>2

LEMMA UpstreamAvoidingStep ==
  ASSUME GraphInv, NEW q \in Queries, UpstreamAvoiding(q)
  PROVE  GraphInv'
<1>1. CASE ~Known(q, "to")
  BY <1>1, NothingStep, UpstreamAnswers DEF UpstreamAvoiding, Known, GraphInv, CachesInv
<1>2. CASE Known(q, "to")
  <2> DEFINE upAvoid == Kept(gCaches.upAvoid, UpstreamKey(q), UpstreamWalk(q))
  <2>1. gCaches' = [gCaches EXCEPT !.upAvoid = upAvoid] /\ Answer(q, upAvoid[UpstreamKey(q)])
    BY <1>2 DEF UpstreamAvoiding
  <2>2. gGraph' = gGraph /\ q.ask \in {"upstreamAvoiding", "upstreamAvoidingFunctions"}
    BY <2>1 DEF Answer, UpstreamAvoiding
  <2>3. HoldsUpstream(upAvoid) /\ upAvoid[UpstreamKey(q)] = UpstreamWalk(q)
    BY <2>2, KeptUpstream DEF GraphInv, CachesInv, HoldWalks
  <2> HIDE DEF upAvoid
  <2>4. HoldWalks(gCaches')
    BY <2>1, <2>3 DEF GraphInv, CachesInv, HoldWalks
  <2>5. upAvoid[UpstreamKey(q)] = Promised(q)
    BY <1>2, <2>2, <2>3, UpstreamAnswers DEF Known, GraphInv, CachesInv
  <2>6. CachesInv'
    BY <2>2, <2>4, CachesStep DEF GraphInv, CachesInv
  <2> QED BY <2>1, <2>5, <2>6, AnswerStep
<1> QED BY <1>1, <1>2

LEMMA UpstreamAvoidingAttrStep ==
  ASSUME GraphInv, NEW q \in Queries, UpstreamAvoidingAttr(q)
  PROVE  GraphInv'
<1>1. q.ask = "upstreamAvoidingAttr"
  BY DEF UpstreamAvoidingAttr
<1>2. CASE ~Known(q, "to")
  BY <1>1, <1>2, NothingStep, UpstreamAnswers DEF UpstreamAvoidingAttr, Known, GraphInv, CachesInv
<1>3. CASE Known(q, "to")
  <2>1. gCaches' = gCaches /\ Answer(q, UpstreamWalk(q)) /\ gGraph' = gGraph
    BY <1>3 DEF UpstreamAvoidingAttr, Answer
  <2>2. UpstreamWalk(q) = Promised(q)
    BY <1>1, <1>3, UpstreamAnswers DEF Known, GraphInv, CachesInv
  <2>3. CachesInv'
    BY <2>1, CachesStep DEF GraphInv, CachesInv
  <2> QED BY <2>1, <2>2, <2>3, AnswerStep
<1> QED BY <1>2, <1>3

LEMMA WritersIntoStep ==
  ASSUME GraphInv, NEW q \in Queries, WritersInto(q)
  PROVE  GraphInv'
<1>1. PICK writers : gCaches' = [gCaches EXCEPT !.writers = writers] /\ Answer(q, writers[q.types])
  BY DEF WritersInto
<1>2. gGraph' = gGraph /\ q.ask = "writersInto"
  BY <1>1 DEF Answer, WritersInto
<1>3. HoldWalks(gCaches')
  BY <1>1 DEF GraphInv, CachesInv, HoldWalks
<1>4. CachesInv'
  BY <1>2, <1>3, CachesStep DEF GraphInv, CachesInv
<1> QED BY <1>1, <1>2, <1>4, AnswerStep

\* A walk through a type: the two walks it meets are kept, and the verdict too.
LEMMA PathThroughStep ==
  ASSUME GraphInv, NEW q \in Queries, PathThrough(q)
  PROVE  GraphInv'
<1> DEFINE key == <<q.from, q.to, q.types>>
           fwd == IF Known(q, "from") THEN Kept(gCaches.fwd, q.from, Spread(q.from, Out)) ELSE gCaches.fwd
           met == Known(q, "from") /\ q.to \in fwd[q.from]
           bwd == IF met THEN Kept(gCaches.bwd, q.to, Spread(q.to, In)) ELSE gCaches.bwd
           through == IF met /\ \E n \in fwd[q.from] \cap bwd[q.to] : OfType(n, q.types) THEN {q.to} ELSE {}
<1>1. q.ask = "pathThrough"
  BY DEF PathThrough
<1>2. /\ gGraph \in Graphs /\ HoldWalks(gCaches)
      /\ HoldsSpreads(gCaches.fwd, Out) /\ HoldsSpreads(gCaches.bwd, In) /\ HoldsThrough(gCaches.path)
  BY DEF GraphInv, CachesInv, HoldWalks
<1>3. Promised(q) = ThroughType(q.from, q.to, q.types)
  BY <1>1, <1>2, ThroughAnswers
<1>4. CASE key \in DOMAIN gCaches.path
  <2>1. gCaches' = gCaches /\ Answer(q, gCaches.path[key]) /\ gGraph' = gGraph
    BY <1>4 DEF PathThrough, Answer
  <2>2. gCaches.path[key] = Promised(q)
    BY <1>1, <1>2, <1>3, <1>4 DEF HoldsThrough
  <2>3. CachesInv'
    BY <1>2, <2>1, CachesStep
  <2> QED BY <2>1, <2>2, <2>3, AnswerStep
<1>5. CASE key \notin DOMAIN gCaches.path
  <2> DEFINE path == Kept(gCaches.path, key, through)
  <2>1. /\ gCaches' = [gCaches EXCEPT !.fwd = fwd, !.bwd = bwd, !.path = path]
        /\ Answer(q, through)
    BY <1>5 DEF PathThrough
  <2>2. gGraph' = gGraph
    BY <2>1 DEF Answer
  <2>3. HoldsSpreads(fwd, Out) /\ (Known(q, "from") => fwd[q.from] = Spread(q.from, Out))
    BY <1>2, KeptSpreads
  <2>4. HoldsSpreads(bwd, In) /\ (met => bwd[q.to] = Spread(q.to, In))
    <3> HIDE DEF fwd, met
    <3> QED BY <1>2, KeptSpreads
  <2>5. through = ThroughType(q.from, q.to, q.types)
    <3> HIDE DEF fwd, bwd
    <3> QED BY <2>3, <2>4 DEF ThroughType, Known
  <2> HIDE DEF fwd, bwd, met, through
  <2>6. HoldsThrough(path)
    <3> SUFFICES ASSUME NEW r \in Queries, r.ask = "pathThrough", <<r.from, r.to, r.types>> \in DOMAIN path
                 PROVE  path[<<r.from, r.to, r.types>>] = ThroughType(r.from, r.to, r.types)
      BY DEF HoldsThrough
    <3>1. CASE <<r.from, r.to, r.types>> \in DOMAIN gCaches.path
      BY <1>2, <3>1 DEF HoldsThrough, Kept
    <3>2. CASE <<r.from, r.to, r.types>> \notin DOMAIN gCaches.path
      <4>1. <<r.from, r.to, r.types>> = key /\ path[key] = through
        BY <1>5, <3>2 DEF Kept
      <4>2. r.from = q.from /\ r.to = q.to /\ r.types = q.types
        BY <4>1
      <4> QED BY <2>5, <4>1, <4>2
    <3> QED BY <3>1, <3>2
  <2> HIDE DEF path
  <2>7. HoldWalks(gCaches')
    BY <1>2, <2>1, <2>3, <2>4, <2>6 DEF HoldWalks
  <2>8. CachesInv'
    BY <1>2, <2>2, <2>7, CachesStep
  <2> QED BY <1>3, <2>1, <2>5, <2>8, AnswerStep
<1> QED BY <1>4, <1>5

\* Nothing asked.
LEMMA WalkStutter ==
  ASSUME GraphInv, UNCHANGED walkVars
  PROVE  GraphInv'
<1>1. gGraph' = gGraph /\ gCaches' = gCaches /\ gAnswer' = gAnswer
  BY DEF walkVars
<1>2. CachesInv'
  BY <1>1, CachesStep DEF GraphInv, CachesInv
<1>3. CASE gAnswer = << >>
  BY <1>1, <1>2, <1>3 DEF GraphInv
<1>4. CASE gAnswer # << >>
  <2>1. PICK q \in Queries :
          gAnswer = <<q, gAnswer[2]>> /\ (q.ask # "writersInto" => gAnswer[2] = Promised(q))
    BY <1>4 DEF GraphInv
  <2>2. Promised(q)' = Promised(q)
    BY <1>1, PromisedUnchanged
  <2> QED BY <1>1, <1>2, <2>1, <2>2 DEF GraphInv
<1> QED BY <1>3, <1>4

\* Every reachable state's caches hold the walks of the graph, whatever was asked and in
\* whichever order.
THEOREM WalkInvariance == WalkSpec => []GraphInv
<1>1. WalkInit => GraphInv
  <2> SUFFICES ASSUME WalkInit PROVE GraphInv
    OBVIOUS
  <2>1. /\ HoldsSpreads(Nowhere, Out) /\ HoldsSpreads(Nowhere, In)
        /\ HoldsSpreads(Nowhere, DataOut) /\ HoldsSpreads(Nowhere, DataIn)
    BY DEF HoldsSpreads, Nowhere
  <2>2. HoldsThrough(Nowhere) /\ HoldsAvoiding(Nowhere) /\ HoldsUpstream(Nowhere)
    BY DEF HoldsThrough, HoldsAvoiding, HoldsUpstream, Nowhere
  <2> QED BY <2>1, <2>2 DEF WalkInit, GraphInv, CachesInv, HoldWalks
<1>2. GraphInv /\ [WalkNext]_walkVars => GraphInv'
  <2> SUFFICES ASSUME GraphInv, [WalkNext]_walkVars PROVE GraphInv'
    OBVIOUS
  <2>1. CASE WalkNext
    <3>1. PICK q \in Queries : Ask(q)
      BY <2>1 DEF WalkNext
    <3> QED BY <3>1, ReachableStep, PathThroughStep, PathAvoidingStep, UpstreamAvoidingAttrStep,
               UpstreamAvoidingStep, DataFlowsStep, DataSourcesStep, WritersIntoStep DEF Ask
  <2>2. CASE UNCHANGED walkVars
    BY <2>2, WalkStutter
  <2> QED BY <2>1, <2>2
<1> QED BY <1>1, <1>2, PTL DEF WalkSpec

\* Whatever an evaluation asked before, and whichever walks its caches kept, a question about the
\* graph is answered as if it were the first: a node is reached, avoided or listed exactly when
\* the walk the question describes exists, on every finite graph.
THEOREM AnswersAreWalksHolds == WalkSpec => []AnswersAreWalks
<1>1. GraphInv => AnswersAreWalks
  <2> SUFFICES ASSUME GraphInv, gAnswer # << >>, gAnswer[1].ask # "writersInto"
               PROVE  gAnswer[2] = Promised(gAnswer[1])
    BY DEF AnswersAreWalks
  <2>1. PICK q \in Queries :
          gAnswer = <<q, gAnswer[2]>> /\ (q.ask # "writersInto" => gAnswer[2] = Promised(q))
    BY DEF GraphInv
  <2>2. gAnswer[1] = q
    BY <2>1
  <2> QED BY <2>1, <2>2
<1> QED BY <1>1, WalkInvariance, PTL

-----------------------------------------------------------------------------
(***************************************************************************)
(* The policy numbers.                                                     *)
(***************************************************************************)

\* A finite set of numbers that is not empty has a largest and a smallest one.
LEMMA ExtremesExist ==
  ASSUME NEW S \in SUBSET Int, IsFiniteSet(S), S # {}
  PROVE  /\ Max(S) \in S /\ \A x \in S : x <= Max(S)
         /\ Min(S) \in S /\ \A x \in S : Min(S) <= x
<1>0. PICK n \in Nat : ExistsBijection(1..n, S)
  BY FS_NatBijection
<1>1. PICK f \in Bijection(1..n, S) : TRUE
  BY <1>0 DEF ExistsBijection
<1>2. /\ \A i \in 1..n : f[i] \in S
      /\ \A x \in S : \E i \in 1..n : f[i] = x
      /\ \A i \in 1..n : f[i] \in Int
  BY <1>1 DEF Bijection, Injection, Surjection
<1> DEFINE T == {k \in 0..n : k = 0 \/ \E a, b \in 1..k : \A i \in 1..k : f[b] <= f[i] /\ f[i] <= f[a]}
<1>3. 0 \in T
  OBVIOUS
<1>4. ASSUME NEW k \in 0..(n - 1), k \in T PROVE k + 1 \in T
  <2>1. k + 1 \in 1..n /\ 1..k \subseteq 1..n /\ f[k + 1] \in Int
    BY <1>2
  <2>2. CASE k = 0
    <3>1. \A i \in 1..(k + 1) : i = k + 1
      BY <2>2
    <3>2. k + 1 \in 1..(k + 1) /\ \A i \in 1..(k + 1) : f[k + 1] <= f[i] /\ f[i] <= f[k + 1]
      BY <2>1, <3>1
    <3> QED BY <2>1, <3>2
  <2>3. CASE k # 0
    <3>1. PICK a \in 1..k, b \in 1..k : \A i \in 1..k : f[b] <= f[i] /\ f[i] <= f[a]
      BY <1>4, <2>3
    <3>2. /\ \A i \in 1..k : f[i] \in Int
          /\ \A i \in 1..(k + 1) : i \in 1..k \/ i = k + 1
          /\ a \in 1..(k + 1) /\ b \in 1..(k + 1) /\ k + 1 \in 1..(k + 1)
      BY <1>2, <2>1
    <3>3. f[a] \in Int /\ f[b] \in Int
      BY <3>2
    <3>4. \E c \in 1..(k + 1) : \A i \in 1..(k + 1) : f[i] <= f[c]
      <4>1. CASE f[k + 1] <= f[a]
        BY <2>1, <3>1, <3>2, <3>3, <4>1
      <4>2. CASE f[a] <= f[k + 1]
        <5>1. \A i \in 1..(k + 1) : f[i] <= f[k + 1]
          BY <2>1, <3>1, <3>2, <3>3, <4>2
        <5> QED BY <3>2, <5>1
      <4>3. f[k + 1] <= f[a] \/ f[a] <= f[k + 1]
        BY <2>1, <3>3
      <4> QED BY <4>1, <4>2, <4>3
    <3>5. \E c \in 1..(k + 1) : \A i \in 1..(k + 1) : f[c] <= f[i]
      <4>1. CASE f[b] <= f[k + 1]
        BY <2>1, <3>1, <3>2, <3>3, <4>1
      <4>2. CASE f[k + 1] <= f[b]
        <5>1. \A i \in 1..(k + 1) : f[k + 1] <= f[i]
          BY <2>1, <3>1, <3>2, <3>3, <4>2
        <5> QED BY <3>2, <5>1
      <4>3. f[b] <= f[k + 1] \/ f[k + 1] <= f[b]
        BY <2>1, <3>3
      <4> QED BY <4>1, <4>2, <4>3
    <3>6. \E c, d \in 1..(k + 1) : \A i \in 1..(k + 1) : f[d] <= f[i] /\ f[i] <= f[c]
      BY <3>4, <3>5
    <3> QED BY <2>1, <3>6
  <2> QED BY <2>2, <2>3
<1> HIDE DEF T
<1>5. n \in T
  <2>1. 0..n \subseteq T
    BY <1>3, <1>4, FO!UpTo
  <2> QED BY <2>1
<1>6. PICK a \in 1..n, b \in 1..n : \A i \in 1..n : f[b] <= f[i] /\ f[i] <= f[a]
  <2>1. n # 0
    <3>1. PICK x \in S : TRUE
      OBVIOUS
    <3>2. PICK i \in 1..n : f[i] = x
      BY <1>2
    <3> QED BY <3>2
  <2> QED BY <1>5, <2>1 DEF T
<1>7. \E m \in S : \A x \in S : m >= x
  BY <1>2, <1>6
<1>8. \E m \in S : \A x \in S : m <= x
  BY <1>2, <1>6
<1> QED BY <1>7, <1>8 DEF Max, Min

\* Every spelling of a regime names the same one.
LEMMA CanonIsCanonical ==
  ASSUME NEW code
  PROVE  CanonRegime(CanonRegime(code)) = CanonRegime(code)
<1>1. CanonRegime("CH-CO") = "CH-CO" /\ CanonRegime("ISO") = "ISO" /\ CanonRegime("AIACT") = "AIACT"
  BY DEF CanonRegime
<1>2. CASE code \in {"CO", "CH_CO", "ch-co"}
  BY <1>1, <1>2 DEF CanonRegime
<1>3. CASE code \in {"ISO27001", "ISO-42001"}
  BY <1>1, <1>3 DEF CanonRegime
<1>4. CASE code \in {"AI-ACT", "AI_ACT"}
  BY <1>1, <1>4 DEF CanonRegime
<1>5. CASE code \notin {"CO", "CH_CO", "ch-co", "ISO27001", "ISO-42001", "AI-ACT", "AI_ACT"}
  BY <1>5 DEF CanonRegime
<1> QED BY <1>2, <1>3, <1>4, <1>5

\* The types that RegimesBind needs; they are an inductive invariant.
PolicyTypeOK ==
  /\ polRow \in Rows
  /\ polTenant \in TenantValues \cup {Unset}

THEOREM PolicyInvariance == PolicySpec => []PolicyTypeOK
<1>1. PolicyInit => PolicyTypeOK
  BY DEF PolicyInit, PolicyTypeOK
<1>2. PolicyTypeOK /\ [PolicyNext]_polVars => PolicyTypeOK'
  BY DEF PolicyTypeOK, PolicyNext, polVars, Enable, Disable, SetTenant
<1> QED BY <1>1, <1>2, PTL DEF PolicySpec

\* No minimum is undercut and no ceiling exceeded, for any table, any list of regimes and any tenant.
THEOREM RegimesBindHolds == PolicySpec => []RegimesBind
<1>1. PolicyTypeOK => RegimesBind
  <2> SUFFICES ASSUME PolicyTypeOK PROVE RegimesBind
    OBVIOUS
  <2> DEFINE row == polRow
             floors == Numbers(polRow, polRegimes)
             required == Required(polRow, polRegimes, polTenant)
             cap == Cap(polRow, polRegimes, polTenant)
             asked == IF polTenant = Unset THEN 0 ELSE polTenant
  <2>1. /\ IsFiniteSet(DOMAIN row) /\ \A key \in DOMAIN row : row[key] \in Int
        /\ polTenant # Unset => polTenant \in Int
    BY PolicyAssumption DEF PolicyTypeOK
  <2>2. floors \in SUBSET Int /\ IsFiniteSet(floors)
    <3>1. floors \in SUBSET Int
      BY <2>1 DEF Numbers, InForce
    <3>2. InForce(polRow, polRegimes) \in SUBSET DOMAIN row
      BY DEF InForce
    <3>3. IsFiniteSet(InForce(polRow, polRegimes))
      BY <2>1, <3>2, FS_Subset
    <3>4. IsFiniteSet({polRow[key] : key \in InForce(polRow, polRegimes)})
      <4> DEFINE keys == InForce(polRow, polRegimes)
                 image == {polRow[key] : key \in keys}
                 number == [key \in keys |-> polRow[key]]
      <4>1. number \in Surjection(keys, image)
        BY DEF Surjection
      <4> HIDE DEF number, image
      <4>2. IsFiniteSet(image)
        BY <3>3, <4>1, FS_Surjection
      <4> QED BY <4>2 DEF image
    <3> QED BY <3>1, <3>4 DEF Numbers
  <2>3. floors # {} => /\ Max(floors) \in floors /\ \A x \in floors : x <= Max(floors)
                       /\ Min(floors) \in floors /\ \A x \in floors : Min(floors) <= x
    <3> HIDE DEF floors
    <3> QED BY <2>2, ExtremesExist
  <2>4. Default(polRow) \in Int
    BY <2>1 DEF Default
  <2>5. \A a, b \in Int : Larger(a, b) >= a /\ Larger(a, b) >= b /\ Smaller(a, b) <= a /\ Smaller(a, b) <= b
                        /\ Larger(a, b) \in Int
    BY DEF Larger, Smaller
  <2>6. /\ required = Larger(asked, IF floors = {} THEN Default(polRow) ELSE Max(floors))
        /\ asked \in Int
    BY <2>1 DEF Required
  <2>7. ASSUME NEW key \in DOMAIN row, Binds(key) PROVE row[key] \in floors
    <3>1. PICK code \in polRegimes : CanonRegime(code) = EntryRegime(key)
      BY <2>7 DEF Binds
    <3>2. CanonRegime(EntryRegime(key)) = CanonRegime(code)
      BY <3>1, CanonIsCanonical
    <3> QED BY <2>7, <3>1, <3>2 DEF Binds, Numbers, InForce
  <2>8. /\ floors # {} => Max(floors) \in Int /\ Min(floors) \in Int
        /\ required >= asked
        /\ floors # {} => required >= Max(floors)
        /\ required \in Int
    <3>1. floors # {} => Max(floors) \in Int /\ Min(floors) \in Int
      BY <2>2, <2>3
    <3> HIDE DEF floors, asked, required
    <3>2. CASE floors = {}
      BY <2>4, <2>5, <2>6, <3>2
    <3>3. CASE floors # {}
      BY <2>5, <2>6, <3>1, <3>3
    <3> QED BY <3>1, <3>2, <3>3
  <2>9. /\ floors # {} => cap <= Min(floors) /\ cap \in Int
        /\ polTenant # Unset /\ polTenant >= 0 => cap <= polTenant
    <3> DEFINE own == IF polTenant = Unset THEN Unset ELSE Larger(polTenant, 0)
    <3>1. CASE polTenant = Unset
      <4>1. own = Unset
        BY <3>1
      <4>2. cap = IF floors # {} THEN Min(floors)
                  ELSE IF "default" \in DOMAIN polRow THEN polRow["default"] ELSE -1
        BY <4>1 DEF Cap
      <4> HIDE DEF floors, cap
      <4> QED BY <2>8, <3>1, <4>2
    <3>2. CASE polTenant # Unset
      <4>1. /\ Larger(polTenant, 0) \in Int
            /\ polTenant >= 0 => Larger(polTenant, 0) <= polTenant
        BY <2>1, <3>2 DEF Larger
      <4>2. own = Larger(polTenant, 0) /\ own # Unset
        BY <3>2, <4>1, PolicyAssumption
      <4>3. cap = IF floors # {} THEN Smaller(own, Min(floors)) ELSE own
        BY <4>2 DEF Cap
      <4> HIDE DEF floors, cap, own
      <4>4. CASE floors = {}
        BY <2>1, <3>2, <4>1, <4>2, <4>3, <4>4
      <4>5. CASE floors # {}
        <5>1. cap <= own /\ cap <= Min(floors) /\ cap \in Int
          BY <2>8, <4>1, <4>2, <4>3, <4>5 DEF Smaller
        <5> QED BY <2>1, <2>8, <3>2, <4>1, <4>2, <4>5, <5>1
      <4> QED BY <4>4, <4>5
    <3> QED BY <3>1, <3>2
  <2>10. ASSUME NEW key \in DOMAIN row, Binds(key)
         PROVE  required >= row[key] /\ cap <= row[key]
    <3>1. floors # {} /\ row[key] <= Max(floors) /\ Min(floors) <= row[key] /\ row[key] \in Int
      <4>1. row[key] \in floors
        BY <2>7, <2>10
      <4> HIDE DEF floors
      <4> QED BY <2>1, <2>3, <4>1
    <3>2. required \in Int /\ cap \in Int
      BY <2>8, <2>9, <3>1
    <3> HIDE DEF floors, cap, required
    <3> QED BY <2>8, <2>9, <3>1, <3>2
  <2>11. polTenant # Unset => required >= polTenant
    BY <2>8
  <2> QED BY <2>9, <2>10, <2>11 DEF RegimesBind
<1> QED BY <1>1, PolicyInvariance, PTL
=============================================================================
