------------------------ MODULE LongTermRule_proofs -------------------------
(***************************************************************************)
(* The long-term rule, for every list of receipts of any length.           *)
(***************************************************************************)
EXTENDS LongTermRule, SequenceTheorems, TLAPS

\* A receipt that is valid today is never Failed(results[at]) by the rule, so the set of receipts that can
\* carry position i is the same in the given list and in the one under change.
LEMMA CarriedStable ==
  ASSUME RuleInv, NEW i \in 1..Len(given), results[i].head = given[i].head,
         results[i].signedAt = given[i].signedAt
  PROVE  Carried(results, i) <=> Carried(given, i)
<1>1. \A j \in 1..Len(given) : given[j] \in Result /\ results[j] \in Result
  BY ElementOfSeq DEF RuleInv, RuleTypeOK
<1>2. ASSUME NEW j \in 1..Len(given)
      PROVE  Carries(results, j, i) <=> Carries(given, j, i)
  <2>1. CASE j < at /\ ~Stands(j)
    <3>1. results[j] = Failed(given[j])
      BY <2>1 DEF RuleInv
    <3>2. results[j].status = "fail" /\ ~given[j].validNow
      BY <1>1, <2>1, <3>1 DEF Stands, Result, Failed
    <3> QED BY <3>2 DEF Carries
  <2>2. CASE ~(j < at /\ ~Stands(j))
    <3>1. results[j] = given[j]
      BY <2>2 DEF RuleInv
    <3> QED BY <3>1 DEF Carries
  <2> QED BY <2>1, <2>2
<1> QED BY <1>2 DEF Carried, RuleInv, RuleTypeOK

\* One judgement keeps the invariant.
LEMMA JudgeStep ==
  ASSUME RuleInv, [RuleNext]_ruleVars
  PROVE  RuleInv'
<1>1. CASE Judge
  <2>1. /\ at \in 1..Len(given) /\ Len(given) \in Nat /\ at' = at + 1 /\ given' = given
        /\ Len(results) = Len(given)
        /\ results[at] = given[at] /\ results[at] \in Result
    BY <1>1, ElementOfSeq DEF Judge, RuleInv, RuleTypeOK
  <2>2. Carried(results, at) <=> Carried(given, at)
    BY <2>1, CarriedStable
  <2>3. Stands(at) <=> ~(results[at].status = "pass" /\ ~results[at].validNow /\ ~Carried(results, at))
    BY <2>1, <2>2 DEF Stands
  <2>4. \A i : Stands(i)' = Stands(i)
    BY <2>1 DEF Stands, Carried, Carries
  <2>5. CASE Stands(at)
    <3>1. results' = results
      BY <1>1, <2>3, <2>5 DEF Judge
    <3> QED BY <2>1, <2>4, <2>5, <3>1 DEF RuleInv, RuleTypeOK
  <2>6. CASE ~Stands(at)
    <3>1. results' = [results EXCEPT ![at] = Failed(results[at])]
      BY <1>1, <2>3, <2>6 DEF Judge
    <3>2. Failed(results[at]) \in Result
      BY <2>1 DEF Result, Failed
    <3>3. /\ results' \in Seq(Result) /\ Len(results') = Len(results)
          /\ \A i \in 1..Len(results) : results'[i] = IF i = at THEN Failed(results[at]) ELSE results[i]
      BY <2>1, <3>1, <3>2, ExceptSeq DEF RuleInv, RuleTypeOK
    <3>4. RuleTypeOK'
      BY <2>1, <3>3 DEF RuleInv, RuleTypeOK
    <3>5. \A i \in 1..Len(given) :
            results'[i] = IF i < at + 1 /\ ~Stands(i)
                          THEN Failed(given[i]) ELSE given[i]
      BY <2>1, <2>6, <3>3 DEF RuleInv
    <3> QED BY <2>1, <2>4, <3>4, <3>5 DEF RuleInv
  <2> QED BY <2>5, <2>6
<1>2. CASE UNCHANGED ruleVars
  BY <1>2 DEF ruleVars, RuleInv, RuleTypeOK, Stands, Carried, Carries
<1> QED BY <1>1, <1>2 DEF RuleNext

\* The rule keeps its inductive invariant, for every list of receipts.
THEOREM RuleInvariance == RuleSpec => []RuleInv
<1>1. RuleInit => RuleInv
  BY CheckedAssumption DEF RuleInit, RuleInv, RuleTypeOK
<1> QED BY <1>1, JudgeStep, PTL DEF RuleSpec

\* The verdicts do not depend on the order in which the receipts are judged.
THEOREM OrderIrrelevant == RuleSpec => []OrderDoesNotMatter
<1>1. RuleInv => OrderDoesNotMatter
  BY DEF RuleInv, RuleTypeOK, OrderDoesNotMatter, Judged
<1> QED BY <1>1, RuleInvariance, PTL

\* Whatever passes in the end rests on a passing receipt that is valid at verification time.
THEOREM PassIsBacked == RuleSpec => []PassRestsOnValid
<1>1. RuleInv => PassRestsOnValid
  <2> SUFFICES ASSUME RuleInv, Judged, NEW i \in 1..Len(results), results[i].status = "pass"
               PROVE  \E j \in 1..Len(results) :
                        /\ results[j].status = "pass"
                        /\ results[j].validNow
                        /\ results[j].head >= results[i].head
    BY DEF PassRestsOnValid
  <2>1. /\ Len(results) = Len(given)
        /\ \A j \in 1..Len(given) : given[j] \in Result /\ results[j] \in Result
        /\ \A j \in 1..Len(given) : Stands(j) => results[j] = given[j]
    BY ElementOfSeq DEF RuleInv, RuleTypeOK
  <2>2. Stands(i)
    <3>1. SUFFICES ASSUME ~Stands(i) PROVE FALSE
      OBVIOUS
    <3>2. i < at
      BY <2>1 DEF Judged, RuleInv, RuleTypeOK
    <3>3. results[i] = Failed(given[i])
      BY <2>1, <3>1, <3>2 DEF RuleInv
    <3> QED BY <2>1, <3>3 DEF Result, Failed
  <2>3. CASE given[i].validNow
    BY <2>1, <2>2, <2>3 DEF Result
  <2>4. CASE ~given[i].validNow
    <3>1. PICK j \in 1..Len(given) : Carries(given, j, i)
      BY <2>1, <2>2, <2>4 DEF Stands, Carried
    <3>2. Stands(j)
      BY <3>1 DEF Stands, Carries
    <3> QED BY <2>1, <2>2, <3>1, <3>2 DEF Carries
  <2> QED BY <2>3, <2>4
<1> QED BY <1>1, RuleInvariance, PTL
=============================================================================
