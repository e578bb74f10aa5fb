---------------------------- MODULE LongTermRule ----------------------------
(***************************************************************************)
(* applyLongTerm (verify/anchors.go): the receipts of a verification, after*)
(* each was checked on its own, judged once more in place.  A receipt that *)
(* passed but whose authority's certificates have expired stands only when *)
(* a later receipt, valid today, signs the same or a later head.           *)
(*                                                                         *)
(* The loop reads the statuses it is itself changing; one action is one    *)
(* iteration.                                                              *)
(***************************************************************************)
EXTENDS Integers, Sequences

CONSTANT Checked   \* the lists of receipts the checks hand to the rule

\* A receipt after its own checks: its verdict, the position of the event it signs (0: none),
\* the time the authority signed it, whether the authority's chain is valid today.
Result == [status : {"pass", "fail", "not_checked"}, head : Nat, signedAt : Int, validNow : BOOLEAN]

ASSUME CheckedAssumption == Checked \subseteq Seq(Result)

VARIABLES
  given,    \* the list as the checks left it
  results,  \* results: the list the rule changes
  at        \* the position the rule judges next

ruleVars == <<given, results, at>>

\* res.status = Fail
Failed(r) ==
  [status |-> "fail", head |-> r.head, signedAt |-> r.signedAt, validNow |-> r.validNow]

\* Mistakes (names with a suffix, used by no specification): an expired receipt may carry
\* another one, only a later head carries, only the last receipt is asked, every second
\* receipt is judged.
Carries_Expired(list, j, i) ==
  /\ j # i
  /\ list[j].status = "pass"
  /\ list[j].head >= list[i].head
  /\ list[j].signedAt > list[i].signedAt

Carries_LaterHead(list, j, i) ==
  Carries_Expired(list, j, i) /\ list[j].validNow /\ list[j].head > list[i].head

\* The receipt at position j carries the expired receipt at position i.
Carries(list, j, i) ==
  /\ j # i
  /\ list[j].status = "pass"
  /\ list[j].validNow
  /\ list[j].head >= list[i].head
  /\ list[j].signedAt > list[i].signedAt

Carried_ByLast(list, i) == Carries(list, Len(list), i)

Carried(list, i) == \E j \in 1..Len(list) : Carries(list, j, i)

RuleInit ==
  /\ given \in Checked
  /\ results = given
  /\ at = 1

Judge_Skip ==
  /\ at <= Len(results)
  /\ results' =
       IF results[at].status = "pass" /\ ~results[at].validNow /\ ~Carried(results, at)
       THEN [results EXCEPT ![at] = Failed(results[at])]
       ELSE results
  /\ at' = at + 2
  /\ UNCHANGED given

Judge ==
  /\ at <= Len(results)
  /\ results' =
       IF results[at].status = "pass" /\ ~results[at].validNow /\ ~Carried(results, at)
       THEN [results EXCEPT ![at] = Failed(results[at])]
       ELSE results
  /\ at' = at + 1
  /\ UNCHANGED given

Judged == at > Len(results)

RuleNext == Judge \/ (Judged /\ UNCHANGED ruleVars)

RuleSpec == RuleInit /\ [][RuleNext]_ruleVars

-----------------------------------------------------------------------------
\* Every variable has its type.
RuleTypeOK ==
  /\ given \in Seq(Result)
  /\ results \in Seq(Result)
  /\ Len(results) = Len(given)
  /\ at \in 1..(Len(given) + 1)

\* What the rule decides of one receipt, from the list as it was given.
Stands(i) ==
  given[i].status = "pass" => given[i].validNow \/ Carried(given, i)

\* applyLongTerm changes the statuses it reads, yet the order of the receipts does not
\* matter: the verdict on each is the one the given list determines.
OrderDoesNotMatter ==
  Judged =>
    \A i \in 1..Len(given) :
      results[i] = IF Stands(i) THEN given[i] ELSE Failed(given[i])

\* After applyLongTerm, whatever passes rests on a passing receipt that is valid today and
\* commits to at least as much: no chain of receipts that all expired survives.
PassRestsOnValid ==
  Judged =>
    \A i \in 1..Len(results) :
      results[i].status = "pass" =>
        \E j \in 1..Len(results) :
          /\ results[j].status = "pass"
          /\ results[j].validNow
          /\ results[j].head >= results[i].head

\* The inductive invariant: what is judged has its final verdict, the rest is as given.
RuleInv ==
  /\ RuleTypeOK
  /\ \A i \in 1..Len(given) :
       results[i] = IF i < at /\ ~Stands(i) THEN Failed(given[i]) ELSE given[i]
=============================================================================
