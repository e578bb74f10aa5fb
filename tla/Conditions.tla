----------------------------- MODULE Conditions -----------------------------
(***************************************************************************)
(* The conditions of rules, as the engine evaluates them (rules/engine.go, *)
(* rules/guard.go).  A condition is a CEL expression; what the engine      *)
(* relies on is kept: it is a conjunction of clauses, a clause is a        *)
(* disjunction of tests, and a test reads one fact.  CEL's logic is        *)
(* commutative and absorbs errors: `false && x` is false and `true || x`   *)
(* is true whatever x evaluates to.  An undeclared fact that is read       *)
(* without a default is an error.                                          *)
(***************************************************************************)
EXTENDS Integers, Sequences

CONSTANTS
  Path,      \* the facts a condition may read: records with a root and a field
  Word,      \* strings the model can hold
  EmptyList, \* an attribute declared as the empty list
  Absent,    \* a fact the model does not hold
  Unknown,   \* the CEL unknown
  Blank      \* words that declare nothing: "", white space, "unknown"

ASSUME ValuesAssumption ==
  /\ Blank \subseteq Word
  /\ EmptyList \notin Word /\ Absent \notin Word \cup {EmptyList}
  /\ Unknown \notin Word \cup {EmptyList, Absent}

Value == Word \cup {EmptyList}

\* What an element holds (raw), and the same with some facts replaced by unknowns.
Reading == [Path -> Value \cup {Absent}]
PartialReading == [Path -> Value \cup {Absent, Unknown}]

Outcome == {"true", "false", "error", "unknown"}

\* A test: the path it reads, the values it holds for, its outcome on an absent fact (true or
\* false with a default, error without one), and whether it is written as `==` or `in` over
\* string literals.
Test ==
  [path : Path, holds : SUBSET Value, absent : {"true", "false", "error"}, listed : BOOLEAN]

Condition == SUBSET SUBSET Test

TestOutcome(t, reading) ==
  IF reading[t.path] = Unknown THEN "unknown"
  ELSE IF reading[t.path] = Absent THEN t.absent
  ELSE IF reading[t.path] \in t.holds THEN "true" ELSE "false"

\* CEL's && over the outcomes of its operands.
Conjoin(outcomes) ==
  IF "false" \in outcomes THEN "false"
  ELSE IF "unknown" \in outcomes THEN "unknown"
  ELSE IF "error" \in outcomes THEN "error" ELSE "true"

\* CEL's || over the outcomes of its operands.
Disjoin(outcomes) ==
  IF "true" \in outcomes THEN "true"
  ELSE IF "unknown" \in outcomes THEN "unknown"
  ELSE IF "error" \in outcomes THEN "error" ELSE "false"

ClauseOutcome(clause, reading) == Disjoin({TestOutcome(t, reading) : t \in clause})

Eval(cond, reading) == Conjoin({ClauseOutcome(c, reading) : c \in cond})

-----------------------------------------------------------------------------
(***************************************************************************)
(* Type guards (rules/guard.go).                                           *)
(***************************************************************************)

\* The fields every element carries as a string.
GuardPaths ==
  {p \in Path : \/ p.root = "n" /\ p.field = "type"
                \/ p.root = "e" /\ p.field = "kind"
                \/ p.root \in {"e.from", "e.to"} /\ p.field = "type"}

\* Mistake: a test under a disjunction is taken for a guard.
TypeGuards_AnyTest(cond) ==
  {t \in UNION cond : t.listed /\ t.holds \subseteq Word /\ t.path \in GuardPaths}

\* typeGuards: the top-level conjuncts that are one such test.
TypeGuards(cond) ==
  {t \in UNION cond :
     {t} \in cond /\ t.listed /\ t.holds \subseteq Word /\ t.path \in GuardPaths}

\* excludes: the element's field holds a string that a guard does not list.
Excludes(guards, reading) ==
  \E t \in guards : reading[t.path] \in Word /\ reading[t.path] \notin t.holds

-----------------------------------------------------------------------------
(***************************************************************************)
(* Undeclared facts (rules/engine.go).                                     *)
(***************************************************************************)

\* withUnknowns: the missing facts become unknowns; the knowledge facts do as a whole.
WithUnknowns(reading, missing) ==
  [p \in Path |->
     IF p \in missing \/ (p.root = "kb" /\ \E m \in missing : m.root = "kb")
     THEN Unknown ELSE reading[p]]

\* The readings an element could have, were its unknown facts declared or left out after all.
Completions(partial) ==
  LET open == {p \in Path : partial[p] = Unknown} IN
  {[p \in Path |-> IF p \in open THEN choice[p] ELSE partial[p]]
     : choice \in [open -> Value \cup {Absent}]}
=============================================================================
