----------------------------- MODULE RuleEngine -----------------------------
(***************************************************************************)
(* Engine.Evaluate and Engine.EvaluateCoverage (rules/engine.go): every    *)
(* rule of every applicable pack runs over the elements of its scope,      *)
(* under a timeout of its own, and, for coverage, a second pass says which *)
(* elements the rule decided.  A step is one element.                      *)
(*                                                                         *)
(* The context of a pass (the rule's timeout under the caller's) may expire*)
(* at any moment, and CEL looks at it only now and then: any evaluation    *)
(* may be interrupted, and one after it may still succeed.                 *)
(*                                                                         *)
(* Between two evaluations the architect declares one more fact.  Element  *)
(* ids and rule ids are numbers: only their order matters.                 *)
(***************************************************************************)
EXTENDS Conditions, FiniteSets, SequencesExt

CONSTANTS
  Nodes, Edges, Graph,  \* g.nodes and g.edges, in model order; the architecture's id
  Object, Field,        \* what holds facts: nodes, edges, identities, the architecture, kb
  At,                   \* the object a root names, seen from an element: [element -> [root -> Object \cup {NoObject}]]
  NoObject,             \* where a root names nothing
  Imported,             \* elements whose provenance kind is imported
  Facts,                \* the models: [Object -> [Field -> Value \cup {Absent}]]
  Catalogs,             \* the catalogs, by name: each a sequence of packs in pack-name order
  EnabledRegimes,       \* p.Regimes of an evaluation
  NoDomain,             \* a rule without a domain
  Severities,           \* the severities, most severe first
  Declarable,           \* the values an architect declares
  MaxDeclarations       \* bound: facts declared between evaluations

VARIABLES
  facts,        \* what the model declares
  catalog,      \* the loaded catalog
  regimes,      \* p.Regimes
  withCoverage, \* EvaluateCoverage, not Evaluate
  rule,         \* the position of the rule that runs
  pass,         \* "findings", "coverage" or "done"
  element,      \* the position of the next element in the rule's scope
  out,          \* the findings of the rule that runs
  findings,     \* the findings so far
  errs,         \* the rules that failed
  decided, notChecked, \* of the rule that runs, in its coverage pass
  coverage,     \* rule id -> its decided count and not-checked elements
  hurried,      \* rules that failed by an interruption
  counted,      \* rule id -> the elements its decided count stands for
  before,       \* what the evaluation before this one reported
  changed,      \* the fact declared since
  declarations  \* facts declared so far

input == <<facts, catalog, regimes, withCoverage>>
earlier == <<before, changed, declarations>>
report == <<findings, errs, coverage, hurried, counted>>
work == <<out, decided, notChecked>>
vars == <<input, earlier, report, work, rule, pass, element>>

None == [found |-> {}, counted |-> << >>, facts |-> << >>]

Applies(pack, enabled) ==
  enabled = {} \/ pack.regimes = {} \/ pack.regimes \cap enabled # {}

\* The rules that run, in order, for each catalog and set of enabled regimes.
Applicable ==
  [c \in DOMAIN Catalogs, enabled \in EnabledRegimes |->
     LET packs == SelectSeq(Catalogs[c], LAMBDA pack : Applies(pack, enabled))
     IN  FlattenSeq([i \in 1..Len(packs) |-> packs[i].rules])]

Rules == Applicable[catalog, regimes]

R == Rules[rule]

Scope(r) ==
  IF r.scope = "node" THEN Nodes ELSE IF r.scope = "edge" THEN Edges ELSE << Graph >>

X == Scope(R)[element]

Element == {Nodes[i] : i \in DOMAIN Nodes} \cup {Edges[i] : i \in DOMAIN Edges} \cup {Graph}

Rule ==
  [id : Int, scope : {"node", "edge", "graph"}, condition : Condition, severity : STRING,
   overrides : Seq([when : Condition, severity : STRING]), message : SUBSET Path,
   required : SUBSET Path, domain : Condition \cup {NoDomain}]

\* LoadCatalog refuses a catalog in which two rules have one id.
ASSUME RulesAssumption ==
  \A c \in DOMAIN Catalogs, enabled \in EnabledRegimes :
    LET rules == Applicable[c, enabled] IN
    /\ rules \in Seq(Rule)
    /\ \A i, j \in 1..Len(rules) : rules[i].id = rules[j].id => i = j

ASSUME SeveritiesAssumption == Severities \in Seq(STRING)

\* Validate refuses a model in which two nodes, or two edges, have one id.
ASSUME ElementsAssumption ==
  /\ Nodes \in Seq(Int) /\ \A i, j \in 1..Len(Nodes) : Nodes[i] = Nodes[j] => i = j
  /\ Edges \in Seq(Int) /\ \A i, j \in 1..Len(Edges) : Edges[i] = Edges[j] => i = j
  /\ Graph \in Int

\* What a root names holds facts, and an architect declares values.
ASSUME FactsAssumption ==
  /\ NoObject \notin Object
  /\ \A x \in Element, p \in Path : At[x][p.root] \in Object \cup {NoObject} /\ p.field \in Field
  /\ Facts \subseteq [Object -> [Field -> Value \cup {Absent}]]
  /\ Declarable \subseteq Value

RawFact(p, x) ==
  IF At[x][p.root] = NoObject THEN Absent ELSE facts[At[x][p.root]][p.field]

Read(x) == [p \in Path |-> RawFact(p, x)]

-----------------------------------------------------------------------------
\* The first severity override that is not false, 0 when there is none.
Override(r, x) ==
  SelectInSeq(r.overrides, LAMBDA o : Eval(o.when, Read(x)) # "false")

\* The severity of a finding, or "error".
SeverityOf(r, x) ==
  LET i == Override(r, x) IN
  IF i = 0 THEN r.severity
  ELSE IF Eval(r.overrides[i].when, Read(x)) = "true" THEN r.overrides[i].severity
  ELSE "error"

\* renderTemplate: every placeholder must evaluate.
MessageRenders(r, x) == \A p \in r.message : RawFact(p, x) # Absent

\* What evaluating the rule on the element gives while there is time: "true" is a finding.
Evaluated(r, x) ==
  IF Eval(r.condition, Read(x)) = "true" /\ (SeverityOf(r, x) = "error" \/ ~MessageRenders(r, x))
  THEN "error" ELSE Eval(r.condition, Read(x))

Finding(r, x) == [severity |-> SeverityOf(r, x), rule |-> r.id, element |-> x]

\* sortFindings: severity rank, rule id, element id.
Rank(severity) ==
  IF Contains(Severities, severity) THEN SelectInSeq(Severities, LAMBDA s : s = severity)
  ELSE Len(Severities) + 1

Before(f, g) ==
  \/ Rank(f.severity) < Rank(g.severity)
  \/ Rank(f.severity) = Rank(g.severity) /\ f.rule < g.rule
  \/ Rank(f.severity) = Rank(g.severity) /\ f.rule = g.rule /\ f.element < g.element

\* A stable sort puts an entry behind those before it in order, and its equals as they came.
Place(list, i) ==
  1 + Cardinality({j \in 1..Len(list) :
                     Before(list[j], list[i]) \/ (~Before(list[i], list[j]) /\ j < i)})

Sorted(list) == [k \in 1..Len(list) |-> list[CHOOSE i \in 1..Len(list) : Place(list, i) = k]]

-----------------------------------------------------------------------------
StartsAfresh ==
  /\ rule' = 1 /\ pass' = "findings" /\ element' = 1
  /\ out' = << >> /\ decided' = 0 /\ notChecked' = {}
  /\ findings' = << >> /\ errs' = {} /\ coverage' = << >> /\ hurried' = {} /\ counted' = << >>

Init ==
  /\ facts \in Facts /\ catalog \in DOMAIN Catalogs /\ regimes \in EnabledRegimes
  /\ withCoverage \in BOOLEAN
  /\ rule = 1 /\ pass = "findings" /\ element = 1
  /\ out = << >> /\ decided = 0 /\ notChecked = {}
  /\ findings = << >> /\ errs = {} /\ coverage = << >> /\ hurried = {} /\ counted = << >>
  /\ before = None /\ changed = << >> /\ declarations = 0

\* The pass goes on with its next element.
Continue ==
  /\ element' = element + 1
  /\ UNCHANGED <<input, earlier, report, rule, pass>>

\* Mistakes (names with a suffix) are used by no specification: put in place of the definition
\* they are named after, each breaks a property.
NextRule_SkipsOne ==
  /\ rule' = rule + 2 /\ pass' = "findings" /\ element' = 1
  /\ out' = << >> /\ decided' = 0 /\ notChecked' = {}
  /\ UNCHANGED <<input, earlier>>

\* The next rule starts.
NextRule ==
  /\ rule' = rule + 1 /\ pass' = "findings" /\ element' = 1
  /\ out' = << >> /\ decided' = 0 /\ notChecked' = {}
  /\ UNCHANGED <<input, earlier>>

Running == pass = "findings" /\ rule <= Len(Rules)

-----------------------------------------------------------------------------
(***************************************************************************)
(* runRule: the finding pass.                                              *)
(***************************************************************************)

Skip ==
  /\ Running /\ element <= Len(Scope(R))
  /\ Excludes(TypeGuards(R.condition), Read(X))
  /\ Continue
  /\ UNCHANGED work

Considers ==
  /\ Running /\ element <= Len(Scope(R))
  /\ ~Excludes(TypeGuards(R.condition), Read(X))

Pass ==
  /\ Considers
  /\ Evaluated(R, X) = "false"
  /\ Continue
  /\ UNCHANGED work

Fire ==
  /\ Considers
  /\ Evaluated(R, X) = "true"
  /\ out' = Append(out, Finding(R, X))
  /\ Continue
  /\ UNCHANGED <<decided, notChecked>>

\* Mistake: what the rule found before its error is kept.
Discard_Partial ==
  /\ errs' = errs \cup {R.id}
  /\ findings' = findings \o out
  /\ NextRule
  /\ UNCHANGED <<coverage, counted>>

\* One error discards what the rule found.
Discard ==
  /\ errs' = errs \cup {R.id}
  /\ NextRule
  /\ UNCHANGED <<findings, coverage, counted>>

Fail ==
  /\ Considers
  /\ Evaluated(R, X) = "error"
  /\ Discard
  /\ UNCHANGED hurried

\* The rule's timeout expired or the caller gave up, and this evaluation notices.
Interrupted ==
  /\ Considers
  /\ Discard
  /\ hurried' = hurried \cup {R.id}

\* Without coverage the next rule starts at once.
EndRule ==
  /\ Running /\ element > Len(Scope(R))
  /\ findings' = findings \o out
  /\ ~withCoverage
  /\ NextRule
  /\ UNCHANGED <<errs, coverage, hurried, counted>>

-----------------------------------------------------------------------------
(***************************************************************************)
(* coverRule: the coverage pass.                                           *)
(***************************************************************************)

Fired == {out[i].element : i \in 1..Len(out)}

\* An entry of a map.
Put(map, key, value) ==
  [k \in DOMAIN map \cup {key} |-> IF k = key THEN value ELSE map[k]]

ScopeSet(r) == {Scope(r)[i] : i \in 1..Len(Scope(r))}

StartCoverage ==
  /\ Running /\ element > Len(Scope(R))
  /\ withCoverage
  /\ findings' = findings \o out
  /\ counted' = Put(counted, R.id, Fired)
  /\ decided' = Cardinality(Fired)
  /\ pass' = "coverage" /\ element' = 1
  /\ UNCHANGED <<input, earlier, out, errs, coverage, hurried, rule, notChecked>>

\* The element joins the decided count.
Decide ==
  /\ decided' = decided + 1
  /\ counted' = [counted EXCEPT ![R.id] = @ \cup {X}]
  /\ element' = element + 1
  /\ UNCHANGED <<input, earlier, out, findings, errs, coverage, hurried, rule, pass,
                 notChecked>>

Leave ==
  /\ notChecked' = notChecked \cup {X}
  /\ Continue
  /\ UNCHANGED <<out, decided>>

Covering == pass = "coverage" /\ element <= Len(Scope(R))

\* Mistake: an element the rule fired on is counted again.
CoverFired_Again == Covering /\ X \in Fired /\ Decide

\* hits: an element the rule fired on is counted already.
CoverFired ==
  /\ Covering /\ X \in Fired
  /\ Continue
  /\ UNCHANGED work

\* A rule that requires no fact decides every element of its scope, guards or not.
CoverAll ==
  /\ Covering /\ X \notin Fired /\ R.required = {}
  /\ Decide

Requires == Covering /\ X \notin Fired /\ R.required # {}

\* inDomain.
DomainOutcome(r, x) == IF r.domain = NoDomain THEN "true" ELSE Eval(r.domain, Read(x))

CoverOutside ==
  /\ Requires /\ DomainOutcome(R, X) = "false"
  /\ Continue
  /\ UNCHANGED work

CoverDomainFails ==
  /\ Requires
  /\ DomainOutcome(R, X) = "error"
  /\ Leave

\* importedPlaceholder: the importer wrote [] because the schema wants the list.
ImportedPlaceholder(field, value, object) ==
  field = "scopes" /\ value = EmptyList /\ object \in Imported

\* pathDeclared: absent, blank and "unknown" declare nothing, nor does a placeholder.
Declared(field, value, object) ==
  value \notin Blank \cup {Absent} /\ ~ImportedPlaceholder(field, value, object)

\* undeclaredPaths.
Missing(r, x) == {p \in r.required : ~Declared(p.field, RawFact(p, x), At[x][p.root])}

\* Mistake: the condition is evaluated on the facts as they are.
DependsOn_AsIs(r, x) == Eval(r.condition, Read(x)) # "false"

\* dependsOn, while there is time.
DependsOn(r, x) ==
  Eval(r.condition, WithUnknowns(Read(x), Missing(r, x))) # "false"

CoverDecided ==
  /\ Requires /\ DomainOutcome(R, X) = "true"
  /\ Missing(R, X) = {} \/ ~DependsOn(R, X)
  /\ Decide

CoverDepends ==
  /\ Requires /\ DomainOutcome(R, X) = "true"
  /\ Missing(R, X) # {}
  /\ DependsOn(R, X)
  /\ Leave

\* The pass ran out of time in the domain, or in the condition.
CoverInterrupted ==
  /\ Requires
  /\ \/ R.domain # NoDomain
     \/ DomainOutcome(R, X) = "true" /\ Missing(R, X) # {}
  /\ Leave

EndCoverage ==
  /\ pass = "coverage" /\ element > Len(Scope(R))
  /\ coverage' = Put(coverage, R.id, [decided |-> decided, notChecked |-> notChecked])
  /\ NextRule
  /\ UNCHANGED <<findings, errs, hurried, counted>>

-----------------------------------------------------------------------------
\* Mistake: the findings stay in the order of packs and elements.
Sort_Forgotten ==
  /\ pass = "findings" /\ rule > Len(Rules)
  /\ pass' = "done"
  /\ UNCHANGED <<input, earlier, work, findings, errs, coverage, hurried, counted, rule, element>>

Sort ==
  /\ pass = "findings" /\ rule > Len(Rules)
  /\ findings' = Sorted(findings)
  /\ pass' = "done"
  /\ UNCHANGED <<input, earlier, work, errs, coverage, hurried, counted, rule, element>>

\* The fact a path names, seen from an element.
FactAt(p, x) == <<At[x][p.root], p.field>>

\* A required fact some rule found undeclared, as <<object, field>>.
AskedFor ==
  {fact \in Object \X Field :
     \E i \in 1..Len(Rules) : \E x \in ScopeSet(Rules[i]) : \E p \in Missing(Rules[i], x) :
       FactAt(p, x) = fact}

\* Having read the report, the architect declares a fact it asks for; the model is evaluated again.
Declare ==
  /\ pass = "done" /\ withCoverage /\ declarations < MaxDeclarations
  /\ \E fact \in AskedFor, v \in Declarable :
       /\ facts' = [facts EXCEPT ![fact[1]][fact[2]] = v]
       /\ changed' = fact
  /\ before' = [found |-> {[rule |-> findings[i].rule, element |-> findings[i].element]
                             : i \in 1..Len(findings)},
                counted |-> counted, facts |-> facts]
  /\ declarations' = declarations + 1
  /\ StartsAfresh
  /\ UNCHANGED <<catalog, regimes, withCoverage>>

Step ==
  \/ Skip \/ Pass \/ Fire \/ Fail \/ Interrupted \/ EndRule
  \/ StartCoverage \/ CoverFired \/ CoverAll \/ CoverOutside \/ CoverDomainFails
  \/ CoverDecided \/ CoverDepends \/ CoverInterrupted \/ EndCoverage \/ Sort

Next == Step \/ Declare

Spec == Init /\ [][Next]_vars
-----------------------------------------------------------------------------
(***************************************************************************)
(* Properties.                                                             *)
(***************************************************************************)

\* Every variable has its type.
TypeOK ==
  /\ facts \in [Object -> [Field -> Value \cup {Absent}]]
  /\ rule \in 1..(Len(Rules) + 1)
  /\ pass \in {"findings", "coverage", "done"}
  /\ element \in Nat \ {0} /\ decided \in Nat
  /\ withCoverage \in BOOLEAN
  /\ hurried \subseteq errs
  /\ DOMAIN coverage \subseteq DOMAIN counted

\* The rules of the report that Evaluate returns; none before it returns.
Reported == {Rules[i] : i \in IF pass = "done" THEN 1..Len(Rules) ELSE {}}

FindingsOf(r) == {findings[i] : i \in {j \in 1..Len(findings) : findings[j].rule = r.id}}

Fires(r, x) == Evaluated(r, x) = "true"

\* evaluate: a rule reports everything it holds for, or nothing and an error.  Neither an error in
\* another rule, a timeout, the guards nor the coverage pass takes a finding away or adds one, and
\* a rule that failed has no coverage.
AllOrNothing ==
  \A r \in Reported :
    IF r.id \in errs
    THEN FindingsOf(r) = {} /\ r.id \notin DOMAIN coverage
    ELSE /\ FindingsOf(r) = {Finding(r, x) : x \in {y \in ScopeSet(r) : Fires(r, y)}}
         /\ withCoverage <=> r.id \in DOMAIN coverage

\* A rule that had time fails exactly when some element of its scope cannot be evaluated.
FailsOnError(r) ==
  LET unreadable == \E x \in ScopeSet(r) : Evaluated(r, x) = "error" IN
  /\ r.id \notin errs => ~unreadable
  /\ r.id \in errs \ hurried => unreadable

\* guard.go: an element that errors still errors, guarded or not.
GuardsHideNoError == \A r \in Reported : FailsOnError(r)

\* What the coverage of a rule may leave out: elements outside its domain.
Outside(r) ==
  {x \in ScopeSet(r) : r.required # {} /\ ~Fires(r, x) /\ DomainOutcome(r, x) = "false"}

\* The coverage of a rule accounts for every element of its scope once.
Accounts(r) ==
  LET c == coverage[r.id] IN
  /\ c.decided = Cardinality(counted[r.id])
  /\ counted[r.id] \cap c.notChecked = {}
  /\ ScopeSet(r) \ (counted[r.id] \cup c.notChecked) \subseteq Outside(r)

\* coverRule: the decided count and the list of elements not checked account for every element
\* once: what neither names is outside the rule's domain, never an element that went unread.
CoverageAccounts == \A r \in Reported : r.id \in DOMAIN coverage => Accounts(r)

\* The condition is false on the element under any value of its undeclared required facts.
FalseForAll(r, x) ==
  \A c \in Completions(WithUnknowns(Read(x), Missing(r, x))) : Eval(r.condition, c) = "false"

\* The elements decided without a finding were decided whatever their undeclared facts hold.
DecidesSoundly(r) ==
  r.required # {} => \A x \in counted[r.id] : ~Fires(r, x) => FalseForAll(r, x)

\* coverRule: "decided only when the outcome is the same whatever the fact holds": an element
\* decided without a finding has none under any value of its undeclared required facts, also
\* when the pass ran out of time.
DecidedIsSound == \A r \in Reported : r.id \in DOMAIN coverage => DecidesSoundly(r)

\* The condition reaches the required facts of x only through the paths the rule requires.
ReadsAsRequired(r, x) ==
  \A t \in UNION r.condition :
    t.path \notin r.required => \A p \in r.required : FactAt(p, x) # FactAt(t.path, x)

\* The path was undeclared when the evaluation before this one ran.
WasMissing(p, x) ==
  /\ At[x][p.root] # NoObject
  /\ ~Declared(p.field, before.facts[At[x][p.root]][p.field], At[x][p.root])

\* What "decided" means to a reader of the report: a rule that decided an element without a finding
\* finds nothing there when the architect declares one of the facts it had required in vain.
SilenceLasts ==
  before # None =>
    \A r \in Reported : \A x \in ScopeSet(r) :
      /\ r.id \in DOMAIN before.counted
      /\ x \in before.counted[r.id]
      /\ [rule |-> r.id, element |-> x] \notin before.found
      /\ ReadsAsRequired(r, x)
      /\ \E p \in r.required : FactAt(p, x) = changed /\ WasMissing(p, x)
      => \A f \in FindingsOf(r) : f.element # x

\* sortFindings: the report is in one order, whatever the order of packs, rules and elements.
ReportIsCanonical ==
  pass = "done" =>
    \A i, j \in 1..Len(findings) : i < j => Before(findings[i], findings[j])

\* The elements of a rule's scope before position k.
SeenBefore(r, k) == {Scope(r)[i] : i \in {j \in 1..Len(Scope(r)) : j < k}}

EarlierIds == {Rules[i].id : i \in 1..(rule - 1)}

\* Each rule reports once, in its turn.
TurnInv ==
  /\ catalog \in DOMAIN Catalogs /\ regimes \in EnabledRegimes
  /\ pass = "coverage" => rule <= Len(Rules)
  /\ pass = "done" => rule = Len(Rules) + 1
  /\ errs \subseteq EarlierIds /\ DOMAIN coverage \subseteq EarlierIds
  /\ DOMAIN counted \subseteq EarlierIds \cup (IF pass = "coverage" THEN {R.id} ELSE {})

\* The finding pass: what it has gone over was evaluated, or excluded and false.
WalkInv ==
  Running =>
    /\ \A x \in SeenBefore(R, element) : Evaluated(R, x) \in {"true", "false"}
    /\ Fired = {x \in SeenBefore(R, element) : Fires(R, x)}
    /\ notChecked = {}

\* The coverage pass: every element evaluates, and what it has gone over is accounted for.
CoverInv ==
  pass = "coverage" =>
    /\ R.id \in DOMAIN counted
    /\ \A x \in ScopeSet(R) : Evaluated(R, x) \in {"true", "false"}
    /\ Fired = {x \in ScopeSet(R) : Fires(R, x)}
    /\ Fired \subseteq counted[R.id]
    /\ counted[R.id] \subseteq Fired \cup SeenBefore(R, element)
    /\ notChecked \subseteq SeenBefore(R, element)
    /\ decided = Cardinality(counted[R.id])
    /\ counted[R.id] \cap notChecked = {}
    /\ SeenBefore(R, element) \ (counted[R.id] \cup notChecked) \subseteq Outside(R)
    /\ DecidesSoundly(R)

\* What holds of a rule that is through.
Settled(r) ==
  /\ FailsOnError(r)
  /\ r.id \in DOMAIN coverage => Accounts(r) /\ DecidesSoundly(r)

\* The rules before this one keep what they reported.
PastInv == \A i \in 1..(rule - 1) : Settled(Rules[i])

\* The properties above, strengthened to what every step preserves.
IInv == TypeOK /\ TurnInv /\ WalkInv /\ CoverInv /\ PastInv
=============================================================================
