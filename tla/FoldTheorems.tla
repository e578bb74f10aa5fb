---------------------------- MODULE FoldTheorems ----------------------------
(***************************************************************************)
(* What FoldLeft computes, for sequences of every length.  The models      *)
(* write the loops of the code as folds; a proof about such a loop         *)
(* instantiates this module with the loop's step for Op and cites the      *)
(* lemmas.  Induction is stated over sets (the well-founded order on Nat), *)
(* so that no lemma takes an operator.                                     *)
(***************************************************************************)
EXTENDS Integers, Sequences, SequencesExt, FiniteSetTheorems, WellFoundedInduction, TLAPS

CONSTANT Op(_, _)   \* one step of the fold: what was gathered so far and the next element

\* The fold of a sequence from the left, as the models write it.
Folded(base, seq) == FoldLeft(Op, base, seq)

\* The equation FoldLeft chooses a solution of, by the definition of the community module: over
\* the sets of positions, the largest position last.
FoldEquation(base, seq, n, f) ==
  f = [s \in SUBSET (1..n) |-> IF s = {} THEN base ELSE Op(f[s \ {Max(s)}], seq[Max(s)])]

\* What a fold gathers, element by element: h[k] after the first k of n.
Gathers(base, seq, n, h) ==
  /\ h[0] = base
  /\ \A k \in 1..n : h[k] = Op(h[k - 1], seq[k])

\* Every nonempty set of numbers has a least one.
LEMMA LeastNumber ==
  ASSUME NEW T \in SUBSET Nat, T # {}
  PROVE  \E x \in T : \A y \in T : x <= y
<1> DEFINE R == OpToRel(<, Nat)
<1>1. R = {p \in Nat \X Nat : p[1] < p[2]}
  BY DEF OpToRel
<1>2. IsWellFoundedOn(R, Nat)
  BY NatLessThanWellFounded
<1> HIDE DEF R
<1>3. PICK x \in T : \A y \in T : ~(<<y, x>> \in R)
  BY WFMin, <1>2
<1>4. \A y \in T : ~(y < x)
  BY <1>1, <1>3
<1> QED BY <1>4

\* Induction up to n, over a set.
LEMMA UpTo ==
  ASSUME NEW n \in Nat, NEW T, 0 \in T,
         \A k \in 0..(n - 1) : k \in T => k + 1 \in T
  PROVE  0..n \subseteq T
<1> SUFFICES ASSUME (0..n) \ T # {} PROVE FALSE
  OBVIOUS
<1> DEFINE M == (0..n) \ T
<1>1. PICK k \in M : \A j \in M : k <= j
  <2>1. M \in SUBSET Nat /\ M # {}
    OBVIOUS
  <2> HIDE DEF M
  <2> QED BY <2>1, LeastNumber
<1>2. k # 0 /\ k - 1 \in 0..(n - 1) /\ k - 1 \in T
  BY <1>1
<1> QED BY <1>1, <1>2

\* The maximum of a nonempty set of numbers up to n is its largest element.
LEMMA MaxOfNumbers ==
  ASSUME NEW n \in Nat, NEW s \in SUBSET (0..n), s # {}
  PROVE  Max(s) \in s /\ \A x \in s : x <= Max(s)
<1> DEFINE B == {m \in 0..n : \A x \in s : x <= m}
<1>1. PICK m \in B : \A y \in B : m <= y
  <2>1. n \in B /\ B \in SUBSET Nat
    OBVIOUS
  <2> HIDE DEF B
  <2> QED BY <2>1, LeastNumber
<1>2. m \in s
  <2>1. CASE m = 0
    <3>1. PICK x \in s : TRUE
      OBVIOUS
    <3>2. x = 0
      BY <1>1, <2>1
    <3> QED BY <2>1, <3>2
  <2>2. CASE m # 0 /\ m \notin s
    <3>1. m - 1 \in B
      BY <1>1, <2>2
    <3> QED BY <1>1, <3>1
  <2> QED BY <2>1, <2>2
<1> QED BY <1>1, <1>2 DEF Max

\* The equation has a solution, so the CHOOSE in FoldLeft chooses one.
LEMMA FoldIsDefined ==
  ASSUME NEW base, NEW seq, NEW n \in Nat
  PROVE  \E h : FoldEquation(base, seq, n, h)
<1> DEFINE Body(g, s) == IF s = {} THEN base ELSE Op(g[s \ {Max(s)}], seq[Max(s)])
           T == {k \in 0..n : \E g : g = [s \in SUBSET (1..k) |-> Body(g, s)]}
<1>1. 0 \in T
  <2>1. [s \in SUBSET (1..0) |-> base] = [s \in SUBSET (1..0) |-> Body([t \in SUBSET (1..0) |-> base], s)]
    <3>1. \A s \in SUBSET (1..0) : s = {}
      OBVIOUS
    <3> QED BY <3>1
  <2> QED BY <2>1
<1>2. ASSUME NEW k \in 0..(n - 1), k \in T PROVE k + 1 \in T
  <2>1. PICK g : g = [s \in SUBSET (1..k) |-> Body(g, s)]
    BY <1>2
  <2> DEFINE h == [s \in SUBSET (1..(k + 1)) |-> Body(g, s)]
  <2>2. ASSUME NEW s \in SUBSET (1..(k + 1)), s # {}
        PROVE  s \ {Max(s)} \in SUBSET (1..k)
    <3>1. k + 1 \in Nat /\ s \in SUBSET (0..(k + 1))
      OBVIOUS
    <3>2. Max(s) \in s /\ \A x \in s : x <= Max(s)
      BY <2>2, <3>1, MaxOfNumbers
    <3>3. PICK m \in s : m = Max(s) /\ \A x \in s : x <= m
      BY <3>2
    <3> HIDE DEF h, T
    <3>4. ASSUME NEW x \in s, x # m PROVE x \in 1..k
      <4>1. x \in 1..(k + 1) /\ m \in 1..(k + 1) /\ x <= m
        BY <3>3
      <4> QED BY <3>4, <4>1
    <3> QED BY <3>3, <3>4
  <2>3. ASSUME NEW t \in SUBSET (1..k) PROVE h[t] = g[t]
    <3>1. t \in SUBSET (1..(k + 1))
      OBVIOUS
    <3>2. g[t] = Body(g, t)
      BY <2>1
    <3> QED BY <3>1, <3>2
  <2>4. \A s \in SUBSET (1..(k + 1)) : Body(g, s) = Body(h, s)
    BY <2>2, <2>3
  <2>5. h = [s \in SUBSET (1..(k + 1)) |-> Body(h, s)]
    BY <2>4
  <2>6. k + 1 \in 0..n
    OBVIOUS
  <2> QED BY <2>5, <2>6
<1> HIDE DEF T
<1>3. n \in T
  BY <1>1, <1>2, UpTo
<1> QED BY <1>3 DEF T, FoldEquation

\* A fold is what its steps lead to, one element after the other.
LEMMA FoldSteps ==
  ASSUME NEW base, NEW n \in Nat, NEW seq, DOMAIN seq = 1..n
  PROVE  \E h : Gathers(base, seq, n, h) /\ Folded(base, seq) = h[n]
<1> DEFINE fold == CHOOSE f : FoldEquation(base, seq, n, f)
<1>1. FoldEquation(base, seq, n, fold)
  BY FoldIsDefined
<1>2. Folded(base, seq) = fold[1..n]
  BY DEF Folded, FoldLeft, MapThenFoldSet, FoldEquation
<1> HIDE DEF fold
<1>3. ASSUME NEW k \in 1..n PROVE fold[1..k] = Op(fold[1..(k - 1)], seq[k])
  <2>1. Max(1..k) = k
    <3>1. Max(1..k) \in 1..k /\ \A x \in 1..k : x <= Max(1..k)
      <4>1. PICK s \in SUBSET (0..n) : s = 1..k
        OBVIOUS
      <4>2. s # {}
        BY <4>1
      <4>3. Max(s) \in s /\ \A x \in s : x <= Max(s)
        BY <4>2, MaxOfNumbers
      <4> QED BY <4>1, <4>3
    <3> QED BY <3>1
  <2>2. (1..k) \ {k} = 1..(k - 1) /\ 1..k # {} /\ 1..k \in SUBSET (1..n)
    OBVIOUS
  <2> QED BY <1>1, <2>1, <2>2 DEF FoldEquation
<1>4. fold[1..0] = base
  BY <1>1 DEF FoldEquation
<1> DEFINE h == [k \in 0..n |-> fold[1..k]]
<1>5. h[0] = base /\ h[n] = fold[1..n] /\ \A k \in 1..n : h[k] = Op(h[k - 1], seq[k])
  BY <1>3, <1>4
<1> QED BY <1>2, <1>5 DEF Gathers

\* A set that holds the base and that every step stays in holds the fold.
LEMMA FoldKeeps ==
  ASSUME NEW T, NEW base \in T, NEW n \in Nat, NEW seq, DOMAIN seq = 1..n,
         \A t \in T, k \in 1..n : Op(t, seq[k]) \in T
  PROVE  Folded(base, seq) \in T
<1>1. PICK h : Gathers(base, seq, n, h) /\ Folded(base, seq) = h[n]
  BY FoldSteps
<1> DEFINE good == {k \in 0..n : h[k] \in T}
<1>2. 0 \in good
  BY <1>1 DEF Gathers
<1>3. ASSUME NEW k \in 0..(n - 1), k \in good PROVE k + 1 \in good
  <2>1. h[k + 1] = Op(h[k], seq[k + 1]) /\ k + 1 \in 1..n
    BY <1>1 DEF Gathers
  <2> QED BY <1>3, <2>1
<1> HIDE DEF good
<1>4. 0..n \subseteq good
  BY <1>2, <1>3, UpTo
<1>5. n \in good
  BY <1>4
<1> QED BY <1>1, <1>5 DEF good

\* The fold of nothing is its base.
LEMMA FoldEmpty ==
  ASSUME NEW base
  PROVE  Folded(base, << >>) = base
<1> DEFINE none == << >>
<1>1. DOMAIN none = 1..0
  OBVIOUS
<1> HIDE DEF none
<1>2. PICK h : Gathers(base, none, 0, h) /\ Folded(base, none) = h[0]
  BY <1>1, FoldSteps
<1> QED BY <1>2 DEF Gathers, none

\* Over one element more, a fold takes one step more.
LEMMA FoldOneMore ==
  ASSUME NEW base, NEW n \in Nat, NEW m \in Nat, m = n + 1, NEW list, DOMAIN list = 1..n,
         NEW longer, DOMAIN longer = 1..m, \A k \in 1..n : longer[k] = list[k]
  PROVE  Folded(base, longer) = Op(Folded(base, list), longer[m])
<1>1. PICK g : Gathers(base, list, n, g) /\ Folded(base, list) = g[n]
  BY FoldSteps
<1>2. PICK h : Gathers(base, longer, m, h) /\ Folded(base, longer) = h[m]
  BY FoldSteps
<1> DEFINE same == {k \in 0..n : g[k] = h[k]}
<1>3. 0 \in same
  BY <1>1, <1>2 DEF Gathers
<1>4. ASSUME NEW k \in 0..(n - 1), k \in same PROVE k + 1 \in same
  <2>1. k + 1 \in 1..n /\ k + 1 \in 1..m /\ k + 1 \in 0..n /\ (k + 1) - 1 = k
    OBVIOUS
  <2> QED BY <1>1, <1>2, <1>4, <2>1 DEF Gathers
<1> HIDE DEF same
<1>5. 0..n \subseteq same
  BY <1>3, <1>4, UpTo
<1>6. g[n] = h[n]
  BY <1>5 DEF same
<1>7. m \in 1..m /\ m - 1 = n
  OBVIOUS
<1> QED BY <1>1, <1>2, <1>6, <1>7 DEF Gathers

\* The fold of a longer sequence takes one step more.
LEMMA FoldAppend ==
  ASSUME NEW S, NEW base, NEW seq \in Seq(S), NEW x \in S
  PROVE  Folded(base, Append(seq, x)) = Op(Folded(base, seq), x)
<1> DEFINE n == Len(seq)
           m == Len(seq) + 1
           longer == Append(seq, x)
<1>1. /\ n \in Nat /\ m \in Nat /\ m = n + 1
      /\ DOMAIN seq = 1..n /\ DOMAIN longer = 1..m
      /\ \A k \in 1..n : longer[k] = seq[k]
      /\ longer[m] = x
  OBVIOUS
<1> HIDE DEF n, m, longer
<1>2. Folded(base, longer) = Op(Folded(base, seq), longer[m])
  BY <1>1, FoldOneMore
<1> QED BY <1>1, <1>2 DEF longer

\* The fold of a prefix takes one step from the fold of the prefix before it.
LEMMA FoldPrefix ==
  ASSUME NEW S, NEW base, NEW seq \in Seq(S), NEW k \in 1..Len(seq)
  PROVE  Folded(base, SubSeq(seq, 1, k)) = Op(Folded(base, SubSeq(seq, 1, k - 1)), seq[k])
<1> DEFINE before == SubSeq(seq, 1, k - 1)
           e == seq[k]
<1>1. before \in Seq(S) /\ e \in S /\ SubSeq(seq, 1, k) = Append(before, e)
  OBVIOUS
<1> HIDE DEF before, e
<1>2. Folded(base, Append(before, e)) = Op(Folded(base, before), e)
  BY <1>1, FoldAppend
<1> QED BY <1>1, <1>2 DEF before, e
=============================================================================
