------------------------- MODULE Anchoring_proofs ---------------------------
(***************************************************************************)
(* The receipts of a copy over the years, for every number of events,      *)
(* authorities, receipts and verifications.                                *)
(***************************************************************************)
EXTENDS Anchoring, SequenceTheorems, TLAPS

\* OkAnchors and Usable are folds; the long-term rule has its theorems in a module of its own.
FO == INSTANCE FoldTheorems WITH Op <- AddOk
FU == INSTANCE FoldTheorems WITH Op <- AddUsable
RP == INSTANCE LongTermRule_proofs WITH Checked <- {}

-----------------------------------------------------------------------------
\* The first position of a list at which something holds, and the last, are positions of it.
LEMMA PositionsOf ==
  ASSUME NEW n \in Nat, NEW I \in SUBSET (0..n), I # {}
  PROVE  /\ Min(I) \in I /\ \A i \in I : Min(I) <= i
         /\ Max(I) \in I /\ \A i \in I : i <= Max(I)
<1>1. PICK x \in I : \A y \in I : x <= y
  <2>1. I \in SUBSET Nat
    OBVIOUS
  <2> QED BY <2>1, FO!LeastNumber
<1>2. Min(I) \in I /\ \A i \in I : Min(I) <= i
  BY <1>1 DEF Min
<1>3. Max(I) \in I /\ \A i \in I : i <= Max(I)
  BY FO!MaxOfNumbers DEF FO!Max, Max
<1> QED BY <1>2, <1>3

\* Putting a receipt into a list of receipts of some kind leaves a list of that kind.
LEMMA AddOkType ==
  ASSUME NEW S, NEW t \in Seq(S), NEW a \in S
  PROVE  AddOk(t, a) \in Seq(S)
<1> DEFINE I == {i \in 1..Len(t) : t[i].headSeq > a.headSeq}
           p == IF I # {} THEN Min(I) ELSE 0
<1>1. p \in 0..Len(t)
  <2>1. CASE I # {}
    <3>1. Len(t) \in Nat /\ I \in SUBSET (1..Len(t)) /\ I \in SUBSET (0..Len(t))
      OBVIOUS
    <3> HIDE DEF I
    <3>2. PICK m \in I : m = Min(I)
      BY <2>1, <3>1, PositionsOf
    <3>3. m \in 0..Len(t)
      BY <3>1
    <3> QED BY <2>1, <3>2, <3>3
  <2>2. CASE I = {}
    BY <2>2
  <2> QED BY <2>1, <2>2
<1>2. InsertByHead(t, a) = IF p = 0 THEN Append(t, a) ELSE InsertAt(t, p, a)
  BY DEF InsertByHead, SelectInSeq
<1> HIDE DEF p
<1>3. ASSUME p # 0 PROVE InsertAt(t, p, a) \in Seq(S)
  <2>1. SubSeq(t, 1, p - 1) \in Seq(S) /\ SubSeq(t, p, Len(t)) \in Seq(S) /\ << a >> \in Seq(S)
    BY <1>1, <1>3
  <2> QED BY <2>1 DEF InsertAt
<1> QED BY <1>1, <1>2, <1>3 DEF AddOk

\* okAnchors lists receipts of the export only.
LEMMA OkAnchorsType ==
  ASSUME NEW S, NEW as \in Seq(S)
  PROVE  OkAnchors(as) \in Seq(S)
<1>1. OkAnchors(as) = FO!Folded(<< >>, as)
  BY DEF FO!Folded, OkAnchors, FoldLeft, MapThenFoldSet, FO!FoldLeft, FO!MapThenFoldSet,
         FO!Max, Max
<1>2. DOMAIN as = 1..Len(as) /\ Len(as) \in Nat /\ << >> \in Seq(S)
  BY LenProperties, EmptySeq
<1>3. \A t \in Seq(S), k \in 1..Len(as) : AddOk(t, as[k]) \in Seq(S)
  BY AddOkType, ElementOfSeq
<1> DEFINE T == Seq(S)
           n == Len(as)
<1> HIDE DEF T, n
<1>4. FO!Folded(<< >>, as) \in T
  <2>1. DOMAIN as = 1..n /\ n \in Nat /\ << >> \in T /\ \A t \in T, k \in 1..n : AddOk(t, as[k]) \in T
    BY <1>2, <1>3 DEF T, n
  <2> QED BY <2>1, FO!FoldKeeps
<1> QED BY <1>1, <1>4 DEF T

-----------------------------------------------------------------------------
\* Usable keeps the files that read as receipts, and nothing else.
LEMMA UsableType ==
  ASSUME NEW S, NEW list \in Seq(S)
  PROVE  Usable(list) \in Seq({f \in S : f.usable})
<1>1. Usable(list) = FU!Folded(<< >>, list)
  BY DEF FU!Folded, Usable, FoldLeft, MapThenFoldSet, FU!FoldLeft, FU!MapThenFoldSet,
         FU!Max, Max
<1> DEFINE T == Seq({f \in S : f.usable})
           n == Len(list)
<1>2. DOMAIN list = 1..n /\ n \in Nat /\ << >> \in T
  OBVIOUS
<1>3. ASSUME NEW t \in T, NEW k \in 1..n PROVE AddUsable(t, list[k]) \in T
  <2>1. list[k] \in S
    BY ElementOfSeq
  <2> QED BY <2>1 DEF AddUsable
<1> HIDE DEF T, n
<1>4. FU!Folded(<< >>, list) \in T
  BY <1>2, <1>3, FU!FoldKeeps
<1> QED BY <1>1, <1>4 DEF T

\* A file more adds at the end, if at all.
LEMMA AddUsableGrows ==
  ASSUME NEW S, NEW t \in Seq(S), NEW f \in S
  PROVE  /\ AddUsable(t, f) \in Seq(S)
         /\ Len(t) <= Len(AddUsable(t, f))
         /\ \A i \in 1..Len(t) : t[i] = AddUsable(t, f)[i]
<1>1. CASE f.usable
  BY <1>1 DEF AddUsable
<1>2. CASE ~f.usable
  BY <1>2 DEF AddUsable
<1> QED BY <1>1, <1>2

\* One file more is one receipt more when it reads as one.
LEMMA UsableAppend ==
  ASSUME NEW S, NEW list \in Seq(S), NEW f \in S
  PROVE  Usable(Append(list, f)) = AddUsable(Usable(list), f)
<1>1. \A l : Usable(l) = FU!Folded(<< >>, l)
  BY DEF FU!Folded, Usable, FoldLeft, MapThenFoldSet, FU!FoldLeft, FU!MapThenFoldSet,
         FU!Max, Max
<1> QED BY <1>1, FU!FoldAppend

\* The receipts among the first k files are the first of all.
LEMMA UsablePrefix ==
  ASSUME NEW S, NEW list \in Seq(S), NEW k \in 0..Len(list)
  PROVE  /\ Len(Usable(SubSeq(list, 1, k))) <= Len(Usable(list))
         /\ \A i \in 1..Len(Usable(SubSeq(list, 1, k))) :
              Usable(SubSeq(list, 1, k))[i] = Usable(list)[i]
<1> DEFINE U(j) == Usable(SubSeq(list, 1, j))
           Begins(j) == /\ Len(U(k)) <= Len(U(j))
                        /\ \A i \in 1..Len(U(k)) : U(k)[i] = U(j)[i]
           good == {d \in 0..(Len(list) - k) : Begins(k + d)}
<1>1. \A l : Usable(l) = FU!Folded(<< >>, l)
  BY DEF FU!Folded, Usable, FoldLeft, MapThenFoldSet, FU!FoldLeft, FU!MapThenFoldSet,
         FU!Max, Max
<1>2. \A j \in 0..Len(list) : U(j) \in Seq(S)
  <2> TAKE j \in 0..Len(list)
  <2>1. SubSeq(list, 1, j) \in Seq(S)
    OBVIOUS
  <2>2. U(j) \in Seq({f \in S : f.usable})
    BY <2>1, UsableType
  <2> QED BY <2>2, SeqMonotonic
<1>3. \A j \in 1..Len(list) : U(j) = AddUsable(U(j - 1), list[j]) /\ list[j] \in S
  BY <1>1, FU!FoldPrefix, ElementOfSeq
<1>4. 0 \in good
  <2>1. Len(U(k)) \in Nat
    BY <1>2
  <2> QED BY <2>1
<1>5. ASSUME NEW d \in 0..(Len(list) - k - 1), d \in good PROVE d + 1 \in good
  <2> DEFINE j == k + d
  <2>1. j \in 0..Len(list) /\ j + 1 \in 1..Len(list) /\ k + (d + 1) = j + 1 /\ (j + 1) - 1 = j
    OBVIOUS
  <2>2. Begins(j)
    BY <1>5
  <2> HIDE DEF j
  <2>3. U(j + 1) = AddUsable(U(j), list[j + 1]) /\ list[j + 1] \in S
    BY <2>1, <1>3
  <2>4. U(j) \in Seq(S) /\ U(k) \in Seq(S)
    BY <2>1, <1>2
  <2> HIDE DEF U
  <2>5. /\ U(j + 1) \in Seq(S)
        /\ Len(U(j)) <= Len(U(j + 1))
        /\ \A i \in 1..Len(U(j)) : U(j)[i] = U(j + 1)[i]
    <3> DEFINE u == U(j)
               v == U(j + 1)
               e == list[j + 1]
    <3>1. u \in Seq(S) /\ e \in S /\ v = AddUsable(u, e)
      BY <2>3, <2>4
    <3> HIDE DEF u, v, e
    <3>2. v \in Seq(S) /\ Len(u) <= Len(v) /\ \A i \in 1..Len(u) : u[i] = v[i]
      BY <3>1, AddUsableGrows
    <3> QED BY <3>2 DEF u, v
  <2>6. Len(U(j)) \in Nat /\ Len(U(k)) \in Nat /\ Len(U(j + 1)) \in Nat
    BY <2>4, <2>5
  <2>7. Begins(j + 1)
    BY <2>2, <2>5, <2>6
  <2> QED BY <2>1, <2>7
<1> HIDE DEF good
<1>6. 0..(Len(list) - k) \subseteq good
  <2> DEFINE m == Len(list) - k
  <2>1. m \in Nat
    OBVIOUS
  <2> HIDE DEF m
  <2>2. \A d \in 0..(m - 1) : d \in good => d + 1 \in good
    BY <1>5 DEF m
  <2>3. 0..m \subseteq good
    BY <2>1, <2>2, <1>4, FU!UpTo
  <2> QED BY <2>3 DEF m
<1>7. Begins(k + (Len(list) - k))
  <2>1. Len(list) - k \in 0..(Len(list) - k)
    OBVIOUS
  <2> HIDE DEF U
  <2> QED BY <1>6, <2>1 DEF good
<1>8. SubSeq(list, 1, k + (Len(list) - k)) = list
  <2>1. k + (Len(list) - k) = Len(list)
    OBVIOUS
  <2> QED BY <2>1, SubSeqFull
<1> QED BY <1>7, <1>8

-----------------------------------------------------------------------------
\* The types of what the lists hold.
LEMMA ElementTypes ==
  ASSUME TypeOK
  PROVE  /\ now \in Nat /\ Len(tokens) \in Nat /\ Len(receipts) \in Nat /\ Len(files) \in Nat
         /\ Len(copy.events) \in Nat /\ Len(copy.anchors) \in Nat /\ Len(history) \in Nat
         /\ \A k \in 1..Len(tokens) :
              /\ tokens[k] \in Token /\ tokens[k].at \in Nat /\ tokens[k].tsa \in TSA
              /\ tokens[k].hash \in Seq(Nat) /\ Len(tokens[k].hash) \in Nat
         /\ \A k \in 1..Len(receipts) : receipts[k] \in Receipt /\ receipts[k].headSeq \in Nat
         /\ \A k \in 1..Len(files) : files[k] \in File
         /\ \A k \in 1..Len(copy.events) :
              /\ copy.events[k] \in Event /\ copy.events[k].num \in Nat
              /\ copy.events[k].prevHash \in Seq(Nat)
         /\ \A k \in 1..Len(history) : history[k] \in 1..written
<1>1. /\ tokens \in Seq(Token) /\ receipts \in Seq(Receipt) /\ files \in Seq(File)
      /\ copy.events \in Seq(Event) /\ copy.anchors \in Seq(Receipt)
      /\ history \in Seq(1..written)
      /\ now \in Nat
  BY AnchoringAssumption DEF TypeOK
<1>2. /\ \A k \in 1..Len(tokens) : tokens[k] \in Token
      /\ \A k \in 1..Len(receipts) : receipts[k] \in Receipt
      /\ \A k \in 1..Len(files) : files[k] \in File
      /\ \A k \in 1..Len(copy.events) : copy.events[k] \in Event
      /\ \A k \in 1..Len(history) : history[k] \in 1..written
  BY <1>1, ElementOfSeq
<1>3. \A k \in 1..Len(tokens) :
        /\ tokens[k].at \in Nat /\ tokens[k].tsa \in TSA
        /\ tokens[k].hash \in Seq(Nat) /\ Len(tokens[k].hash) \in Nat
  BY <1>2, LenProperties DEF Token
<1>4. \A k \in 1..Len(receipts) : receipts[k].headSeq \in Nat
  BY <1>2 DEF Receipt
<1>5. \A k \in 1..Len(copy.events) :
        copy.events[k].num \in Nat /\ copy.events[k].prevHash \in Seq(Nat)
  BY <1>2 DEF Event
<1>6. /\ Len(tokens) \in Nat /\ Len(receipts) \in Nat /\ Len(files) \in Nat
      /\ Len(copy.events) \in Nat /\ Len(copy.anchors) \in Nat /\ Len(history) \in Nat
  BY <1>1, LenProperties
<1> QED BY <1>1, <1>2, <1>3, <1>4, <1>5, <1>6

\* Receipts and receipt files that say what their tokens say.
Sound == {a \in Receipt : Signs(a) /\ Recorded(a)}
SoundFile == {f \in File : f.usable => Signs(f) /\ f.token = f.sha}

\* Those under verification do.
LEMMA SoundLists ==
  ASSUME TypeOK, CopyInv
  PROVE  /\ copy.anchors \in Seq(Sound) /\ files \in Seq(SoundFile)
         /\ Listed \in Seq(Sound) /\ Usable(files) \in Seq({f \in SoundFile : f.usable})
<1>1. copy.anchors \in Seq(Sound)
  <2>1. copy.anchors \in Seq(Receipt)
    BY DEF TypeOK
  <2>2. \A k \in 1..Len(copy.anchors) : copy.anchors[k] \in Sound
    BY <2>1, ElementOfSeq DEF CopyInv, Sound
  <2> QED BY <2>1, <2>2
<1>2. files \in Seq(SoundFile)
  <2>1. files \in Seq(File)
    BY DEF TypeOK
  <2>2. \A k \in 1..Len(files) : files[k] \in SoundFile
    BY <2>1, ElementOfSeq DEF CopyInv, SoundFile
  <2> QED BY <2>1, <2>2
<1> QED BY <1>1, <1>2, OkAnchorsType, UsableType DEF Listed

\* The receipt a result is about: one of the copy, with its record, or a file with its token.
LEMMA SubjectSound ==
  ASSUME TypeOK, CopyInv, NEW i \in 1..Total
  PROVE  /\ Signs(Subject(i))
         /\ i <= Len(Listed) => Subject(i) \in Sound
         /\ i > Len(Listed) => Subject(i) \in SoundFile /\ Subject(i).usable
<1>1. Listed \in Seq(Sound) /\ Usable(files) \in Seq({f \in SoundFile : f.usable})
  BY SoundLists
<1> DEFINE m == Len(Listed)
           n == Len(Usable(files))
<1>2. m \in Nat /\ n \in Nat /\ Total = m + n
  BY <1>1 DEF Total
<1>3. CASE i <= m
  <2>1. i \in 1..m
    BY <1>2, <1>3
  <2>2. Listed[i] \in Sound
    BY <1>1, <2>1, ElementOfSeq
  <2> QED BY <1>2, <1>3, <2>2 DEF Subject, Sound
<1>4. CASE i > m
  <2>1. i - m \in 1..n /\ ~(i <= m)
    BY <1>2, <1>4
  <2>2. Usable(files)[i - m] \in {f \in SoundFile : f.usable}
    BY <1>1, <2>1, ElementOfSeq
  <2> QED BY <1>2, <1>4, <2>1, <2>2 DEF Subject, SoundFile
<1> QED BY <1>2, <1>3, <1>4

\* The event a receipt names is a position of the copy, or none.
LEMMA EventAtRange ==
  ASSUME TypeOK, NEW a
  PROVE  /\ EventAt(a) \in 0..Len(copy.events)
         /\ copy.seqOK /\ EventAt(a) > 0 => copy.events[EventAt(a)].seq = a.headSeq
         /\ \A k \in 1..Len(copy.events) :
              copy.seqOK /\ copy.events[k].seq = a.headSeq => EventAt(a) >= k
<1> DEFINE I == {k \in 1..Len(copy.events) :
                   IF copy.seqOK THEN copy.events[k].seq = a.headSeq
                   ELSE copy.events[k].id = a.headEvent}
<1>1. EventAt(a) = IF I # {} THEN Max(I) ELSE 0
  BY DEF EventAt, SelectLastInSeq
<1>2. Len(copy.events) \in Nat
  BY DEF TypeOK
<1>3. I # {} => Max(I) \in I /\ \A x \in I : x <= Max(I)
  <2>1. I \in SUBSET (0..Len(copy.events))
    BY <1>2
  <2> HIDE DEF I
  <2> QED BY <1>2, <2>1, PositionsOf
<1>4. CASE I = {}
  BY <1>1, <1>2, <1>4
<1>5. CASE I # {}
  <2>1. PICK m \in I : m = EventAt(a) /\ \A x \in I : x <= m
    BY <1>1, <1>3, <1>5
  <2> QED BY <1>2, <2>1
<1> QED BY <1>4, <1>5

\* checkAnchor's verdict has the shape of a result; one that is not a failure is about a position
\* whose hash the receipt signs.
LEMMA CheckAnchorType ==
  ASSUME TypeOK, NEW a, Signs(a), NEW offline \in BOOLEAN
  PROVE  /\ CheckAnchor(a, offline) \in Rule!Result
         /\ CheckAnchor(a, offline).head \in 0..Len(copy.events)
         /\ CheckAnchor(a, offline).status # "fail" =>
              /\ CheckAnchor(a, offline).head = EventAt(a)
              /\ Placed(a, EventAt(a))
<1>1. EventAt(a) \in 0..Len(copy.events) /\ Len(copy.events) \in Nat
  <2>1. Len(copy.events) \in Nat
    BY DEF TypeOK
  <2> QED BY <2>1, EventAtRange
<1>2. \A k \in 1..Len(tokens) : tokens[k] \in Token
  BY ElementOfSeq DEF TypeOK
<1>3. TokenVerifies(a) =>
        /\ tokens[a.token].at \in Nat
        /\ ValidToday(tokens[a.token]) \in BOOLEAN
  BY <1>2 DEF TokenVerifies, Signs, Token, ValidToday
<1>4. Fails \in Rule!Result /\ Fails.status = "fail" /\ Fails.head = 0
  BY DEF Fails, Verdict, Rule!Result
<1> DEFINE c == CheckAnchor(a, offline)
<1>5. \/ c = Fails
      \/ /\ Placed(a, EventAt(a))
         /\ \/ c = Verdict("not_checked", EventAt(a), 0, FALSE)
            \/ /\ TokenVerifies(a)
               /\ \/ c = Verdict("not_checked", EventAt(a), tokens[a.token].at, FALSE)
                  \/ c = Verdict("pass", EventAt(a), tokens[a.token].at, ValidToday(tokens[a.token]))
  BY DEF CheckAnchor
<1> HIDE DEF c
<1>6. /\ c \in Rule!Result
      /\ c.head \in 0..Len(copy.events)
      /\ c.status # "fail" => c.head = EventAt(a) /\ Placed(a, EventAt(a))
  <2>1. CASE c = Fails
    BY <1>1, <1>4, <2>1
  <2>2. CASE c # Fails
    <3>1. PICK st \in {"pass", "not_checked"}, t \in Nat, v \in BOOLEAN :
            c = Verdict(st, EventAt(a), t, v)
      BY <1>3, <1>5, <2>2
    <3> QED BY <1>1, <1>5, <2>2, <3>1 DEF Verdict, Rule!Result
  <2> QED BY <2>1, <2>2
<1> QED BY <1>6 DEF c

\* What a passing verdict says, and that a token's time is the only part of it that today decides.
LEMMA PassingVerdict ==
  ASSUME TypeOK, NEW a, Signs(a), NEW offline \in BOOLEAN, CheckAnchor(a, offline).status = "pass"
  PROVE  /\ a.token = a.sha /\ tokens[a.sha].tsa \in roots
         /\ CheckAnchor(a, offline)
              = Verdict("pass", EventAt(a), tokens[a.sha].at, ValidToday(tokens[a.sha]))
<1>1. CheckAnchor(a, offline) # Fails /\ \A i, t : CheckAnchor(a, offline) # Verdict("not_checked", i, t, FALSE)
  BY DEF Fails, Verdict
<1> QED BY <1>1 DEF CheckAnchor, TokenVerifies

-----------------------------------------------------------------------------
\* While the copy stays as it is and tokens are only added, checkAnchor says the same of a receipt;
\* whether its authority's certificates still hold depends on the time.
LEMMA VerdictStable ==
  ASSUME TypeOK, NEW a, Signs(a), NEW offline \in BOOLEAN,
         UNCHANGED <<copy, records, bundle, roots>>,
         \A k \in 1..Len(tokens) : tokens'[k] = tokens[k]
  PROVE  /\ CheckAnchor(a, offline).status = CheckAnchor(a, offline)'.status
         /\ CheckAnchor(a, offline).head = CheckAnchor(a, offline)'.head
         /\ CheckAnchor(a, offline).signedAt = CheckAnchor(a, offline)'.signedAt
         /\ now' = now => CheckAnchor(a, offline)' = CheckAnchor(a, offline)
<1>1. EventAt(a)' = EventAt(a)
  BY DEF EventAt, SelectLastInSeq
<1>2. \A k : Placed(a, k)' = Placed(a, k)
  BY DEF Placed, Recomputed
<1>3. \A k : RecordMatches(a, k)' = RecordMatches(a, k)
  BY DEF RecordMatches, SelectLastInSeq
<1>4. TokenVerifies(a)' = TokenVerifies(a)
  BY DEF TokenVerifies, Signs
<1>5. TokenVerifies(a) => tokens'[a.token] = tokens[a.token]
  BY DEF TokenVerifies, Signs
<1>6. now' = now => ValidToday(tokens[a.token])' = (now <= NotAfter[tokens'[a.token].tsa])
  BY DEF ValidToday
<1> DEFINE i == EventAt(a)
           fails == ~Placed(a, i) \/ ~(offline \/ RecordMatches(a, i))
           carries == offline \/ (bundle /\ a.token # 0)
<1>7. CASE fails
  BY <1>1, <1>2, <1>3, <1>7 DEF CheckAnchor, Fails, Verdict
<1>8. CASE ~fails /\ ~carries
  BY <1>1, <1>2, <1>3, <1>8 DEF CheckAnchor, Fails, Verdict
<1>9. CASE ~fails /\ carries /\ ~TokenVerifies(a)
  BY <1>1, <1>2, <1>3, <1>4, <1>9 DEF CheckAnchor, Fails, Verdict
<1>10. CASE ~fails /\ carries /\ TokenVerifies(a) /\ roots = NoRoots
  BY <1>1, <1>2, <1>3, <1>4, <1>5, <1>10 DEF CheckAnchor, Verdict
<1>11. CASE ~fails /\ carries /\ TokenVerifies(a) /\ roots # NoRoots
  <2>1. CheckAnchor(a, offline)
          = Verdict("pass", i, tokens[a.token].at, ValidToday(tokens[a.token]))
    BY <1>11 DEF CheckAnchor
  <2>2. CheckAnchor(a, offline)'
          = Verdict("pass", i, tokens[a.token].at, ValidToday(tokens[a.token])')
    BY <1>1, <1>2, <1>3, <1>4, <1>5, <1>11 DEF CheckAnchor, ValidToday
  <2>3. now' = now => ValidToday(tokens[a.token])' = ValidToday(tokens[a.token])
    BY <1>5, <1>11 DEF ValidToday
  <2> QED BY <2>1, <2>2, <2>3 DEF Verdict
<1> QED BY <1>7, <1>8, <1>9, <1>10, <1>11

\* So does every result, while receipts are only added beside the copy.
LEMMA SubjectStable ==
  ASSUME TypeOK, CopyInv, NEW i \in 1..Total,
         UNCHANGED <<copy, records, bundle, roots>>,
         \A k \in 1..Len(tokens) : tokens'[k] = tokens[k],
         files' = files \/ \E f \in File : files' = Append(files, f)
  PROVE  /\ Subject(i)' = Subject(i) /\ i \in 1..Total'
         /\ TokenOf(i)' = TokenOf(i)
         /\ SubjectVerdict(i).status = SubjectVerdict(i)'.status
         /\ SubjectVerdict(i).head = SubjectVerdict(i)'.head
         /\ SubjectVerdict(i).signedAt = SubjectVerdict(i)'.signedAt
         /\ now' = now => SubjectVerdict(i)' = SubjectVerdict(i)
<1>1. Listed' = Listed /\ Len(Listed) \in Nat
  <2>1. Listed \in Seq(Sound)
    BY SoundLists
  <2> QED BY <2>1 DEF Listed
<1> DEFINE u == Usable(files)
           v == Usable(files')
<1>2. /\ u \in Seq(File) /\ v \in Seq(File) /\ Len(u) <= Len(v)
      /\ \A k \in 1..Len(u) : v[k] = u[k]
  <2>1. files \in Seq(File)
    BY DEF TypeOK
  <2>2. u \in Seq(File)
    BY <2>1, UsableType, SeqMonotonic
  <2>3. CASE files' = files
    BY <2>2, <2>3
  <2>4. CASE \E f \in File : files' = Append(files, f)
    <3>1. PICK f \in File : files' = Append(files, f)
      BY <2>4
    <3>2. v = AddUsable(u, f)
      BY <2>1, <3>1, UsableAppend
    <3> HIDE DEF u, v
    <3> QED BY <2>2, <3>2, AddUsableGrows
  <2> QED BY <2>3, <2>4
<1> HIDE DEF u, v
<1>3. Total = Len(Listed) + Len(u) /\ Total' = Len(Listed) + Len(v)
  BY <1>1 DEF Total, u, v
<1>4. Subject(i)' = Subject(i) /\ i \in 1..Total'
  <2>1. i \in 1..Total'
    BY <1>1, <1>2, <1>3
  <2>2. CASE i <= Len(Listed)
    BY <1>1, <2>1, <2>2 DEF Subject
  <2>3. CASE ~(i <= Len(Listed))
    <3>1. i - Len(Listed) \in 1..Len(u)
      BY <1>1, <1>2, <1>3, <2>3
    <3>2. u[i - Len(Listed)] = v[i - Len(Listed)]
      BY <1>2, <3>1
    <3> QED BY <1>1, <2>1, <2>3, <3>2 DEF Subject, u, v
  <2> QED BY <2>2, <2>3
<1> DEFINE a == Subject(i)
           o == i > Len(Listed)
<1>5. Signs(a) /\ o \in BOOLEAN
  BY SubjectSound
<1>6. SubjectVerdict(i) = CheckAnchor(a, o)
  BY DEF SubjectVerdict
<1>7. TokenOf(i)' = TokenOf(i)
  BY <1>4, <1>5 DEF TokenOf, Signs
<1>8. PICK b, p : b = a /\ p = o
  OBVIOUS
<1>9. SubjectVerdict(i)' = CheckAnchor(b, p)'
  BY <1>1, <1>4, <1>8 DEF SubjectVerdict
<1>10. SubjectVerdict(i) = CheckAnchor(b, p) /\ Signs(b) /\ p \in BOOLEAN
  BY <1>5, <1>6, <1>8
<1> HIDE DEF a, o
<1> QED BY <1>4, <1>7, <1>9, <1>10, VerdictStable

\* The number of results to come never falls.
LEMMA TotalGrows ==
  ASSUME TypeOK, CopyInv, UNCHANGED copy,
         files' = files \/ \E f \in File : files' = Append(files, f)
  PROVE  /\ Len(Listed) \in Nat /\ Listed' = Listed
         /\ Total \in Nat /\ Total' \in Nat /\ Total <= Total'
         /\ files' = files => Total' = Total
<1>1. Listed' = Listed /\ Len(Listed) \in Nat
  <2>1. Listed \in Seq(Sound)
    BY SoundLists
  <2> QED BY <2>1 DEF Listed
<1> DEFINE u == Usable(files)
           v == Usable(files')
<1>2. u \in Seq(File) /\ v \in Seq(File) /\ Len(u) <= Len(v)
  <2>1. files \in Seq(File)
    BY DEF TypeOK
  <2>2. u \in Seq(File)
    BY <2>1, UsableType, SeqMonotonic
  <2>3. CASE files' = files
    BY <2>2, <2>3
  <2>4. CASE \E f \in File : files' = Append(files, f)
    <3>1. PICK f \in File : files' = Append(files, f)
      BY <2>4
    <3>2. v = AddUsable(u, f)
      BY <2>1, <3>1, UsableAppend
    <3> HIDE DEF u, v
    <3> QED BY <2>2, <3>2, AddUsableGrows
  <2> QED BY <2>3, <2>4
<1>3. files' = files => u = v
  OBVIOUS
<1> HIDE DEF u, v
<1>4. Total = Len(Listed) + Len(u) /\ Total' = Len(Listed) + Len(v)
  BY <1>1 DEF Total, u, v
<1> QED BY <1>1, <1>2, <1>3, <1>4

\* What the earlier verification is remembered to have said stays what it said.
LEMMA LastStable ==
  ASSUME TypeOK, CopyInv, LastInv, UNCHANGED <<copy, records, bundle, roots, last>>,
         now' \in Nat, now <= now',
         \A k \in 1..Len(tokens) : tokens'[k] = tokens[k],
         files' = files \/ \E f \in File : files' = Append(files, f)
  PROVE  LastInv'
<1> SUFFICES ASSUME last # NoRun
             PROVE  /\ last.at <= now' /\ last.files <= Len(files')
                    /\ Len(last.status) <= Total'
                    /\ last.files = Len(files') => Len(last.status) = Total'
                    /\ \A i \in 1..Len(last.status) :
                         last.status[i] = IF StandsAt(i, last.at, Len(last.status))'
                                          THEN SubjectVerdict(i)'.status ELSE "fail"
  BY DEF LastInv
<1>1. /\ now \in Nat /\ last.at \in Nat /\ last.files \in Nat /\ Len(last.status) \in Nat
      /\ files \in Seq(File)
  BY AnchoringAssumption DEF TypeOK
<1>2. /\ last.at <= now /\ last.files <= Len(files)
      /\ Len(last.status) <= Total /\ (last.files = Len(files) => Len(last.status) = Total)
      /\ \A i \in 1..Len(last.status) :
           last.status[i] = IF StandsAt(i, last.at, Len(last.status))
                            THEN SubjectVerdict(i).status ELSE "fail"
  BY DEF LastInv
<1>3. Total \in Nat /\ Total' \in Nat /\ Total <= Total' /\ (files' = files => Total' = Total)
  BY TotalGrows
<1>4. /\ last.at <= now' /\ last.files <= Len(files') /\ Len(last.status) <= Total'
      /\ last.files = Len(files') => Len(last.status) = Total'
  <2>1. Len(files) \in Nat /\ (files' = files \/ Len(files') = Len(files) + 1)
    BY <1>1
  <2> QED BY <1>1, <1>2, <1>3, <2>1
<1> DEFINE m == Len(last.status)
<1>5. \A i \in 1..m :
        /\ TokenOf(i)' = TokenOf(i)
        /\ SubjectVerdict(i).status = SubjectVerdict(i)'.status
        /\ SubjectVerdict(i).head = SubjectVerdict(i)'.head
        /\ SubjectVerdict(i).signedAt = SubjectVerdict(i)'.signedAt
  <2> TAKE i \in 1..m
  <2>1. i \in 1..Total
    BY <1>1, <1>2, <1>3
  <2> QED BY <2>1, SubjectStable
<1>6. \A i \in 1..m : StandsAt(i, last.at, m)' <=> StandsAt(i, last.at, m)
  BY <1>5 DEF StandsAt, ValidAt
<1> QED BY <1>2, <1>4, <1>5, <1>6

-----------------------------------------------------------------------------
\* The invariant holds at first.
LEMMA InitInv == Init => IInv
<1> SUFFICES ASSUME Init PROVE IInv
  OBVIOUS
<1>1. TypeOK
  <2>1. << >> \in Seq(1..0) /\ << >> \in Seq(Token) /\ << >> \in Seq(Receipt) /\ << >> \in Seq(File)
        /\ << >> \in Seq(Event) /\ << >> \in Seq(Rule!Result)
        /\ << >> \in Seq({"pass", "fail", "not_checked"})
    BY EmptySeq
  <2>2. /\ copy \in [events : Seq(Event), anchors : Seq(Receipt), seqOK : BOOLEAN]
        /\ last \in [at : Nat, files : Nat, status : Seq({"pass", "fail", "not_checked"})]
    BY <2>1 DEF Init, NoCopy, NoRun
  <2>3. now \in 0..MaxTime /\ written \in Nat /\ edits \in Nat
    BY AnchoringAssumption DEF Init
  <2>4. /\ bundle \in BOOLEAN /\ (roots = NoRoots \/ roots \subseteq TSA)
        /\ bounds \in [tsa : SUBSET TSA, tokens : Nat, edits : Nat, files : Nat]
    BY AnchoringAssumption DEF Init
  <2> QED BY <2>1, <2>2, <2>3, <2>4 DEF Init, TypeOK
<1>2. StoreInv
  BY EmptySeq DEF Init, StoreInv
<1>3. CopyInv
  BY EmptySeq DEF Init, CopyInv, NoCopy
<1>4. UneditedInv
  BY EmptySeq DEF Init, UneditedInv
<1>5. RunInv /\ LastInv
  BY DEF Init, RunInv, LastInv
<1> QED BY <1>1, <1>2, <1>3, <1>4, <1>5 DEF IInv

-----------------------------------------------------------------------------
\* Before the export nothing is verified: the store's steps disturb only the store.
LEMMA StoreIdle ==
  ASSUME IInv, StoreRuns, UNCHANGED <<input, run, last>>
  PROVE  CopyInv' /\ RunInv' /\ LastInv'
<1>1. copy' = NoCopy /\ phase' = "idle" /\ files' = << >> /\ last' = NoRun
  BY DEF IInv, CopyInv, StoreRuns, input, run
<1>2. CopyInv'
  BY <1>1, EmptySeq DEF CopyInv, NoCopy
<1>3. RunInv' /\ LastInv'
  BY <1>1 DEF RunInv, LastInv
<1> QED BY <1>2, <1>3

\* A step of the store keeps every type when it keeps its own variables'.
LEMMA StoreTypes ==
  ASSUME IInv, UNCHANGED <<now, input, run, last>>, edits' \in Nat,
         written' \in Nat, history' \in Seq(1..written'), tokens' \in Seq(Token),
         pending' \subseteq 1..Len(tokens'),
         records' \subseteq [num : 1..written', hash : Seq(Nat), token : 1..Len(tokens')],
         receipts' \in Seq(Receipt)
  PROVE  TypeOK'
BY DEF IInv, TypeOK, input, run

\* The events of a chain are numbers.
LEMMA NumbersAreNat ==
  ASSUME NEW n \in Nat, NEW s \in Seq(1..n)
  PROVE  s \in Seq(Nat) /\ s \in Seq(1..(n + 1)) /\ Len(s) \in Nat
<1>1. 1..n \subseteq Nat /\ 1..n \subseteq 1..(n + 1)
  OBVIOUS
<1> QED BY <1>1, SeqMonotonic

\* The time passes: what was signed was signed before.
LEMMA TickStep == ASSUME IInv, Tick PROVE IInv'
<1>1. now \in Nat /\ now' = now + 1 /\ now' \in 0..MaxTime
  BY AnchoringAssumption DEF IInv, TypeOK, Tick
<1>2. TypeOK'
  BY <1>1 DEF IInv, TypeOK, Tick, input, run
<1>3. StoreInv'
  <2>1. \A k \in 1..Len(tokens) : tokens[k].at \in Nat
    BY ElementTypes DEF IInv
  <2> QED BY <1>1, <2>1 DEF IInv, StoreInv, Signs, Recorded, Tick
<1>4. CopyInv'
  BY DEF IInv, CopyInv, Signs, Recorded, Tick, input, run
<1>5. UneditedInv'
  BY DEF IInv, UneditedInv, Names, ExportedEvent, Tick, input, run
<1>6. RunInv'
  BY DEF RunInv, Tick, run
<1>7. LastInv'
  BY <1>1, LastStable DEF IInv, Tick, input
<1> QED BY <1>2, <1>3, <1>4, <1>5, <1>6, <1>7 DEF IInv

\* An event is written: its number is new, and the tokens sign what was before.
LEMMA AppendEventStep == ASSUME IInv, AppendEvent PROVE IInv'
<1>1. /\ written \in Nat /\ written' = written + 1 /\ history \in Seq(1..written)
      /\ history' = Append(history, written') /\ Len(history) \in Nat
      /\ tokens \in Seq(Token) /\ pending \subseteq 1..Len(tokens) /\ receipts \in Seq(Receipt)
      /\ records \subseteq [num : 1..written, hash : Seq(Nat), token : 1..Len(tokens)]
  BY DEF IInv, TypeOK, AppendEvent
<1>2. history \in Seq(1..written') /\ history' \in Seq(1..written') /\ Len(history') = Len(history) + 1
      /\ \A k \in 1..Len(history) : history'[k] = history[k]
      /\ history'[Len(history) + 1] = written'
  <2>1. history \in Seq(1..written') /\ written' \in 1..written'
    BY <1>1, NumbersAreNat
  <2> QED BY <1>1, <2>1
<1>3. TypeOK'
  <2>1. records' \subseteq [num : 1..written', hash : Seq(Nat), token : 1..Len(tokens')]
    BY <1>1 DEF AppendEvent
  <2>2. edits' \in Nat
    BY DEF IInv, TypeOK, AppendEvent
  <2> QED BY <1>1, <1>2, <2>1, <2>2, StoreTypes DEF AppendEvent
<1>4. StoreInv'
  BY DEF IInv, StoreInv, Signs, Recorded, AppendEvent
<1>5. UneditedInv'
  <2> SUFFICES ASSUME edits = 0
      PROVE /\ written' = Len(history')
            /\ \A k \in 1..Len(history') : history'[k] = k
            /\ \A i \in 1..Len(tokens) :
                 /\ Len(tokens[i].hash) <= Len(history')
                 /\ \A k \in 1..Len(tokens[i].hash) : tokens[i].hash[k] = k
            /\ \A i \in 1..Len(receipts) :
                 Names(receipts[i]) /\ receipts[i].record \in (receipts[i].headSeq + 1)..Len(history')
            /\ copy = NoCopy
            /\ \A i \in 1..Len(files) : files[i].usable => Names(files[i])
    BY DEF UneditedInv, AppendEvent, input, Names
  <2>1. /\ written = Len(history)
        /\ \A k \in 1..Len(history) : history[k] = k
        /\ \A i \in 1..Len(tokens) :
             /\ Len(tokens[i].hash) <= Len(history)
             /\ \A k \in 1..Len(tokens[i].hash) : tokens[i].hash[k] = k
        /\ \A i \in 1..Len(receipts) :
             Names(receipts[i]) /\ receipts[i].record \in (receipts[i].headSeq + 1)..Len(history)
        /\ \A i \in 1..Len(files) : files[i].usable => Names(files[i])
    BY DEF IInv, UneditedInv
  <2>2. \A k \in 1..Len(history') : history'[k] = k
    BY <1>1, <1>2, <2>1
  <2>3. \A i \in 1..Len(tokens) : Len(tokens[i].hash) <= Len(history')
    <3>1. \A i \in 1..Len(tokens) : Len(tokens[i].hash) \in Nat
      BY ElementTypes DEF IInv
    <3> QED BY <1>1, <1>2, <2>1, <3>1
  <2>4. ASSUME NEW i \in 1..Len(receipts)
        PROVE  receipts[i].record \in (receipts[i].headSeq + 1)..Len(history')
    <3>1. receipts[i].headSeq \in Nat
      BY ElementTypes DEF IInv
    <3>2. receipts[i].record \in (receipts[i].headSeq + 1)..Len(history)
      BY <2>1
    <3>3. Len(history) \in Nat /\ Len(history') = Len(history) + 1
      BY <1>1, <1>2
    <3> QED BY <3>1, <3>2, <3>3
  <2> QED BY <1>1, <1>2, <2>1, <2>2, <2>3, <2>4 DEF AppendEvent, StoreRuns
<1>6. CopyInv' /\ RunInv' /\ LastInv'
  BY StoreIdle DEF AppendEvent
<1> QED BY <1>3, <1>4, <1>5, <1>6 DEF IInv

\* A new token leaves the others, and what the receipts say of them.
LEMMA TokensGrow ==
  ASSUME TypeOK, NEW tok \in Token, tokens' = Append(tokens, tok)
  PROVE  /\ tokens' \in Seq(Token) /\ Len(tokens') = Len(tokens) + 1
         /\ \A k \in 1..Len(tokens) : tokens'[k] = tokens[k] /\ k \in 1..Len(tokens')
         /\ tokens'[Len(tokens) + 1] = tok
         /\ \A a : Signs(a) => Signs(a)'
<1>1. tokens \in Seq(Token)
  BY DEF TypeOK
<1>2. /\ tokens' \in Seq(Token) /\ Len(tokens') = Len(tokens) + 1
      /\ \A k \in 1..Len(tokens) : tokens'[k] = tokens[k] /\ k \in 1..Len(tokens')
      /\ tokens'[Len(tokens) + 1] = tok
  BY <1>1
<1>3. ASSUME NEW a, Signs(a) PROVE Signs(a)'
  BY <1>2, <1>3 DEF Signs
<1> QED BY <1>2, <1>3

\* A token signs the whole chain as it is.
LEMMA SignHeadStep ==
  ASSUME IInv, NEW tsa \in bounds.tsa, SignHead(tsa)
  PROVE  IInv'
<1> DEFINE tok == [hash |-> history, at |-> now, tsa |-> tsa]
           n == Len(tokens)
<1>1. TypeOK /\ StoreInv /\ UneditedInv
  BY DEF IInv
<1>2. tok \in Token
  BY <1>1, NumbersAreNat, ElementTypes DEF TypeOK, Token
<1>3. tokens' = Append(tokens, tok)
  BY DEF SignHead
<1> HIDE DEF tok
<1>4. /\ tokens' \in Seq(Token) /\ Len(tokens') = n + 1 /\ n \in Nat
      /\ \A k \in 1..n : tokens'[k] = tokens[k] /\ k \in 1..Len(tokens')
      /\ tokens'[n + 1] = tok
      /\ \A a : Signs(a) => Signs(a)'
  BY <1>1, <1>2, <1>3, TokensGrow, ElementTypes
<1>5. TypeOK'
  <2>1. pending' \subseteq 1..Len(tokens')
    <3>1. pending \subseteq 1..n /\ pending' = pending \cup {Len(tokens')}
      BY <1>1 DEF TypeOK, SignHead
    <3>2. Len(tokens') \in 1..Len(tokens')
      BY <1>4
    <3> QED BY <1>4, <3>1, <3>2
  <2>2. records' \subseteq [num : 1..written', hash : Seq(Nat), token : 1..Len(tokens')]
    <3>1. records' = records /\ written' = written
          /\ records \subseteq [num : 1..written, hash : Seq(Nat), token : 1..n]
      BY <1>1 DEF TypeOK, SignHead
    <3> QED BY <1>4, <3>1
  <2> QED BY <1>1, <1>4, <2>1, <2>2, StoreTypes DEF SignHead, TypeOK
<1>6. StoreInv'
  <2>1. \A i \in 1..Len(tokens') : tokens'[i].at <= now' /\ tokens'[i].hash # << >>
    <3> TAKE i \in 1..Len(tokens')
    <3>1. CASE i \in 1..n
      BY <1>1, <1>4, <3>1 DEF StoreInv, SignHead
    <3>2. CASE i = n + 1
      <4>1. tokens'[i].at = now /\ tokens'[i].hash = history /\ now \in Nat
        BY <1>1, <1>4, <3>2, ElementTypes DEF tok
      <4> QED BY <4>1 DEF SignHead
    <3> QED BY <1>4, <3>1, <3>2
  <2>2. \A r \in records' : r.hash = tokens'[r.token].hash
    <3>1. \A r \in records : r.token \in 1..n /\ r.hash = tokens[r.token].hash
      BY <1>1 DEF TypeOK, StoreInv
    <3> QED BY <1>4, <3>1 DEF SignHead
  <2>3. (\A i \in 1..Len(receipts) :
           Signs(receipts[i]) /\ Recorded(receipts[i]) /\ receipts[i].token = receipts[i].sha)'
    <3>1. receipts' = receipts /\ records' = records
      BY DEF SignHead
    <3> QED BY <1>1, <1>4, <3>1 DEF StoreInv, Recorded
  <2> QED BY <1>1, <2>1, <2>2, <2>3 DEF StoreInv, SignHead
<1>7. UneditedInv'
  <2> SUFFICES ASSUME edits = 0 PROVE UneditedInv'
    BY DEF UneditedInv, SignHead
  <2>1. \A i \in 1..Len(tokens') :
          /\ Len(tokens'[i].hash) <= Len(history)
          /\ \A k \in 1..Len(tokens'[i].hash) : tokens'[i].hash[k] = k
    <3> TAKE i \in 1..Len(tokens')
    <3>1. CASE i \in 1..n
      BY <1>1, <1>4, <3>1 DEF UneditedInv
    <3>2. CASE i = n + 1
      <4>1. tokens'[i].hash = history /\ Len(history) \in Nat
        BY <1>1, <1>4, <3>2, ElementTypes DEF tok
      <4> QED BY <1>1, <4>1 DEF UneditedInv
    <3> QED BY <1>4, <3>1, <3>2
  <2>2. copy' = NoCopy
    BY DEF SignHead, StoreRuns, input
  <2> QED BY <1>1, <2>1, <2>2 DEF UneditedInv, SignHead, input, Names
<1>8. CopyInv' /\ RunInv' /\ LastInv'
  BY StoreIdle DEF SignHead
<1> QED BY <1>5, <1>6, <1>7, <1>8 DEF IInv

\* A receipt and its record name the same token, under a number never used before.
LEMMA RecordAnchorStep ==
  ASSUME IInv, NEW t \in pending, RecordAnchor(t)
  PROVE  IInv'
<1>0. PICK h, w, m : h = tokens[t].hash /\ w = written + 1 /\ m = tokens[t].at
  OBVIOUS
<1> DEFINE rec == [num |-> w, hash |-> h, token |-> t]
           a == [id |-> t, ok |-> TRUE, headSeq |-> Len(h), headHash |-> h, headEvent |-> h[Len(h)],
                 record |-> w, sha |-> t, token |-> t, signedAt |-> m]
           n == Len(receipts)
<1>1. TypeOK /\ StoreInv /\ UneditedInv
  BY DEF IInv
<1>2. /\ written \in Nat /\ written' = w /\ w = written + 1 /\ w \in Nat /\ history' = Append(history, w)
      /\ records' = records \cup {rec} /\ receipts' = Append(receipts, a)
      /\ tokens' = tokens /\ edits' = edits /\ now' = now /\ pending' = pending \ {t}
      /\ UNCHANGED <<input, run, last>>
  <2>1. written \in Nat
    BY <1>1 DEF TypeOK
  <2> QED BY <1>0, <2>1 DEF RecordAnchor
<1>3. t \in 1..Len(tokens) /\ h \in Seq(Nat) /\ h # << >> /\ Len(h) \in Nat \ {0}
      /\ m \in Nat /\ h[Len(h)] \in Nat
  <2>1. t \in 1..Len(tokens)
    BY <1>1 DEF TypeOK
  <2>2. h \in Seq(Nat) /\ h # << >> /\ m \in Nat
    BY <1>0, <1>1, <2>1, ElementTypes DEF StoreInv
  <2>3. Len(h) \in Nat \ {0}
    BY <2>2, EmptySeq
  <2> QED BY <2>1, <2>2, <2>3, ElementOfSeq
<1>4. a \in Receipt /\ t \in Nat
  <2>1. t \in Nat /\ w \in Nat
    BY <1>1, <1>2, <1>3, ElementTypes
  <2> QED BY <1>3, <2>1 DEF Receipt
<1>5. Signs(a)' /\ Recorded(a)' /\ a.token = a.sha
  BY <1>0, <1>2, <1>3 DEF Signs, Recorded
<1>6. /\ a.headSeq = Len(h) /\ a.headHash = h /\ a.headEvent = h[Len(h)]
      /\ a.record = w /\ rec.num = w /\ rec.hash = h /\ rec.token = t
  OBVIOUS
<1>7. /\ history \in Seq(1..w) /\ history' \in Seq(1..w) /\ Len(history) \in Nat
      /\ Len(history') = Len(history) + 1
      /\ \A k \in 1..Len(history) : history'[k] = history[k]
      /\ history'[Len(history) + 1] = w
  <2>1. history \in Seq(1..w) /\ w \in 1..w /\ Len(history) \in Nat
    BY <1>1, <1>2, NumbersAreNat DEF TypeOK
  <2> QED BY <1>2, <2>1
<1>8. rec \in [num : 1..w, hash : Seq(Nat), token : 1..Len(tokens)]
  BY <1>2, <1>3
<1> HIDE DEF a, rec
<1>9. /\ receipts' \in Seq(Receipt) /\ Len(receipts') = n + 1 /\ n \in Nat
      /\ \A k \in 1..n : receipts'[k] = receipts[k]
      /\ receipts'[n + 1] = a
  <2>1. receipts \in Seq(Receipt)
    BY <1>1 DEF TypeOK
  <2> QED BY <1>2, <1>4, <2>1
<1>10. TypeOK'
  <2>1. records' \subseteq [num : 1..written', hash : Seq(Nat), token : 1..Len(tokens')]
    <3>1. records \subseteq [num : 1..written, hash : Seq(Nat), token : 1..Len(tokens)]
      BY <1>1 DEF TypeOK
    <3>2. records \subseteq [num : 1..written', hash : Seq(Nat), token : 1..Len(tokens)]
      BY <1>2, <3>1
    <3> QED BY <1>2, <1>8, <3>2
  <2>2. pending' \subseteq 1..Len(tokens') /\ written' \in Nat /\ tokens' \in Seq(Token)
        /\ edits' \in Nat
    BY <1>1, <1>2 DEF TypeOK
  <2> QED BY <1>2, <1>7, <1>9, <2>1, <2>2, StoreTypes
<1>11. StoreInv'
  <2>1. \A r \in records' : r.hash = tokens'[r.token].hash
    BY <1>0, <1>1, <1>2, <1>6 DEF StoreInv
  <2>2. \A r, s \in records' : r.num = s.num => r = s
    <3>1. \A r \in records : r.num # w
      <4>1. records \subseteq [num : 1..written, hash : Seq(Nat), token : 1..Len(tokens)]
        BY <1>1 DEF TypeOK
      <4> QED BY <1>2, <4>1
    <3> QED BY <1>1, <1>2, <1>6, <3>1 DEF StoreInv
  <2>3. (\A i \in 1..Len(receipts) :
           Signs(receipts[i]) /\ Recorded(receipts[i]) /\ receipts[i].token = receipts[i].sha)'
    <3>1. SUFFICES ASSUME NEW i \in 1..(n + 1)
                   PROVE (Signs(receipts[i]) /\ Recorded(receipts[i])
                          /\ receipts[i].token = receipts[i].sha)'
      BY <1>9
    <3>2. CASE i \in 1..n
      <4>1. /\ Signs(receipts[i]) /\ Recorded(receipts[i])
            /\ receipts[i].token = receipts[i].sha /\ receipts'[i] = receipts[i]
        BY <1>1, <1>9, <3>2 DEF StoreInv
      <4> QED BY <1>2, <4>1 DEF Signs, Recorded
    <3>3. CASE i = n + 1
      <4>1. receipts'[i] = a
        BY <1>9, <3>3
      <4> QED BY <1>5, <4>1 DEF Signs, Recorded
    <3> QED BY <1>9, <3>2, <3>3
  <2> QED BY <1>1, <1>2, <2>1, <2>2, <2>3 DEF StoreInv
<1>12. UneditedInv'
  <2> SUFFICES ASSUME edits = 0 PROVE UneditedInv'
    BY <1>2 DEF UneditedInv
  <2>1. /\ written = Len(history)
        /\ \A k \in 1..Len(history) : history[k] = k
        /\ \A i \in 1..Len(tokens) :
             /\ Len(tokens[i].hash) <= Len(history)
             /\ \A k \in 1..Len(tokens[i].hash) : tokens[i].hash[k] = k
        /\ \A i \in 1..n :
             Names(receipts[i]) /\ receipts[i].record \in (receipts[i].headSeq + 1)..Len(history)
        /\ \A i \in 1..Len(files) : files[i].usable => Names(files[i])
    BY <1>1 DEF UneditedInv
  <2>2. written' = Len(history') /\ \A k \in 1..Len(history') : history'[k] = k
    BY <1>2, <1>7, <2>1
  <2>3. \A i \in 1..Len(tokens) :
          /\ Len(tokens[i].hash) <= Len(history')
          /\ \A k \in 1..Len(tokens[i].hash) : tokens[i].hash[k] = k
    <3>1. \A i \in 1..Len(tokens) : Len(tokens[i].hash) \in Nat
      BY <1>1, ElementTypes
    <3> QED BY <1>7, <2>1, <3>1
  <2>4. Names(a) /\ a.record \in (a.headSeq + 1)..Len(history')
    <3>1. Len(h) <= Len(history) /\ h[Len(h)] = Len(h)
      BY <1>0, <1>3, <2>1
    <3> QED BY <1>2, <1>3, <1>6, <1>7, <2>1, <3>1 DEF Names
  <2>5. \A i \in 1..Len(receipts') :
          Names(receipts'[i]) /\ receipts'[i].record \in (receipts'[i].headSeq + 1)..Len(history')
    <3> TAKE i \in 1..Len(receipts')
    <3>1. CASE i \in 1..n
      <4>1. receipts'[i] = receipts[i] /\ receipts[i].headSeq \in Nat
        BY <1>1, <1>9, <3>1, ElementTypes
      <4> QED BY <1>7, <2>1, <3>1, <4>1
    <3>2. CASE i = n + 1
      BY <1>9, <2>4, <3>2
    <3> QED BY <1>9, <3>1, <3>2
  <2>6. copy' = NoCopy /\ files' = files
    BY <1>2 DEF RecordAnchor, StoreRuns, input
  <2> QED BY <1>2, <2>1, <2>2, <2>3, <2>5, <2>6 DEF UneditedInv, Names
<1>13. CopyInv' /\ RunInv' /\ LastInv'
  BY <1>2, StoreIdle DEF RecordAnchor
<1> QED BY <1>10, <1>11, <1>12, <1>13 DEF IInv

\* The first k elements of a list.
LEMMA PrefixOf ==
  ASSUME NEW S, NEW s \in Seq(S), NEW k \in 0..Len(s)
  PROVE  /\ SubSeq(s, 1, k) \in Seq(S) /\ Len(SubSeq(s, 1, k)) = k
         /\ \A i \in 1..k : SubSeq(s, 1, k)[i] = s[i]
OBVIOUS

\* A list without its k-th element.
LEMMA WithoutOne ==
  ASSUME NEW S, NEW s \in Seq(S), NEW k \in 1..Len(s)
  PROVE  SubSeq(s, 1, k - 1) \o SubSeq(s, k + 1, Len(s)) \in Seq(S)
<1> DEFINE m == Len(s)
           u == SubSeq(s, 1, k - 1)
           v == SubSeq(s, k + 1, m)
<1>1. m \in Nat /\ k \in 1..m /\ k - 1 \in Int /\ k + 1 \in Int /\ \A i \in 1..m : s[i] \in S
  BY ElementOfSeq
<1> HIDE DEF m
<1>2. (\A i \in 1..(k - 1) : s[i] \in S) /\ (\A i \in (k + 1)..m : s[i] \in S)
  BY <1>1
<1>3. u \in Seq(S)
  BY <1>1, <1>2, SubSeqProperties
<1>4. v \in Seq(S)
  BY <1>1, <1>2, SubSeqProperties
<1> HIDE DEF u, v
<1>5. u \o v \in Seq(S)
  BY <1>3, <1>4, ConcatProperties
<1> QED BY <1>5 DEF u, v, m

\* A rewound chain is a prefix of what it was.
LEMMA RewindStep ==
  ASSUME IInv, NEW k \in 0..Len(history), Rewind(k)
  PROVE  IInv'
<1>1. TypeOK /\ StoreInv
  BY DEF IInv
<1>2. edits \in Nat /\ edits' = edits + 1
  BY <1>1 DEF TypeOK, Rewind
<1>3. TypeOK'
  <2>1. history \in Seq(1..written)
    BY <1>1 DEF TypeOK
  <2>2. SubSeq(history, 1, k) \in Seq(1..written)
    BY <2>1, PrefixOf
  <2>3. /\ written' = written /\ tokens' = tokens /\ pending' = pending /\ records' = records
        /\ receipts' = receipts /\ edits' \in Nat /\ history' = SubSeq(history, 1, k)
        /\ UNCHANGED <<now, input, run, last>>
    BY <1>2 DEF Rewind
  <2>4. /\ written' \in Nat /\ history' \in Seq(1..written') /\ tokens' \in Seq(Token)
        /\ pending' \subseteq 1..Len(tokens') /\ receipts' \in Seq(Receipt)
        /\ records' \subseteq [num : 1..written', hash : Seq(Nat), token : 1..Len(tokens')]
    BY <1>1, <2>2, <2>3 DEF TypeOK
  <2> QED BY <2>3, <2>4, StoreTypes
<1>4. StoreInv'
  BY <1>1 DEF StoreInv, Signs, Recorded, Rewind
<1>5. UneditedInv'
  BY <1>2 DEF UneditedInv
<1>6. CopyInv' /\ RunInv' /\ LastInv'
  BY StoreIdle DEF Rewind
<1> QED BY <1>3, <1>4, <1>5, <1>6 DEF IInv

\* An exported chain is typed, and each event carries the id it was written under.
LEMMA ExportedTypes ==
  ASSUME TypeOK
  PROVE  /\ [k \in 1..Len(history) |-> ExportedEvent(k)] \in Seq(Event)
         /\ Len([k \in 1..Len(history) |-> ExportedEvent(k)]) = Len(history)
<1>1. history \in Seq(1..written) /\ written \in Nat
  BY DEF TypeOK
<1>2. history \in Seq(Nat) /\ Len(history) \in Nat
  BY <1>1, NumbersAreNat
<1>3. ASSUME NEW k \in 1..Len(history) PROVE ExportedEvent(k) \in Event
  <2>1. SubSeq(history, 1, k - 1) \in Seq(Nat) /\ history[k] \in Nat /\ k \in Nat
    BY <1>2
  <2> QED BY <2>1 DEF ExportedEvent, Event
<1> QED BY <1>2, <1>3

\* The copy begins as the store is.
LEMMA ExportStep == ASSUME IInv, Export PROVE IInv'
<1> DEFINE events == [k \in 1..Len(history) |-> ExportedEvent(k)]
<1>1. TypeOK /\ StoreInv /\ UneditedInv /\ CopyInv
  BY DEF IInv
<1>2. /\ copy' = [events |-> events, anchors |-> receipts, seqOK |-> TRUE]
      /\ copy = NoCopy /\ phase = "idle" /\ files = << >> /\ last = NoRun /\ history # << >>
      /\ UNCHANGED <<world, bundle, roots, bounds, files, run, last>>
  BY <1>1 DEF Export, StoreRuns, CopyInv
<1>3. /\ events \in Seq(Event) /\ Len(events) = Len(history) /\ Len(history) \in Nat \ {0}
      /\ receipts \in Seq(Receipt)
  <2>1. history \in Seq(1..written) /\ receipts \in Seq(Receipt)
    BY <1>1 DEF TypeOK
  <2> QED BY <1>1, <1>2, <2>1, ExportedTypes, EmptySeq
<1>4. \A k \in 1..Len(events) : events[k].seq = k /\ events[k].num = events[k].id
  BY <1>3 DEF ExportedEvent
<1>5. UneditedInv'
  <2> SUFFICES ASSUME edits = 0 PROVE UneditedInv'
    BY <1>2 DEF UneditedInv, world
  <2>1. copy' = [events |-> [k \in 1..Len(history') |-> ExportedEvent(k)'], anchors |-> receipts',
                 seqOK |-> TRUE]
    BY <1>2 DEF world, ExportedEvent
  <2> QED BY <1>1, <1>2, <2>1 DEF UneditedInv, world, Names
<1> HIDE DEF events
<1>6. copy'.events = events /\ copy'.anchors = receipts
      /\ copy' \in [events : Seq(Event), anchors : Seq(Receipt), seqOK : BOOLEAN]
  BY <1>2, <1>3
<1>7. TypeOK'
  BY <1>1, <1>2, <1>6 DEF TypeOK, world, run
<1>8. StoreInv'
  BY <1>1, <1>2 DEF StoreInv, Signs, Recorded, world
<1>9. CopyInv'
  <2>1. events # << >>
    BY <1>3
  <2>2. copy' # NoCopy
    BY <1>6, <2>1 DEF NoCopy
  <2>3. (\A i \in 1..Len(copy.anchors) : Signs(copy.anchors[i]) /\ Recorded(copy.anchors[i]))'
    BY <1>1, <1>2, <1>6 DEF StoreInv, Signs, Recorded, world
  <2>4. (\A k \in 1..Len(copy.events) :
           /\ copy.events[k].seq = k
           /\ \A r \in records : r.num = copy.events[k].num => copy.events[k].id = r.num)'
    BY <1>4, <1>6
  <2>5. Len(files') = 0
    BY <1>2, EmptySeq
  <2>6. (\A i \in 1..Len(files) :
           files[i].usable => Signs(files[i]) /\ files[i].token = files[i].sha)'
    BY <2>5
  <2> QED BY <1>6, <2>1, <2>2, <2>3, <2>4, <2>6 DEF CopyInv
<1>10. RunInv' /\ LastInv'
  BY <1>2 DEF RunInv, LastInv, run
<1> QED BY <1>5, <1>7, <1>8, <1>9, <1>10 DEF IInv

\* A file that does not read as a receipt changes no result.
LEMMA StrayFileStep == ASSUME IInv, StrayFile PROVE IInv'
<1>1. TypeOK /\ StoreInv /\ UneditedInv /\ CopyInv /\ LastInv
  BY DEF IInv
<1>2. PICK f \in File : files' = Append(files, f) /\ ~f.usable
  <2> DEFINE f == [usable |-> FALSE, headSeq |-> 0, headHash |-> << >>, headEvent |-> 0, sha |-> 0,
                   token |-> 0, signedAt |-> 0]
  <2>1. f \in File
    BY EmptySeq DEF File
  <2> QED BY <2>1 DEF StrayFile
<1>3. copy # NoCopy /\ phase = "idle" /\ UNCHANGED <<world, bundle, roots, bounds, copy, run, last>>
  BY DEF StrayFile
<1>4. /\ files \in Seq(File) /\ files' \in Seq(File) /\ Len(files') = Len(files) + 1
      /\ Len(files) \in Nat
      /\ \A i \in 1..Len(files) : files'[i] = files[i]
      /\ files'[Len(files) + 1] = f
  <2>1. files \in Seq(File)
    BY <1>1 DEF TypeOK
  <2> QED BY <1>2, <2>1
<1>5. TypeOK'
  BY <1>1, <1>3, <1>4 DEF TypeOK, world, run
<1>6. StoreInv'
  BY <1>1, <1>3 DEF StoreInv, Signs, Recorded, world
<1>7. CopyInv'
  <2>1. (\A i \in 1..Len(files) :
           files[i].usable => Signs(files[i]) /\ files[i].token = files[i].sha)'
    BY <1>1, <1>2, <1>3, <1>4 DEF CopyInv, Signs, world
  <2>2. (\A i \in 1..Len(copy.anchors) : Signs(copy.anchors[i]) /\ Recorded(copy.anchors[i]))'
    BY <1>1, <1>3 DEF CopyInv, Signs, Recorded, world
  <2> QED BY <1>1, <1>3, <2>1, <2>2 DEF CopyInv, world
<1>8. UneditedInv'
  <2> SUFFICES ASSUME edits = 0 PROVE UneditedInv'
    BY <1>3 DEF UneditedInv, world
  <2>1. (\A i \in 1..Len(files) : files[i].usable => Names(files[i]))'
    BY <1>1, <1>2, <1>4 DEF UneditedInv, Names
  <2>2. (copy = [events |-> [k \in 1..Len(history) |-> ExportedEvent(k)], anchors |-> receipts,
                 seqOK |-> TRUE])'
    BY <1>1, <1>3 DEF UneditedInv, world, ExportedEvent
  <2> QED BY <1>1, <1>3, <2>1, <2>2 DEF UneditedInv, world, Names
<1>9. RunInv'
  BY <1>3 DEF RunInv, run
<1>10. LastInv'
  <2>1. now' = now /\ now \in Nat /\ tokens' = tokens
    BY <1>1, <1>3, ElementTypes DEF world
  <2>2. UNCHANGED <<copy, records, bundle, roots, last>>
    BY <1>3 DEF world
  <2> QED BY <1>1, <1>2, <2>1, <2>2, LastStable
<1> QED BY <1>5, <1>6, <1>7, <1>8, <1>9, <1>10 DEF IInv

\* What is left of a copy after an edit: receipts that still say what their tokens say, and no
\* event that passes for a record it is not.
LEMMA EditedSound ==
  ASSUME IInv, copy # NoCopy, NEW c \in EditedCopies
  PROVE  /\ c.events \in Seq(Event) /\ c.events # << >>
         /\ c.anchors \in Seq(Sound) /\ c.seqOK \in BOOLEAN
         /\ c = [events |-> c.events, anchors |-> c.anchors, seqOK |-> c.seqOK]
         /\ \A k \in 1..Len(c.events) :
              /\ c.events[k].seq = k
              /\ \A r \in records : r.num = c.events[k].num => c.events[k].id = r.num
<1>1. TypeOK /\ CopyInv
  BY DEF IInv
<1>2. /\ copy.events \in Seq(Event) /\ copy.events # << >> /\ copy.seqOK \in BOOLEAN
      /\ written \in Nat
      /\ \A k \in 1..Len(copy.events) :
           /\ copy.events[k] \in Event
           /\ copy.events[k].seq = k
           /\ \A r \in records : r.num = copy.events[k].num => copy.events[k].id = r.num
  BY <1>1, ElementTypes DEF CopyInv, TypeOK
<1>3. copy.anchors \in Seq(Sound) /\ Len(copy.anchors) \in Nat /\ Len(copy.events) \in Nat
  BY <1>1, SoundLists, ElementTypes
<1>4. copy \in [events : Seq(Event), anchors : Seq(Receipt), seqOK : BOOLEAN]
  BY <1>1 DEF TypeOK
<1>5. CASE \E k \in 1..Len(copy.events) : c = [copy EXCEPT !.events[k].num = written + 1]
  <2>1. PICK k \in 1..Len(copy.events) : c = [copy EXCEPT !.events[k].num = written + 1]
    BY <1>5
  <2> DEFINE e == [copy.events[k] EXCEPT !.num = written + 1]
  <2>2. e \in Event /\ e.seq = copy.events[k].seq /\ e.num = written + 1
    <3>1. copy.events[k] \in Event /\ written + 1 \in Nat
      BY <1>2
    <3> QED BY <3>1 DEF Event
  <2>3. /\ c.events = [copy.events EXCEPT ![k] = e]
        /\ c = [events |-> c.events, anchors |-> copy.anchors, seqOK |-> copy.seqOK]
    BY <1>4, <2>1
  <2> HIDE DEF e
  <2>4. /\ c.events \in Seq(Event) /\ Len(c.events) = Len(copy.events)
        /\ \A j \in 1..Len(copy.events) : c.events[j] = IF j = k THEN e ELSE copy.events[j]
    BY <1>2, <2>2, <2>3, ExceptSeq
  <2>5. \A r \in records : r.num # written + 1
    <3>1. records \subseteq [num : 1..written, hash : Seq(Nat), token : 1..Len(tokens)]
      BY <1>1 DEF TypeOK
    <3> QED BY <1>2, <3>1
  <2>6. c.events # << >>
    BY <1>3, <2>4
  <2> QED BY <1>2, <1>3, <2>2, <2>3, <2>4, <2>5, <2>6
<1>6. CASE \E k \in 1..(Len(copy.events) - 1) : c = [copy EXCEPT !.events = SubSeq(@, 1, k)]
  <2>1. PICK k \in 1..(Len(copy.events) - 1) : c = [copy EXCEPT !.events = SubSeq(@, 1, k)]
    BY <1>6
  <2>2. /\ c.events = SubSeq(copy.events, 1, k)
        /\ c = [events |-> c.events, anchors |-> copy.anchors, seqOK |-> copy.seqOK]
    BY <1>4, <2>1
  <2>3. k \in 0..Len(copy.events) /\ k \in 1..Len(copy.events) /\ k \in Nat \ {0}
    BY <1>3
  <2>4. /\ c.events \in Seq(Event) /\ Len(c.events) = k
        /\ \A i \in 1..k : c.events[i] = copy.events[i]
    BY <1>2, <2>2, <2>3, PrefixOf
  <2>5. c.events # << >>
    BY <2>3, <2>4
  <2>6. \A j \in 1..Len(c.events) :
          /\ c.events[j].seq = j
          /\ \A r \in records : r.num = c.events[j].num => c.events[j].id = r.num
    <3>1. \A j \in 1..k : j \in 1..Len(copy.events)
      BY <1>3
    <3> QED BY <1>2, <2>4, <3>1
  <2> QED BY <1>2, <1>3, <2>2, <2>4, <2>5, <2>6
<1>7. CASE c = [copy EXCEPT !.seqOK = FALSE]
  <2>1. /\ c.events = copy.events /\ c.anchors = copy.anchors /\ c.seqOK = FALSE
        /\ c = [events |-> c.events, anchors |-> c.anchors, seqOK |-> c.seqOK]
    BY <1>7, <1>4
  <2>2. \A j \in 1..Len(c.events) :
          /\ c.events[j].seq = j
          /\ \A r \in records : r.num = c.events[j].num => c.events[j].id = r.num
    BY <1>2, <2>1
  <2> QED BY <1>2, <1>3, <2>1, <2>2
<1>8. CASE \E k \in 1..Len(copy.anchors) :
             c = [copy EXCEPT !.anchors = SubSeq(@, 1, k - 1) \o SubSeq(@, k + 1, Len(@))]
  <2>1. PICK k \in 1..Len(copy.anchors) :
               c = [copy EXCEPT !.anchors = SubSeq(@, 1, k - 1) \o SubSeq(@, k + 1, Len(@))]
    BY <1>8
  <2> DEFINE as == copy.anchors
  <2>2. /\ c.events = copy.events /\ c.seqOK = copy.seqOK
        /\ c.anchors = SubSeq(as, 1, k - 1) \o SubSeq(as, k + 1, Len(as))
        /\ c = [events |-> c.events, anchors |-> c.anchors, seqOK |-> c.seqOK]
    BY <1>4, <2>1
  <2>3. as \in Seq(Sound) /\ Len(as) \in Nat /\ k \in 1..Len(as)
    BY <1>3
  <2> HIDE DEF as
  <2>4. c.anchors \in Seq(Sound)
    BY <2>2, <2>3, WithoutOne
  <2>5. \A j \in 1..Len(c.events) :
          /\ c.events[j].seq = j
          /\ \A r \in records : r.num = c.events[j].num => c.events[j].id = r.num
    BY <1>2, <2>2
  <2> QED BY <1>2, <2>2, <2>4, <2>5
<1>9. CASE \E k \in 1..Len(copy.anchors) : c = [copy EXCEPT !.anchors[k].token = 0]
  <2>1. PICK k \in 1..Len(copy.anchors) : c = [copy EXCEPT !.anchors[k].token = 0]
    BY <1>9
  <2> DEFINE a == [copy.anchors[k] EXCEPT !.token = 0]
  <2>2. copy.anchors[k] \in Sound
    BY <1>3, ElementOfSeq
  <2>3. a \in Sound
    <3>1. copy.anchors[k] \in Receipt /\ Signs(copy.anchors[k]) /\ Recorded(copy.anchors[k])
      BY <2>2 DEF Sound
    <3>2. /\ a \in Receipt /\ a.sha = copy.anchors[k].sha /\ a.token = 0
          /\ a.headHash = copy.anchors[k].headHash /\ a.signedAt = copy.anchors[k].signedAt
          /\ a.record = copy.anchors[k].record
      BY <3>1 DEF Receipt
    <3> HIDE DEF a
    <3> QED BY <3>1, <3>2 DEF Sound, Signs, Recorded
  <2>4. /\ c.anchors = [copy.anchors EXCEPT ![k] = a]
        /\ c.events = copy.events /\ c.seqOK = copy.seqOK
        /\ c = [events |-> c.events, anchors |-> c.anchors, seqOK |-> c.seqOK]
    BY <1>4, <2>1
  <2> HIDE DEF a
  <2>5. c.anchors \in Seq(Sound)
    BY <1>3, <2>3, <2>4, ExceptSeq
  <2> QED BY <1>2, <2>4, <2>5
<1> QED BY <1>5, <1>6, <1>7, <1>8, <1>9 DEF EditedCopies

\* An edit of the copy leaves its receipts what their tokens say.
LEMMA EditCopyStep == ASSUME IInv, EditCopy PROVE IInv'
<1>1. TypeOK /\ StoreInv /\ CopyInv
  BY DEF IInv
<1>2. PICK c \in EditedCopies : copy' = c
  BY DEF EditCopy
<1>3. /\ copy # NoCopy /\ phase = "idle" /\ written' = written + 1 /\ edits' = edits + 1
      /\ last' = NoRun
      /\ UNCHANGED <<now, history, records, pending, tokens, receipts, bundle, roots, bounds,
                     files, run>>
  BY DEF EditCopy
<1>4. /\ c.events \in Seq(Event) /\ c.events # << >>
      /\ c.anchors \in Seq(Sound) /\ c.seqOK \in BOOLEAN
      /\ c = [events |-> c.events, anchors |-> c.anchors, seqOK |-> c.seqOK]
      /\ \A k \in 1..Len(c.events) :
           /\ c.events[k].seq = k
           /\ \A r \in records : r.num = c.events[k].num => c.events[k].id = r.num
  BY <1>3, EditedSound
<1>5. written \in Nat /\ edits \in Nat
  BY <1>1 DEF TypeOK
<1>6. TypeOK'
  <2>1. history' \in Seq(1..written') /\ written' \in Nat /\ edits' \in Nat
    <3>1. history \in Seq(1..written)
      BY <1>1 DEF TypeOK
    <3> QED BY <1>3, <1>5, <3>1, NumbersAreNat
  <2>2. records' \subseteq [num : 1..written', hash : Seq(Nat), token : 1..Len(tokens')]
    <3>1. records \subseteq [num : 1..written, hash : Seq(Nat), token : 1..Len(tokens)]
      BY <1>1 DEF TypeOK
    <3> QED BY <1>3, <1>5, <3>1
  <2>3. copy' \in [events : Seq(Event), anchors : Seq(Receipt), seqOK : BOOLEAN]
    <3>1. Sound \subseteq Receipt
      BY DEF Sound
    <3>2. c.anchors \in Seq(Receipt)
      BY <1>4, <3>1, SeqMonotonic
    <3> QED BY <1>2, <1>4, <3>2
  <2>4. last' \in [at : Nat, files : Nat, status : Seq({"pass", "fail", "not_checked"})]
    BY <1>3, EmptySeq DEF NoRun
  <2> QED BY <1>1, <1>3, <2>1, <2>2, <2>3, <2>4 DEF TypeOK, run
<1>7. StoreInv'
  BY <1>1, <1>3 DEF StoreInv, Signs, Recorded
<1>8. CopyInv'
  <2>1. copy' # NoCopy
    BY <1>2, <1>4 DEF NoCopy
  <2>2. (\A i \in 1..Len(copy.anchors) : Signs(copy.anchors[i]) /\ Recorded(copy.anchors[i]))'
    <3>1. \A i \in 1..Len(c.anchors) : Signs(c.anchors[i]) /\ Recorded(c.anchors[i])
      BY <1>4, ElementOfSeq DEF Sound
    <3> QED BY <1>2, <1>3, <3>1 DEF Signs, Recorded
  <2>3. (\A i \in 1..Len(files) :
           files[i].usable => Signs(files[i]) /\ files[i].token = files[i].sha)'
    BY <1>1, <1>3 DEF CopyInv, Signs
  <2> QED BY <1>2, <1>3, <1>4, <2>1, <2>2, <2>3 DEF CopyInv
<1>9. UneditedInv'
  BY <1>3, <1>5 DEF UneditedInv
<1>10. RunInv' /\ LastInv'
  BY <1>3 DEF RunInv, LastInv, run
<1> QED BY <1>6, <1>7, <1>8, <1>9, <1>10 DEF IInv

\* A receipt beside the copy signs its head.
LEMMA ReanchorStep ==
  ASSUME IInv, NEW tsa \in bounds.tsa, Reanchor(tsa)
  PROVE  IInv'
<1> DEFINE n == Len(tokens)
           m == Len(files)
           l == Len(copy.events)
<1>1. TypeOK /\ StoreInv /\ UneditedInv /\ CopyInv /\ LastInv
  BY DEF IInv
<1>2. PICK h, q, e, w, d : /\ h = LastHash /\ q = copy.events[l].seq /\ e = copy.events[l].id
                           /\ w = n + 1 /\ d = now
  OBVIOUS
<1> DEFINE tok == [hash |-> h, at |-> d, tsa |-> tsa]
           f == [usable |-> TRUE, headSeq |-> q, headHash |-> h, headEvent |-> e, sha |-> w,
                 token |-> w, signedAt |-> d]
<1>3. /\ copy # NoCopy /\ phase = "idle" /\ tokens' = Append(tokens, tok)
      /\ UNCHANGED <<now, history, written, records, pending, receipts, edits, bundle, roots,
                     bounds, copy, run, last>>
  BY <1>2 DEF Reanchor
<1>4. /\ n \in Nat /\ m \in Nat /\ l \in 1..l /\ d \in Nat /\ w \in Nat
      /\ copy.events[l] \in Event /\ copy.events[l].prevHash \in Seq(Nat)
      /\ copy.events[l].num \in Nat /\ copy.events[l].seq = l
  <2>1. copy.events \in Seq(Event) /\ copy.events # << >>
    BY <1>1, <1>3 DEF CopyInv, TypeOK
  <2>2. l \in Nat \ {0}
    BY <2>1, EmptySeq
  <2>3. l \in 1..l
    BY <2>2
  <2> HIDE DEF l, n, m
  <2>4. n \in Nat /\ m \in Nat /\ now \in Nat
    BY <1>1, ElementTypes DEF n, m
  <2>5. /\ copy.events[l] \in Event /\ copy.events[l].prevHash \in Seq(Nat)
        /\ copy.events[l].num \in Nat
    BY <1>1, <2>3, ElementTypes DEF l
  <2>6. copy.events[l].seq = l
    BY <1>1, <2>3 DEF CopyInv, l
  <2> QED BY <1>2, <2>3, <2>4, <2>5, <2>6
<1>5. h \in Seq(Nat) /\ h # << >> /\ q = l /\ e \in Nat /\ tsa \in TSA
  <2>1. h = Append(copy.events[l].prevHash, copy.events[l].num)
    BY <1>2 DEF LastHash, Recomputed
  <2>2. h \in Seq(Nat) /\ h # << >>
    BY <1>4, <2>1
  <2>3. e \in Nat
    BY <1>2, <1>4 DEF Event
  <2>4. tsa \in TSA
    BY <1>1 DEF TypeOK
  <2> QED BY <1>2, <1>4, <2>2, <2>3, <2>4
<1>6. tok \in Token /\ f \in File
  BY <1>4, <1>5 DEF Token, File
<1>7. tok.hash = h /\ tok.at = d /\ f.usable /\ f.headSeq = q /\ f.headHash = h /\ f.headEvent = e
      /\ f.sha = w /\ f.token = w /\ f.signedAt = d
  OBVIOUS
<1>8. files' = Append(files, f)
  <2>1. tokens \in Seq(Token)
    BY <1>1 DEF TypeOK
  <2> HIDE DEF tok
  <2>2. Len(tokens') = w
    BY <1>2, <1>3, <1>6, <2>1
  <2> QED BY <1>2, <2>2 DEF Reanchor
<1> HIDE DEF tok, f
<1>9. /\ tokens' \in Seq(Token) /\ Len(tokens') = w
      /\ \A k \in 1..n : tokens'[k] = tokens[k] /\ k \in 1..w
      /\ tokens'[w] = tok
      /\ \A a : Signs(a) => Signs(a)'
  BY <1>1, <1>2, <1>3, <1>6, TokensGrow
<1>10. /\ files \in Seq(File) /\ files' \in Seq(File) /\ Len(files') = m + 1
       /\ \A i \in 1..m : files'[i] = files[i]
       /\ files'[m + 1] = f
  <2>1. files \in Seq(File)
    BY <1>1 DEF TypeOK
  <2> QED BY <1>6, <1>8, <2>1
<1>11. Signs(f)'
  <2>1. w \in 1..Len(tokens')
    BY <1>2, <1>4, <1>9
  <2> QED BY <1>7, <1>9, <2>1 DEF Signs
<1>12. TypeOK'
  <2>1. pending' \subseteq 1..Len(tokens')
    BY <1>1, <1>3, <1>9 DEF TypeOK
  <2>2. records' \subseteq [num : 1..written', hash : Seq(Nat), token : 1..Len(tokens')]
    <3>1. records \subseteq [num : 1..written, hash : Seq(Nat), token : 1..n]
      BY <1>1 DEF TypeOK
    <3> QED BY <1>3, <1>9, <3>1
  <2> QED BY <1>1, <1>3, <1>9, <1>10, <2>1, <2>2 DEF TypeOK, run
<1>13. StoreInv'
  <2>1. \A i \in 1..Len(tokens') : tokens'[i].at <= now' /\ tokens'[i].hash # << >>
    <3> SUFFICES ASSUME NEW i \in 1..w PROVE tokens'[i].at <= now /\ tokens'[i].hash # << >>
      BY <1>3, <1>9
    <3>1. CASE i \in 1..n
      BY <1>1, <1>9, <3>1 DEF StoreInv
    <3>2. CASE i = w
      BY <1>2, <1>4, <1>5, <1>7, <1>9, <3>2
    <3> QED BY <1>2, <1>4, <3>1, <3>2
  <2>2. \A r \in records' : r.hash = tokens'[r.token].hash
    <3>1. \A r \in records : r.token \in 1..n /\ r.hash = tokens[r.token].hash
      BY <1>1 DEF TypeOK, StoreInv
    <3> QED BY <1>3, <1>9, <3>1
  <2>3. (\A i \in 1..Len(receipts) :
           Signs(receipts[i]) /\ Recorded(receipts[i]) /\ receipts[i].token = receipts[i].sha)'
    BY <1>1, <1>3, <1>9 DEF StoreInv, Recorded
  <2> QED BY <1>1, <1>3, <2>1, <2>2, <2>3 DEF StoreInv
<1>14. CopyInv'
  <2>1. (\A i \in 1..Len(files) :
           files[i].usable => Signs(files[i]) /\ files[i].token = files[i].sha)'
    <3> SUFFICES ASSUME NEW i \in 1..(m + 1)
                 PROVE (files[i].usable => Signs(files[i]) /\ files[i].token = files[i].sha)'
      BY <1>10
    <3>1. CASE i \in 1..m
      <4>1. files'[i] = files[i] /\ (files[i].usable => Signs(files[i]) /\ files[i].token = files[i].sha)
        BY <1>1, <1>10, <3>1 DEF CopyInv
      <4>2. PICK b : b = files[i]
        OBVIOUS
      <4>3. files'[i] = b /\ (b.usable => Signs(b)' /\ b.token = b.sha)
        BY <1>9, <4>1, <4>2
      <4> QED BY <4>3 DEF Signs
    <3>2. CASE i = m + 1
      BY <1>7, <1>10, <1>11, <3>2 DEF Signs
    <3> QED BY <1>4, <3>1, <3>2
  <2>2. (\A i \in 1..Len(copy.anchors) : Signs(copy.anchors[i]) /\ Recorded(copy.anchors[i]))'
    <3>1. \A i \in 1..Len(copy.anchors) : Signs(copy.anchors[i])'
      <4> TAKE i \in 1..Len(copy.anchors)
      <4>1. PICK b : b = copy.anchors[i]
        OBVIOUS
      <4>2. copy'.anchors[i] = b /\ Signs(b)'
        BY <1>1, <1>3, <1>9, <4>1 DEF CopyInv
      <4> QED BY <4>2 DEF Signs
    <3> QED BY <1>1, <1>3, <3>1 DEF CopyInv, Recorded
  <2> QED BY <1>1, <1>3, <2>1, <2>2 DEF CopyInv
<1>15. UneditedInv'
  <2> SUFFICES ASSUME edits = 0 PROVE UneditedInv'
    BY <1>3 DEF UneditedInv
  <2>1. /\ written = Len(history)
        /\ \A k \in 1..Len(history) : history[k] = k
        /\ \A i \in 1..n :
             /\ Len(tokens[i].hash) <= Len(history)
             /\ \A k \in 1..Len(tokens[i].hash) : tokens[i].hash[k] = k
        /\ copy = [events |-> [k \in 1..Len(history) |-> ExportedEvent(k)], anchors |-> receipts,
                   seqOK |-> TRUE]
        /\ \A i \in 1..m : files[i].usable => Names(files[i])
    BY <1>1, <1>3 DEF UneditedInv
  <2>2. /\ l = Len(history) /\ l \in Nat /\ l \in 1..l
        /\ copy.events[l].prevHash = SubSeq(history, 1, l - 1)
        /\ copy.events[l].num = l /\ copy.events[l].id = l
    <3>1. l = Len(history) /\ copy.events[l] = ExportedEvent(l)
      <4>1. copy.events = [k \in 1..Len(history) |-> ExportedEvent(k)]
        BY <2>1
      <4>2. Len(copy.events) = Len(history)
        BY <1>1, <4>1, ExportedTypes
      <4> QED BY <1>4, <4>1, <4>2
    <3> QED BY <1>4, <2>1, <3>1 DEF ExportedEvent
  <2>3. Len(h) = l /\ \A k \in 1..l : h[k] = k
    <3>1. h = Append(SubSeq(history, 1, l - 1), l)
      BY <1>2, <2>2 DEF LastHash, Recomputed
    <3>2. history \in Seq(Nat) /\ l - 1 \in 0..Len(history)
      BY <1>1, <2>2, NumbersAreNat DEF TypeOK
    <3>3. /\ SubSeq(history, 1, l - 1) \in Seq(Nat) /\ Len(SubSeq(history, 1, l - 1)) = l - 1
          /\ \A k \in 1..(l - 1) : SubSeq(history, 1, l - 1)[k] = history[k]
      BY <3>2, PrefixOf
    <3> DEFINE p == SubSeq(history, 1, l - 1)
    <3> HIDE DEF p
    <3>4. Len(h) = l /\ h[l] = l /\ \A k \in 1..(l - 1) : h[k] = p[k]
      BY <2>2, <3>1, <3>3 DEF p
    <3> QED BY <2>1, <2>2, <3>3, <3>4 DEF p
  <2>4. \A i \in 1..w :
          /\ Len(tokens'[i].hash) <= Len(history)
          /\ \A k \in 1..Len(tokens'[i].hash) : tokens'[i].hash[k] = k
    <3> TAKE i \in 1..w
    <3>1. CASE i \in 1..n
      BY <1>9, <2>1, <3>1
    <3>2. CASE i = w
      BY <1>7, <1>9, <2>2, <2>3, <3>2
    <3> QED BY <1>2, <1>4, <3>1, <3>2
  <2>5. \A i \in 1..(m + 1) : files'[i].usable => Names(files'[i])
    <3>1. Names(f)
      BY <1>2, <1>5, <1>7, <2>2, <2>3 DEF Names
    <3>2. \A i \in 1..(m + 1) : i \in 1..m \/ i = m + 1
      BY <1>4
    <3> QED BY <1>10, <2>1, <3>1, <3>2
  <2>6. (copy = [events |-> [k \in 1..Len(history) |-> ExportedEvent(k)], anchors |-> receipts,
                 seqOK |-> TRUE])'
    BY <1>3, <2>1 DEF ExportedEvent
  <2> QED BY <1>1, <1>3, <1>9, <1>10, <2>4, <2>5, <2>6 DEF UneditedInv, Names
<1>16. RunInv'
  BY <1>3 DEF RunInv, run
<1>17. LastInv'
  BY <1>1, <1>3, <1>4, <1>6, <1>8, <1>9, ElementTypes, LastStable
<1> QED BY <1>12, <1>13, <1>14, <1>15, <1>16, <1>17 DEF IInv

-----------------------------------------------------------------------------
\* A verification changes nothing that it judges.
LEMMA VerificationReads ==
  ASSUME IInv, copy # NoCopy, UNCHANGED <<world, input>>
  PROVE  /\ StoreInv' /\ UneditedInv' /\ CopyInv'
         /\ last' = last => LastInv'
         /\ Listed' = Listed /\ Total' = Total /\ LastHash' = LastHash
         /\ \A k : Done(k)' = Done(k)
         /\ \A i \in 1..Total :
              /\ Subject(i)' = Subject(i) /\ TokenOf(i)' = TokenOf(i)
              /\ SubjectVerdict(i)' = SubjectVerdict(i)
<1>1. TypeOK /\ StoreInv /\ UneditedInv /\ CopyInv /\ LastInv
  BY DEF IInv
<1>2. /\ UNCHANGED <<now, history, written, records, pending, tokens, receipts, edits>>
      /\ UNCHANGED <<bundle, roots, bounds, copy, files>>
  BY DEF world, input
<1>3. StoreInv'
  BY <1>1, <1>2 DEF StoreInv, Signs, Recorded
<1>4. UneditedInv'
  BY <1>1, <1>2 DEF UneditedInv, Names, ExportedEvent
<1>5. CopyInv'
  BY <1>1, <1>2 DEF CopyInv, Signs, Recorded
<1>6. last' = last => LastInv'
  BY <1>1, <1>2, ElementTypes, LastStable
<1>7. Listed' = Listed /\ Total' = Total /\ LastHash' = LastHash
  BY <1>2 DEF Listed, Total, LastHash, Recomputed
<1>8. \A k : Done(k)' = Done(k)
  BY <1>2, <1>7 DEF Done
<1>9. \A i \in 1..Total :
        /\ Subject(i)' = Subject(i) /\ TokenOf(i)' = TokenOf(i)
        /\ SubjectVerdict(i)' = SubjectVerdict(i)
  BY <1>1, <1>2, SubjectStable
<1> QED BY <1>3, <1>4, <1>5, <1>6, <1>7, <1>8, <1>9

\* Where the loop over the receipt files is, in results.
LEMMA DoneAt ==
  ASSUME TypeOK, CopyInv
  PROVE  /\ \A k \in 0..Len(Listed) : Done(k) = k
         /\ \A k \in 0..Len(files) : Done(Len(Listed) + k) = Len(Listed) + Len(Usable(SubSeq(files, 1, k)))
         /\ Done(Len(Listed) + Len(files)) = Total
         /\ \A k \in 0..(Len(Listed) + Len(files)) : Done(k) \in 0..Total
         /\ \A k \in 1..Len(files) :
              /\ Usable(SubSeq(files, 1, k - 1)) \in Seq(File)
              /\ Usable(SubSeq(files, 1, k)) = AddUsable(Usable(SubSeq(files, 1, k - 1)), files[k])
<1>1. files \in Seq(File) /\ Len(files) \in Nat /\ Len(Listed) \in Nat
  <2>1. Listed \in Seq(Sound)
    BY SoundLists
  <2> QED BY <2>1 DEF TypeOK
<1>2. \A k \in 0..Len(Listed) : Done(k) = k
  BY DEF Done
<1>3. \A k \in 1..Len(files) :
        /\ Usable(SubSeq(files, 1, k - 1)) \in Seq(File)
        /\ Usable(SubSeq(files, 1, k)) = AddUsable(Usable(SubSeq(files, 1, k - 1)), files[k])
  <2> TAKE k \in 1..Len(files)
  <2>1. \A l : Usable(l) = FU!Folded(<< >>, l)
    BY DEF FU!Folded, Usable, FoldLeft, MapThenFoldSet, FU!FoldLeft, FU!MapThenFoldSet,
           FU!Max, Max
  <2>2. k - 1 \in 0..Len(files)
    BY <1>1
  <2>3. SubSeq(files, 1, k - 1) \in Seq(File)
    BY <1>1, <2>2, PrefixOf
  <2>4. Usable(SubSeq(files, 1, k - 1)) \in Seq(File)
    BY <2>3, UsableType, SeqMonotonic
  <2> QED BY <1>1, <2>1, <2>4, FU!FoldPrefix
<1>4. Usable(SubSeq(files, 1, 0)) = << >>
  <2>1. Usable(<< >>) = FU!Folded(<< >>, << >>)
    BY DEF FU!Folded, Usable, FoldLeft, MapThenFoldSet, FU!FoldLeft, FU!MapThenFoldSet,
           FU!Max, Max
  <2>2. SubSeq(files, 1, 0) = << >>
    BY <1>1, SubSeqEmpty
  <2> QED BY <2>1, <2>2, FU!FoldEmpty
<1>5. \A k \in 0..Len(files) : Done(Len(Listed) + k) = Len(Listed) + Len(Usable(SubSeq(files, 1, k)))
  <2> TAKE k \in 0..Len(files)
  <2>1. CASE k = 0
    <3>1. Len(Usable(SubSeq(files, 1, 0))) = 0
      BY <1>4
    <3>2. Done(Len(Listed)) = Len(Listed)
      BY <1>1, <1>2
    <3> QED BY <1>1, <2>1, <3>1, <3>2
  <2>2. CASE k # 0
    <3>1. ~(Len(Listed) + k <= Len(Listed)) /\ (Len(Listed) + k) - Len(Listed) = k
      BY <1>1, <2>2
    <3> QED BY <3>1 DEF Done
  <2> QED BY <2>1, <2>2
<1>6. Done(Len(Listed) + Len(files)) = Total
  <2>1. SubSeq(files, 1, Len(files)) = files
    BY <1>1, SubSeqFull
  <2>2. Len(files) \in 0..Len(files)
    BY <1>1
  <2>3. Done(Len(Listed) + Len(files)) = Len(Listed) + Len(Usable(SubSeq(files, 1, Len(files))))
    BY <1>5, <2>2
  <2> QED BY <2>1, <2>3 DEF Total
<1>7. \A k \in 0..(Len(Listed) + Len(files)) : Done(k) \in 0..Total
  <2> TAKE k \in 0..(Len(Listed) + Len(files))
  <2>1. Len(Usable(files)) \in Nat
    <3>1. Usable(files) \in Seq(File)
      BY <1>1, UsableType, SeqMonotonic
    <3> QED BY <3>1
  <2>2. Total = Len(Listed) + Len(Usable(files))
    BY DEF Total
  <2>3. CASE k <= Len(Listed)
    BY <1>1, <1>2, <2>1, <2>2, <2>3
  <2>4. CASE ~(k <= Len(Listed))
    <3> DEFINE j == k - Len(Listed)
    <3>1. j \in 0..Len(files) /\ k = Len(Listed) + j
      BY <1>1, <2>4
    <3> HIDE DEF j
    <3>2. Done(k) = Len(Listed) + Len(Usable(SubSeq(files, 1, j)))
      BY <1>5, <3>1
    <3>3. Len(Usable(SubSeq(files, 1, j))) <= Len(Usable(files))
      BY <1>1, <3>1, UsablePrefix
    <3>4. Len(Usable(SubSeq(files, 1, j))) \in Nat
      <4>1. SubSeq(files, 1, j) \in Seq(File)
        BY <1>1, <3>1, PrefixOf
      <4>2. Usable(SubSeq(files, 1, j)) \in Seq(File)
        BY <4>1, UsableType, SeqMonotonic
      <4> QED BY <4>2
    <3> QED BY <1>1, <2>1, <2>2, <3>2, <3>3, <3>4
  <2> QED BY <2>3, <2>4
<1> QED BY <1>2, <1>3, <1>5, <1>6, <1>7

\* A step of a verification keeps every type when it keeps its own variables'.
LEMMA RunTypes ==
  ASSUME TypeOK, UNCHANGED <<world, input>>,
         phase' \in {"idle", "receipts", "rule", "done"},
         todo' \in Nat \ {0}, at' \in Nat \ {0}, tail' \in Nat,
         results' \in Seq(Rule!Result), given' \in Seq(Rule!Result),
         failures' \subseteq {"file", "record"} \X Nat,
         last' \in [at : Nat, files : Nat, status : Seq({"pass", "fail", "not_checked"})]
  PROVE  TypeOK'
BY DEF TypeOK, world, input

\* A verification starts with nothing checked.
LEMMA StartVerifyStep == ASSUME IInv, StartVerify PROVE IInv'
<1>1. TypeOK /\ CopyInv
  BY DEF IInv
<1>2. /\ copy # NoCopy /\ phase' = "receipts" /\ todo' = 1 /\ given' = << >> /\ results' = << >>
      /\ at' = 1 /\ failures' = {} /\ tail' = 0 /\ UNCHANGED <<world, input, last>>
  BY DEF StartVerify
<1>3. StoreInv' /\ UneditedInv' /\ CopyInv' /\ LastInv' /\ Listed' = Listed /\ Done(0)' = Done(0)
  BY <1>2, VerificationReads
<1>4. TypeOK'
  <2>1. << >> \in Seq(Rule!Result)
    BY EmptySeq
  <2>2. last' \in [at : Nat, files : Nat, status : Seq({"pass", "fail", "not_checked"})]
    BY <1>1, <1>2 DEF TypeOK
  <2>3. failures' \subseteq {"file", "record"} \X Nat
    BY <1>2
  <2> QED BY <1>1, <1>2, <2>1, <2>2, <2>3, RunTypes
<1>5. RunInv'
  <2>1. Len(Listed) \in Nat /\ Len(files) \in Nat
    BY <1>1, TotalGrows, ElementTypes, <1>2 DEF input
  <2>2. Done(0) = 0
    BY <1>1, <2>1, DoneAt
  <2>3. Len(results') = 0 /\ todo' - 1 = 0 /\ Len(files') = Len(files)
    BY <1>2 DEF input
  <2> QED BY <1>2, <1>3, <2>1, <2>2, <2>3 DEF RunInv
<1> QED BY <1>3, <1>4, <1>5 DEF IInv

\* One more result: the verdict on the next receipt in line.
LEMMA OneMoreResult ==
  ASSUME IInv, UNCHANGED <<world, input, last, phase, given, at, tail>>, phase = "receipts",
         todo <= Len(Listed) + Len(files), todo' = todo + 1,
         failures' \subseteq {"file", "record"} \X Nat,
         \/ results' = results /\ Done(todo) = Done(todo - 1)
         \/ /\ Done(todo) = Done(todo - 1) + 1 /\ Done(todo) \in 1..Total
            /\ results' = Append(results, SubjectVerdict(Done(todo)))
  PROVE  IInv'
<1>1. TypeOK /\ CopyInv /\ RunInv
  BY DEF IInv
<1>2. copy # NoCopy
  BY <1>1 DEF CopyInv
<1>3. /\ StoreInv' /\ UneditedInv' /\ CopyInv' /\ LastInv' /\ Listed' = Listed /\ Total' = Total
      /\ \A k : Done(k)' = Done(k)
      /\ \A i \in 1..Total : SubjectVerdict(i)' = SubjectVerdict(i)
  BY <1>2, VerificationReads
<1>4. /\ todo \in Nat \ {0} /\ results \in Seq(Rule!Result) /\ Len(results) = Done(todo - 1)
      /\ at = 1 /\ Len(Listed) \in Nat /\ Len(files) \in Nat /\ Total \in Nat
      /\ \A i \in 1..Len(results) : results[i] = SubjectVerdict(i)
  <2>1. UNCHANGED copy /\ files' = files
    BY DEF input
  <2> QED BY <1>1, <2>1, TotalGrows, ElementTypes DEF RunInv, TypeOK
<1>5. Len(results) \in Nat
  BY <1>4
<1>6. /\ results' \in Seq(Rule!Result) /\ Len(results') = Done(todo)
      /\ \A i \in 1..Len(results') : results'[i] = SubjectVerdict(i) /\ i \in 1..Total
  <2> DEFINE d == Done(todo)
             v == SubjectVerdict(Done(todo))
  <2>0. Len(results) <= Total
    <3>1. todo - 1 \in 0..(Len(Listed) + Len(files))
      BY <1>4
    <3>2. Done(todo - 1) \in 0..Total
      BY <1>1, <3>1, DoneAt
    <3> QED BY <1>4, <3>2
  <2>1. CASE results' = results /\ Done(todo) = Done(todo - 1)
    BY <1>4, <2>0, <2>1
  <2>2. CASE /\ Done(todo) = Done(todo - 1) + 1 /\ Done(todo) \in 1..Total
             /\ results' = Append(results, SubjectVerdict(Done(todo)))
    <3>1. v \in Rule!Result
      <4>1. PICK a, o : a = Subject(d) /\ o = (d > Len(Listed))
        OBVIOUS
      <4>2. Signs(a) /\ o \in BOOLEAN
        BY <1>1, <2>2, <4>1, SubjectSound
      <4> QED BY <1>1, <4>1, <4>2, CheckAnchorType DEF SubjectVerdict
    <3>2. d = Len(results) + 1 /\ d \in 1..Total /\ results' = Append(results, v)
      BY <1>4, <2>2
    <3> HIDE DEF d, v
    <3>3. /\ results' \in Seq(Rule!Result) /\ Len(results') = d
          /\ \A i \in 1..Len(results) : results'[i] = results[i]
          /\ results'[d] = v
      BY <1>4, <1>5, <3>1, <3>2
    <3>4. \A i \in 1..d : (i \in 1..Len(results) \/ i = d) /\ i \in 1..Total
      BY <1>4, <1>5, <3>2
    <3> QED BY <1>4, <3>3, <3>4 DEF d, v
  <2> QED BY <2>1, <2>2
<1>7. TypeOK'
  <2>1. /\ phase' \in {"idle", "receipts", "rule", "done"} /\ at' \in Nat \ {0} /\ tail' \in Nat
        /\ given' \in Seq(Rule!Result)
        /\ last' \in [at : Nat, files : Nat, status : Seq({"pass", "fail", "not_checked"})]
    BY <1>1 DEF TypeOK
  <2>2. todo' \in Nat \ {0}
    BY <1>4
  <2> QED BY <1>1, <1>6, <2>1, <2>2, RunTypes
<1>8. RunInv'
  <2>1. todo' <= Len(Listed)' + Len(files)' + 1 /\ at' = 1 /\ phase' = "receipts"
    BY <1>3, <1>4 DEF input
  <2>2. PICK t : t = todo
    OBVIOUS
  <2>3. (Len(results) = Done(todo - 1))'
    <3>1. todo' - 1 = t /\ Done(t)' = Done(t) /\ Len(results') = Done(t)
      BY <1>3, <1>4, <1>6, <2>2
    <3> QED BY <3>1 DEF Done
  <2>4. (\A i \in 1..Len(results) : results[i] = SubjectVerdict(i))'
    BY <1>3, <1>6
  <2> QED BY <2>1, <2>3, <2>4 DEF RunInv
<1> QED BY <1>3, <1>7, <1>8 DEF IInv

\* checkAnchor of one more receipt of the export.
LEMMA CheckReceiptStep == ASSUME IInv, CheckReceipt PROVE IInv'
<1>1. TypeOK /\ CopyInv
  BY DEF IInv
<1>2. /\ phase = "receipts" /\ todo <= Len(Listed) /\ todo' = todo + 1
      /\ results' = Append(results, CheckAnchor(Listed[todo], FALSE))
      /\ UNCHANGED <<world, input, phase, given, at, failures, tail, last>>
  BY DEF CheckReceipt
<1>3. Len(Listed) \in Nat /\ Len(files) \in Nat /\ Total \in Nat /\ todo \in 1..Len(Listed)
      /\ Len(Listed) <= Total
  <2>1. UNCHANGED copy /\ files' = files
    BY <1>2 DEF input
  <2>2. Len(Listed) \in Nat /\ Len(files) \in Nat /\ Total \in Nat
    BY <1>1, <2>1, TotalGrows, ElementTypes
  <2>3. todo \in Nat \ {0}
    BY <1>1 DEF TypeOK
  <2>4. Done(Len(Listed)) = Len(Listed) /\ Done(Len(Listed)) \in 0..Total
    <3>1. Len(Listed) \in 0..Len(Listed) /\ Len(Listed) \in 0..(Len(Listed) + Len(files))
      BY <2>2
    <3> QED BY <1>1, <3>1, DoneAt
  <2> QED BY <1>2, <2>2, <2>3, <2>4
<1>4. Done(todo) = todo /\ Done(todo - 1) = todo - 1
  <2>1. todo \in 0..Len(Listed) /\ todo - 1 \in 0..Len(Listed)
    BY <1>3
  <2> QED BY <1>1, <2>1, DoneAt
<1>5. SubjectVerdict(todo) = CheckAnchor(Listed[todo], FALSE)
  <2>1. todo <= Len(Listed) /\ (todo > Len(Listed)) = FALSE
    BY <1>3
  <2>2. Subject(todo) = Listed[todo]
    BY <2>1 DEF Subject
  <2> QED BY <2>1, <2>2 DEF SubjectVerdict
<1>6. failures' \subseteq {"file", "record"} \X Nat
  BY <1>1, <1>2 DEF TypeOK
<1>7. /\ Done(todo) = Done(todo - 1) + 1 /\ Done(todo) \in 1..Total
      /\ results' = Append(results, SubjectVerdict(Done(todo)))
      /\ todo <= Len(Listed) + Len(files)
  BY <1>2, <1>3, <1>4, <1>5
<1> QED BY <1>2, <1>6, <1>7, OneMoreResult

\* checkAnchor of one more file, when it reads as a receipt.
LEMMA CheckFileStep == ASSUME IInv, CheckFile PROVE IInv'
<1>1. TypeOK /\ CopyInv
  BY DEF IInv
<1> DEFINE k == todo - Len(Listed)
           f == files[k]
           u == Usable(SubSeq(files, 1, k - 1))
           v == Usable(SubSeq(files, 1, k))
<1>2. /\ phase = "receipts" /\ todo > Len(Listed) /\ todo <= Len(Listed) + Len(files)
      /\ todo' = todo + 1
      /\ UNCHANGED <<world, input, phase, given, at, tail, last>>
      /\ IF f.usable
         THEN results' = Append(results, CheckAnchor(f, TRUE)) /\ UNCHANGED failures
         ELSE failures' = failures \cup {<<"file", k>>} /\ UNCHANGED results
  BY DEF CheckFile
<1>3. Len(Listed) \in Nat /\ Len(files) \in Nat /\ Total \in Nat /\ k \in 1..Len(files)
      /\ todo = Len(Listed) + k /\ todo - 1 = Len(Listed) + (k - 1)
      /\ k \in 0..Len(files) /\ k - 1 \in 0..Len(files)
  <2>1. UNCHANGED copy /\ files' = files
    BY <1>2 DEF input
  <2>2. Len(Listed) \in Nat /\ Len(files) \in Nat /\ Total \in Nat
    BY <1>1, <2>1, TotalGrows, ElementTypes
  <2>3. todo \in Nat \ {0}
    BY <1>1 DEF TypeOK
  <2> QED BY <1>2, <2>2, <2>3
<1>4. /\ Done(todo) = Len(Listed) + Len(v) /\ Done(todo - 1) = Len(Listed) + Len(u)
      /\ u \in Seq(File) /\ v = AddUsable(u, f) /\ f \in File
  <2> HIDE DEF k
  <2>1. f \in File
    BY <1>1, <1>3, ElementTypes
  <2> QED BY <1>1, <1>3, <2>1, DoneAt
<1>5. failures' \subseteq {"file", "record"} \X Nat
  <2>1. failures \subseteq {"file", "record"} \X Nat
    BY <1>1 DEF TypeOK
  <2>2. failures' = failures \/ failures' = failures \cup {<<"file", k>>}
    BY <1>2
  <2>3. k \in Nat
    BY <1>3
  <2> HIDE DEF k
  <2> QED BY <2>1, <2>2, <2>3
<1>6. CASE ~f.usable
  <2>1. v = u /\ results' = results
    BY <1>2, <1>4, <1>6 DEF AddUsable
  <2>2. Done(todo) = Done(todo - 1)
    BY <1>4, <2>1
  <2> QED BY <1>2, <1>5, <2>1, <2>2, OneMoreResult
<1>7. CASE f.usable
  <2>1. v = Append(u, f) /\ results' = Append(results, CheckAnchor(f, TRUE))
    BY <1>2, <1>4, <1>7 DEF AddUsable
  <2>2. Len(v) = Len(u) + 1 /\ v[Len(v)] = f /\ Len(u) \in Nat
    BY <1>4, <2>1
  <2>3. Len(v) <= Len(Usable(files)) /\ \A i \in 1..Len(v) : v[i] = Usable(files)[i]
    <3>1. files \in Seq(File)
      BY <1>1 DEF TypeOK
    <3> HIDE DEF k
    <3> QED BY <1>3, <3>1, UsablePrefix
  <2>4. Usable(files)[Len(v)] = f
    <3>1. Len(v) \in 1..Len(v)
      BY <2>2
    <3> QED BY <2>2, <2>3, <3>1
  <2> HIDE DEF f, u, v, k
  <2>5. Done(todo) = Done(todo - 1) + 1 /\ Done(todo) \in 1..Total
    <3>1. Done(todo) \in 0..Total
      <4>1. todo \in 0..(Len(Listed) + Len(files))
        BY <1>3
      <4> QED BY <1>1, <4>1, DoneAt
    <3> QED BY <1>3, <1>4, <2>2, <3>1
  <2>6. SubjectVerdict(Done(todo)) = CheckAnchor(f, TRUE)
    <3> DEFINE d == Done(todo)
    <3>1. ~(d <= Len(Listed)) /\ (d > Len(Listed)) = TRUE /\ d - Len(Listed) = Len(v)
      BY <1>3, <1>4, <2>2
    <3> HIDE DEF d
    <3>2. Subject(d) = f
      BY <2>4, <3>1 DEF Subject
    <3>3. SubjectVerdict(d) = CheckAnchor(f, TRUE)
      BY <3>1, <3>2 DEF SubjectVerdict
    <3> QED BY <3>3 DEF d
  <2> QED BY <1>2, <1>5, <2>1, <2>5, <2>6, OneMoreResult
<1> QED BY <1>6, <1>7

\* Every receipt was checked when the long-term rule starts.
LEMMA StartRuleStep == ASSUME IInv, StartRule PROVE IInv'
<1>1. TypeOK /\ CopyInv /\ RunInv
  BY DEF IInv
<1>2. /\ phase = "receipts" /\ todo > Len(Listed) + Len(files) /\ given' = results /\ phase' = "rule"
      /\ UNCHANGED <<world, input, todo, results, at, failures, tail, last>>
  BY DEF StartRule
<1>3. copy # NoCopy
  BY <1>1, <1>2 DEF CopyInv
<1>4. /\ StoreInv' /\ UneditedInv' /\ CopyInv' /\ LastInv' /\ Listed' = Listed /\ Total' = Total
      /\ \A i \in 1..Total : SubjectVerdict(i)' = SubjectVerdict(i)
  BY <1>2, <1>3, VerificationReads
<1>5. /\ todo \in Nat /\ Len(Listed) \in Nat /\ Len(files) \in Nat
      /\ todo <= Len(Listed) + Len(files) + 1 /\ at = 1 /\ Len(results) = Done(todo - 1)
      /\ \A i \in 1..Len(results) : results[i] = SubjectVerdict(i)
      /\ results \in Seq(Rule!Result) /\ Len(results) \in Nat
  <2>1. UNCHANGED copy /\ files' = files
    BY <1>2 DEF input
  <2>2. Len(Listed) \in Nat /\ Len(files) \in Nat
    BY <1>1, <2>1, TotalGrows, ElementTypes
  <2>3. todo \in Nat /\ results \in Seq(Rule!Result) /\ Len(results) \in Nat
    BY <1>1 DEF TypeOK
  <2> QED BY <1>1, <1>2, <2>2, <2>3 DEF RunInv
<1>6. Len(results) = Total
  <2>1. todo - 1 = Len(Listed) + Len(files)
    BY <1>2, <1>5
  <2> QED BY <1>1, <1>5, <2>1, DoneAt
<1>7. TypeOK'
  <2>1. /\ phase' \in {"idle", "receipts", "rule", "done"} /\ at' \in Nat \ {0} /\ tail' \in Nat
        /\ todo' \in Nat \ {0}
        /\ failures' \subseteq {"file", "record"} \X Nat
        /\ last' \in [at : Nat, files : Nat, status : Seq({"pass", "fail", "not_checked"})]
    BY <1>1, <1>2 DEF TypeOK
  <2>2. given' \in Seq(Rule!Result) /\ results' \in Seq(Rule!Result)
    BY <1>2, <1>5
  <2> QED BY <1>1, <1>2, <2>1, <2>2, RunTypes
<1>8. RunInv'
  <2>1. (Len(given) = Total)' /\ (\A i \in 1..Len(given) : given[i] = SubjectVerdict(i))'
    BY <1>2, <1>4, <1>5, <1>6
  <2>2. Rule!RuleTypeOK'
    BY <1>2, <1>5 DEF Rule!RuleTypeOK
  <2>3. \A i \in 1..Len(given') : ~(i < at') /\ results'[i] = given'[i]
    BY <1>2, <1>5
  <2>4. Rule!RuleInv'
    BY <2>2, <2>3 DEF Rule!RuleInv
  <2> QED BY <1>2, <2>1, <2>4 DEF RunInv
<1> QED BY <1>4, <1>7, <1>8 DEF IInv

\* The two instances of the long-term rule, of its definitions and of its theorems, are one.
LEMMA RuleIsRule ==
  /\ RP!RuleInv <=> Rule!RuleInv
  /\ RP!Judge <=> Rule!Judge
  /\ RP!RuleInv' <=> Rule!RuleInv'
<1>1. RP!RuleInv <=> Rule!RuleInv
  BY Zenon DEF Rule!RuleInv, RP!RuleInv, Rule!RuleTypeOK, RP!RuleTypeOK, Rule!Stands, RP!Stands,
               Rule!Carried, RP!Carried, Rule!Carries, RP!Carries, Rule!Failed, RP!Failed,
               Rule!Result, RP!Result
<1>2. RP!RuleInv' <=> Rule!RuleInv'
  BY Zenon DEF Rule!RuleInv, RP!RuleInv, Rule!RuleTypeOK, RP!RuleTypeOK, Rule!Stands, RP!Stands,
               Rule!Carried, RP!Carried, Rule!Carries, RP!Carries, Rule!Failed, RP!Failed,
               Rule!Result, RP!Result
<1>3. RP!Judge <=> Rule!Judge
  BY Zenon DEF Rule!Judge, RP!Judge, Rule!Carried, RP!Carried, Rule!Carries, RP!Carries,
               Rule!Failed, RP!Failed
<1> QED BY <1>1, <1>2, <1>3

\* One iteration of the long-term rule.
LEMMA ApplyLongTermStep == ASSUME IInv, ApplyLongTerm PROVE IInv'
<1>1. TypeOK /\ CopyInv /\ RunInv
  BY DEF IInv
<1>2. phase = "rule" /\ Rule!Judge /\ UNCHANGED <<world, input, phase, todo, failures, tail, last>>
  BY DEF ApplyLongTerm
<1>3. copy # NoCopy
  BY <1>1, <1>2 DEF CopyInv
<1>4. /\ StoreInv' /\ UneditedInv' /\ CopyInv' /\ LastInv' /\ Total' = Total
      /\ \A i \in 1..Total : SubjectVerdict(i)' = SubjectVerdict(i)
  BY <1>2, <1>3, VerificationReads
<1>5. /\ Len(given) = Total /\ \A i \in 1..Len(given) : given[i] = SubjectVerdict(i)
      /\ Rule!RuleInv
  BY <1>1, <1>2 DEF RunInv
<1>6. Rule!RuleInv'
  <2>1. RP!RuleInv /\ RP!RuleNext
    BY <1>2, <1>5, RuleIsRule DEF RP!RuleNext
  <2>2. RP!RuleInv'
    BY <2>1, RP!JudgeStep
  <2> QED BY <2>2, RuleIsRule
<1>7. given' = given
  BY <1>2 DEF Rule!Judge
<1>8. TypeOK'
  <2>1. given' \in Seq(Rule!Result) /\ results' \in Seq(Rule!Result) /\ at' \in Nat \ {0}
    BY <1>6 DEF Rule!RuleInv, Rule!RuleTypeOK
  <2>2. /\ phase' \in {"idle", "receipts", "rule", "done"} /\ tail' \in Nat
        /\ todo' \in Nat \ {0}
        /\ failures' \subseteq {"file", "record"} \X Nat
        /\ last' \in [at : Nat, files : Nat, status : Seq({"pass", "fail", "not_checked"})]
    BY <1>1, <1>2 DEF TypeOK
  <2> QED BY <1>1, <1>2, <2>1, <2>2, RunTypes
<1>9. RunInv'
  <2>1. (Len(given) = Total)' /\ (\A i \in 1..Len(given) : given[i] = SubjectVerdict(i))'
    BY <1>4, <1>5, <1>7
  <2>2. phase' = "rule"
    BY <1>2
  <2> QED BY <1>6, <2>1, <2>2 DEF RunInv
<1> QED BY <1>4, <1>8, <1>9 DEF IInv

\* What the results say after the rule: the verdict on a receipt, or a failure.
LEMMA ResultIs ==
  ASSUME IInv, phase \in {"rule", "done"}
  PROVE  /\ Len(results) = Total /\ Len(given) = Total /\ Total \in Nat
         /\ \A i \in 1..Total :
              /\ given[i] = SubjectVerdict(i) /\ given[i] \in Rule!Result
              /\ given[i].head \in 0..Len(copy.events)
              /\ results[i].head = given[i].head /\ results[i].signedAt = given[i].signedAt
              /\ results[i].status = IF i < at /\ ~Rule!Stands(i) THEN "fail" ELSE given[i].status
<1>1. TypeOK /\ CopyInv /\ RunInv
  BY DEF IInv
<1>2. /\ Len(given) = Total /\ \A i \in 1..Len(given) : given[i] = SubjectVerdict(i)
      /\ Rule!RuleInv
  BY <1>1 DEF RunInv
<1>3. Len(results) = Total /\ Total \in Nat
  <2>1. Len(results) = Len(given) /\ Len(given) \in Nat
    BY <1>2 DEF Rule!RuleInv, Rule!RuleTypeOK
  <2> QED BY <1>2, <2>1
<1>4. \A i \in 1..Total : given[i] \in Rule!Result /\ given[i].head \in 0..Len(copy.events)
  <2> TAKE i \in 1..Total
  <2>1. PICK a, o : a = Subject(i) /\ o = (i > Len(Listed))
    OBVIOUS
  <2>2. Signs(a) /\ o \in BOOLEAN
    BY <1>1, <2>1, SubjectSound
  <2>3. given[i] = CheckAnchor(a, o)
    BY <1>2, <2>1 DEF SubjectVerdict
  <2> QED BY <1>1, <2>2, <2>3, CheckAnchorType
<1>5. \A i \in 1..Total :
        results[i] = IF i < at /\ ~Rule!Stands(i) THEN Rule!Failed(given[i]) ELSE given[i]
  BY <1>2 DEF Rule!RuleInv
<1>6. \A i \in 1..Total :
        /\ results[i].head = given[i].head /\ results[i].signedAt = given[i].signedAt
        /\ results[i].status = IF i < at /\ ~Rule!Stands(i) THEN "fail" ELSE given[i].status
  <2> TAKE i \in 1..Total
  <2>1. CASE i < at /\ ~Rule!Stands(i)
    <3>1. results[i] = Rule!Failed(given[i])
      BY <1>5, <2>1
    <3> QED BY <2>1, <3>1 DEF Rule!Failed
  <2>2. CASE ~(i < at /\ ~Rule!Stands(i))
    BY <1>5, <2>2
  <2> QED BY <2>1, <2>2
<1> QED BY <1>2, <1>3, <1>4, <1>6

\* A result stands by the long-term rule exactly when it stands by the rule at this time.
LEMMA StandsIs ==
  ASSUME IInv, phase \in {"rule", "done"}, NEW i \in 1..Total
  PROVE  Rule!Stands(i) <=> StandsAt(i, now, Total)
<1>1. TypeOK /\ CopyInv
  BY DEF IInv
<1>2. /\ Len(given) = Total /\ \A j \in 1..Total : given[j] = SubjectVerdict(j)
  BY ResultIs
<1>3. \A j \in 1..Total : SubjectVerdict(j).status = "pass" =>
        (SubjectVerdict(j).validNow <=> ValidAt(j, now))
  <2> SUFFICES ASSUME NEW j \in 1..Total, SubjectVerdict(j).status = "pass"
               PROVE  SubjectVerdict(j).validNow <=> ValidAt(j, now)
    OBVIOUS
  <2>1. PICK a, o : a = Subject(j) /\ o = (j > Len(Listed))
    OBVIOUS
  <2>2. Signs(a) /\ o \in BOOLEAN
    BY <1>1, <2>1, SubjectSound
  <2>3. SubjectVerdict(j) = CheckAnchor(a, o)
    BY <2>1 DEF SubjectVerdict
  <2>4. SubjectVerdict(j) = Verdict("pass", EventAt(a), tokens[a.sha].at, ValidToday(tokens[a.sha]))
    BY <1>1, <2>2, <2>3, PassingVerdict
  <2>5. SubjectVerdict(j).validNow = ValidToday(tokens[a.sha])
    BY <2>4 DEF Verdict
  <2> QED BY <2>1, <2>5 DEF ValidToday, ValidAt, TokenOf
<1> QED BY <1>2, <1>3 DEF Rule!Stands, Rule!Carried, Rule!Carries, StandsAt

\* The furthest anchored event is a position of the copy, or none, and no result in good standing
\* is about a later one.
LEMMA LastAnchoredIs ==
  ASSUME IInv, phase \in {"rule", "done"}
  PROVE  /\ LastAnchored \in 0..Len(copy.events)
         /\ \A i \in 1..Len(results) : results[i].status # "fail" => results[i].head <= LastAnchored
         /\ LastAnchored > 0 => \E i \in 1..Len(results) :
              results[i].status # "fail" /\ results[i].head = LastAnchored
<1> DEFINE I == {0} \cup {results[i].head : i \in {j \in 1..Len(results) : results[j].status # "fail"}}
<1>1. Len(copy.events) \in Nat
  BY ElementTypes DEF IInv
<1>2. Len(results) = Total /\ \A i \in 1..Total : results[i].head \in 0..Len(copy.events)
  BY ResultIs
<1>3. I \in SUBSET (0..Len(copy.events)) /\ I # {}
  BY <1>1, <1>2
<1>4. LastAnchored = Max(I)
  BY DEF LastAnchored
<1> HIDE DEF I
<1>5. Max(I) \in I /\ \A x \in I : x <= Max(I)
  BY <1>1, <1>3, PositionsOf
<1>6. PICK x \in I : x = LastAnchored /\ \A y \in I : y <= x
  BY <1>4, <1>5
<1>7. LastAnchored \in 0..Len(copy.events)
  BY <1>3, <1>6
<1>8. \A i \in 1..Len(results) : results[i].status # "fail" => results[i].head <= LastAnchored
  BY <1>6 DEF I
<1>9. LastAnchored > 0 => \E i \in 1..Len(results) :
              results[i].status # "fail" /\ results[i].head = LastAnchored
  BY <1>6 DEF I
<1> QED BY <1>7, <1>8, <1>9

\* The records without a receipt, and the tail.
LEMMA ConcludeStep == ASSUME IInv, Conclude PROVE IInv'
<1>1. TypeOK /\ CopyInv /\ RunInv
  BY DEF IInv
<1>2. /\ phase = "rule" /\ Rule!Judged /\ tail' = LastAnchored /\ phase' = "done"
      /\ failures' = failures \cup {<<"record", k>> : k \in Unreceipted}
      /\ UNCHANGED <<world, input, todo, given, results, at, last>>
  BY DEF Conclude
<1>3. copy # NoCopy
  BY <1>1, <1>2 DEF CopyInv
<1>4. /\ StoreInv' /\ UneditedInv' /\ CopyInv' /\ LastInv' /\ Total' = Total /\ Listed' = Listed
      /\ \A i \in 1..Total : SubjectVerdict(i)' = SubjectVerdict(i)
  BY <1>2, <1>3, VerificationReads
<1>5. /\ Len(given) = Total /\ \A i \in 1..Len(given) : given[i] = SubjectVerdict(i)
      /\ Rule!RuleInv
  BY <1>1, <1>2 DEF RunInv
<1>6. UNCHANGED <<records, copy>>
  BY <1>2 DEF world, input
<1>7. Unreceipted' = Unreceipted
  BY <1>4, <1>6 DEF Unreceipted
<1>8. LastAnchored' = LastAnchored /\ LastAnchored \in Nat
  <2>1. LastAnchored \in 0..Len(copy.events)
    BY <1>2, LastAnchoredIs
  <2>2. LastAnchored' = LastAnchored
    BY <1>2 DEF LastAnchored
  <2> QED BY <1>1, <2>1, <2>2, ElementTypes
<1>9. TypeOK'
  <2>1. failures' \subseteq {"file", "record"} \X Nat
    <3>1. failures \subseteq {"file", "record"} \X Nat
      BY <1>1 DEF TypeOK
    <3>2. Unreceipted \subseteq Nat
      BY <1>1, ElementTypes DEF Unreceipted
    <3> QED BY <1>2, <3>1, <3>2
  <2>2. /\ phase' \in {"idle", "receipts", "rule", "done"} /\ tail' \in Nat
        /\ todo' \in Nat \ {0} /\ at' \in Nat \ {0}
        /\ given' \in Seq(Rule!Result) /\ results' \in Seq(Rule!Result)
        /\ last' \in [at : Nat, files : Nat, status : Seq({"pass", "fail", "not_checked"})]
    BY <1>1, <1>2, <1>8 DEF TypeOK
  <2> QED BY <1>1, <1>2, <2>1, <2>2, RunTypes
<1>10. RunInv'
  <2>1. (Len(given) = Total)' /\ (\A i \in 1..Len(given) : given[i] = SubjectVerdict(i))'
    BY <1>2, <1>4, <1>5
  <2>2. Rule!RuleInv'
    BY <1>2, <1>5 DEF Rule!RuleInv, Rule!RuleTypeOK, Rule!Stands, Rule!Carried, Rule!Carries
  <2>3. Rule!Judged'
    BY <1>2 DEF Rule!Judged
  <2>4. (\A k \in Unreceipted : <<"record", k>> \in failures)'
    BY <1>2, <1>7
  <2>5. (tail = LastAnchored)'
    BY <1>2, <1>8
  <2> QED BY <1>2, <2>1, <2>2, <2>3, <2>4, <2>5 DEF RunInv
<1> QED BY <1>4, <1>9, <1>10 DEF IInv

\* What is remembered of a verification is what it said.
LEMMA CloseStep == ASSUME IInv, Close PROVE IInv'
<1>1. TypeOK /\ CopyInv /\ RunInv
  BY DEF IInv
<1>2. /\ phase = "done"
      /\ last' = [at |-> now, files |-> Len(files),
                  status |-> [i \in 1..Len(results) |-> results[i].status]]
      /\ phase' = "idle" /\ todo' = 1 /\ given' = << >> /\ results' = << >> /\ at' = 1
      /\ failures' = {} /\ tail' = 0 /\ UNCHANGED <<world, input>>
  BY DEF Close
<1>3. copy # NoCopy
  BY <1>1, <1>2 DEF CopyInv
<1>4. /\ StoreInv' /\ UneditedInv' /\ CopyInv' /\ Total' = Total
      /\ \A i \in 1..Total : SubjectVerdict(i)' = SubjectVerdict(i) /\ TokenOf(i)' = TokenOf(i)
  BY <1>2, <1>3, VerificationReads
<1>5. /\ Len(results) = Total /\ Total \in Nat
      /\ \A i \in 1..Total :
           /\ given[i] = SubjectVerdict(i) /\ given[i] \in Rule!Result
           /\ results[i].status = IF i < at /\ ~Rule!Stands(i) THEN "fail" ELSE given[i].status
  BY <1>2, ResultIs
<1>6. Rule!Judged /\ at \in Nat
  BY <1>1, <1>2 DEF RunInv, TypeOK
<1>7. \A i \in 1..Total :
        results[i].status = IF StandsAt(i, now, Total) THEN SubjectVerdict(i).status ELSE "fail"
  <2> TAKE i \in 1..Total
  <2>1. i < at
    BY <1>5, <1>6 DEF Rule!Judged
  <2>2. Rule!Stands(i) <=> StandsAt(i, now, Total)
    BY <1>2, StandsIs
  <2>3. CASE StandsAt(i, now, Total)
    BY <1>5, <2>1, <2>2, <2>3
  <2>4. CASE ~StandsAt(i, now, Total)
    BY <1>5, <2>1, <2>2, <2>4
  <2> QED BY <2>3, <2>4
<1> DEFINE st == [i \in 1..Len(results) |-> results[i].status]
<1>8. st \in Seq({"pass", "fail", "not_checked"}) /\ Len(st) = Total
      /\ \A i \in 1..Total : st[i] = results[i].status
  <2>1. \A i \in 1..Total : results[i].status \in {"pass", "fail", "not_checked"}
    <3> TAKE i \in 1..Total
    <3>1. given[i].status \in {"pass", "fail", "not_checked"}
      BY <1>5 DEF Rule!Result
    <3>2. results[i].status = "fail" \/ results[i].status = given[i].status
      BY <1>5
    <3> QED BY <3>1, <3>2
  <2>2. st = [i \in 1..Total |-> results[i].status]
    BY <1>5
  <2> QED BY <1>5, <2>1, <2>2
<1>9. /\ last'.at = now /\ last'.files = Len(files) /\ last'.status = st
      /\ now \in Nat /\ Len(files) \in Nat
      /\ last' = [at |-> now, files |-> Len(files), status |-> st]
  BY <1>1, <1>2, ElementTypes
<1> HIDE DEF st
<1>10. TypeOK'
  <2>1. last' \in [at : Nat, files : Nat, status : Seq({"pass", "fail", "not_checked"})]
    BY <1>8, <1>9
  <2>2. << >> \in Seq(Rule!Result)
    BY EmptySeq
  <2>3. failures' \subseteq {"file", "record"} \X Nat
    BY <1>2
  <2> QED BY <1>1, <1>2, <2>1, <2>2, <2>3, RunTypes
<1>11. RunInv'
  BY <1>2 DEF RunInv
<1>12. LastInv'
  <2>1. now' = now /\ files' = files
    BY <1>2 DEF world, input
  <2>2. PICK t, m : t = now /\ m = Total
    OBVIOUS
  <2>3. \A i \in 1..m : StandsAt(i, t, m)' <=> StandsAt(i, t, m)
    BY <1>4, <2>2 DEF StandsAt, ValidAt
  <2>4. \A i \in 1..m : last'.status[i] = IF StandsAt(i, t, m)' THEN SubjectVerdict(i)'.status ELSE "fail"
    BY <1>4, <1>7, <1>8, <1>9, <2>2, <2>3
  <2>5. last'.at = t /\ Len(last'.status) = m
    BY <1>8, <1>9, <2>2
  <2>6. (\A i \in 1..Len(last.status) :
           last.status[i] = IF StandsAt(i, last.at, Len(last.status))
                            THEN SubjectVerdict(i).status ELSE "fail")'
    BY <2>4, <2>5 DEF StandsAt, ValidAt
  <2> QED BY <1>4, <1>5, <1>8, <1>9, <2>1, <2>6 DEF LastInv
<1> QED BY <1>4, <1>10, <1>11, <1>12 DEF IInv

\* Every step keeps the invariant.
LEMMA NextStep == ASSUME IInv, [Next]_vars PROVE IInv'
<1>1. CASE UNCHANGED vars
  <2>1. /\ UNCHANGED <<now, history, written, records, pending, tokens, receipts, edits>>
        /\ UNCHANGED <<bundle, roots, bounds, copy, files>>
        /\ UNCHANGED <<phase, todo, given, results, at, failures, tail, last>>
    BY <1>1 DEF vars, world, input, run
  <2>2. TypeOK /\ StoreInv /\ UneditedInv /\ CopyInv /\ RunInv /\ LastInv
    BY DEF IInv
  <2>3. TypeOK'
    BY <2>1, <2>2 DEF TypeOK
  <2>4. StoreInv'
    BY <2>1, <2>2 DEF StoreInv, Signs, Recorded
  <2>5. CopyInv'
    BY <2>1, <2>2 DEF CopyInv, Signs, Recorded
  <2>6. UneditedInv'
    BY <2>1, <2>2 DEF UneditedInv, Names, ExportedEvent
  <2>7. /\ Listed' = Listed /\ Total' = Total /\ Unreceipted' = Unreceipted
        /\ LastAnchored' = LastAnchored
        /\ \A k : Done(k)' = Done(k)
    BY <2>1 DEF Listed, Total, Unreceipted, LastAnchored, Done
  <2>8. \A i \in 1..Total : SubjectVerdict(i)' = SubjectVerdict(i)
    BY <2>1, <2>2, SubjectStable
  <2>9. /\ Rule!RuleInv => Rule!RuleInv'
        /\ Rule!Judged => Rule!Judged'
    BY <2>1 DEF Rule!RuleInv, Rule!RuleTypeOK, Rule!Stands, Rule!Carried, Rule!Carries, Rule!Judged
  <2>10. RunInv'
    <3>1. phase = "receipts" => (\A i \in 1..Len(results) : i \in 1..Total)
      <4> SUFFICES ASSUME phase = "receipts" PROVE \A i \in 1..Len(results) : i \in 1..Total
        OBVIOUS
      <4>1. Len(Listed) \in Nat /\ Len(files) \in Nat /\ Total \in Nat /\ todo \in Nat \ {0}
        <5>1. UNCHANGED copy /\ files' = files
          BY <2>1
        <5>2. todo \in Nat \ {0}
          BY <2>2 DEF TypeOK
        <5> QED BY <2>2, <5>1, <5>2, TotalGrows, ElementTypes
      <4>2. todo <= Len(Listed) + Len(files) + 1 /\ Len(results) = Done(todo - 1)
        BY <2>2 DEF RunInv
      <4>3. todo - 1 \in 0..(Len(Listed) + Len(files))
        BY <4>1, <4>2
      <4>4. Done(todo - 1) \in 0..Total
        BY <2>2, <4>3, DoneAt
      <4> QED BY <4>1, <4>2, <4>4
    <3>2. phase = "receipts" =>
            (/\ todo <= Len(Listed) + Len(files) + 1 /\ at = 1
             /\ Len(results) = Done(todo - 1)
             /\ \A i \in 1..Len(results) : results[i] = SubjectVerdict(i))'
      <4>1. PICK t : t = todo - 1
        OBVIOUS
      <4>2. Done(t)' = Done(t) /\ (todo - 1)' = t
        BY <2>1, <2>7, <4>1
      <4>3. Done(todo - 1)' = Done(todo - 1)
        BY <2>1, <2>7, <4>1, <4>2 DEF Done
      <4> QED BY <2>1, <2>2, <2>7, <2>8, <3>1, <4>3 DEF RunInv
    <3>3. phase \in {"rule", "done"} =>
            (/\ Len(given) = Total
             /\ \A i \in 1..Len(given) : given[i] = SubjectVerdict(i)
             /\ Rule!RuleInv)'
      BY <2>1, <2>2, <2>7, <2>8, <2>9 DEF RunInv
    <3>4. phase = "done" =>
            (/\ Rule!Judged
             /\ \A k \in Unreceipted : <<"record", k>> \in failures
             /\ tail = LastAnchored)'
      BY <2>1, <2>2, <2>7, <2>9 DEF RunInv
    <3> QED BY <2>1, <3>2, <3>3, <3>4 DEF RunInv
  <2>11. LastInv'
    BY <2>1, <2>2, ElementTypes, LastStable
  <2> QED BY <2>3, <2>4, <2>5, <2>6, <2>10, <2>11 DEF IInv
<1>2. CASE Next
  BY <1>2, TickStep, AppendEventStep, SignHeadStep, ReanchorStep, RecordAnchorStep, RewindStep,
     ExportStep, EditCopyStep, StrayFileStep, StartVerifyStep, CheckReceiptStep, CheckFileStep,
     StartRuleStep, ApplyLongTermStep, ConcludeStep, CloseStep DEF Next
<1> QED BY <1>1, <1>2

\* The inductive invariant, for every number of events, authorities, receipts and verifications.
THEOREM Invariance == Spec => []IInv
BY InitInv, NextStep, PTL DEF Spec

\* Every variable has its type.
THEOREM TypeCorrect == Spec => []TypeOK
<1>1. IInv => TypeOK
  BY DEF IInv
<1> QED BY <1>1, Invariance, PTL

-----------------------------------------------------------------------------
\* A finished verification: what it says of a receipt is checkAnchor's verdict or, when nothing
\* valid today carries the receipt, a failure; what it does not fail, an authority signed.
LEMMA ReportIs ==
  ASSUME IInv, phase = "done"
  PROVE  /\ Len(results) = Total /\ Total \in Nat
         /\ \A i \in 1..Total :
              /\ results[i].status
                   = IF StandsAt(i, now, Total) THEN SubjectVerdict(i).status ELSE "fail"
              /\ results[i].head = SubjectVerdict(i).head
              /\ TokenOf(i) \in Token /\ TokenOf(i).at <= now
              /\ results[i].status # "fail" =>
                   /\ results[i].head \in 1..Len(copy.events)
                   /\ TokenOf(i).hash = Recomputed(results[i].head)
              /\ SubjectVerdict(i).status = "pass" =>
                   TokenOf(i).tsa \in roots /\ SubjectVerdict(i).signedAt = TokenOf(i).at
<1>1. TypeOK /\ CopyInv /\ StoreInv /\ RunInv
  BY DEF IInv
<1>2. /\ Len(results) = Total /\ Total \in Nat
      /\ \A i \in 1..Total :
           /\ given[i] = SubjectVerdict(i) /\ results[i].head = given[i].head
           /\ results[i].status = IF i < at /\ ~Rule!Stands(i) THEN "fail" ELSE given[i].status
  BY ResultIs
<1>3. at \in Nat /\ at > Total
  BY <1>1, <1>2 DEF RunInv, TypeOK, Rule!Judged
<1>4. SUFFICES ASSUME NEW i \in 1..Total
      PROVE  /\ results[i].status
                   = IF StandsAt(i, now, Total) THEN SubjectVerdict(i).status ELSE "fail"
             /\ results[i].head = SubjectVerdict(i).head
             /\ TokenOf(i) \in Token /\ TokenOf(i).at <= now
             /\ results[i].status # "fail" =>
                  /\ results[i].head \in 1..Len(copy.events)
                  /\ TokenOf(i).hash = Recomputed(results[i].head)
             /\ SubjectVerdict(i).status = "pass" =>
                  TokenOf(i).tsa \in roots /\ SubjectVerdict(i).signedAt = TokenOf(i).at
  BY <1>2
<1>5. results[i].status = IF StandsAt(i, now, Total) THEN SubjectVerdict(i).status ELSE "fail"
  <2>1. i < at
    BY <1>2, <1>3
  <2>2. Rule!Stands(i) <=> StandsAt(i, now, Total)
    BY StandsIs
  <2>3. CASE StandsAt(i, now, Total)
    BY <1>2, <2>1, <2>2, <2>3
  <2>4. CASE ~StandsAt(i, now, Total)
    BY <1>2, <2>1, <2>2, <2>4
  <2> QED BY <2>3, <2>4
<1>6. PICK a, o : a = Subject(i) /\ o = (i > Len(Listed))
  OBVIOUS
<1>7. Signs(a) /\ o \in BOOLEAN /\ SubjectVerdict(i) = CheckAnchor(a, o) /\ TokenOf(i) = tokens[a.sha]
  BY <1>1, <1>6, SubjectSound DEF SubjectVerdict, TokenOf
<1>8. TokenOf(i) \in Token /\ TokenOf(i).at <= now /\ a.headHash = TokenOf(i).hash
  <2>1. a.sha \in 1..Len(tokens)
    BY <1>7 DEF Signs
  <2> QED BY <1>1, <1>7, <2>1, ElementTypes DEF StoreInv, Signs
<1>9. results[i].status # "fail" =>
        results[i].head \in 1..Len(copy.events) /\ TokenOf(i).hash = Recomputed(results[i].head)
  <2> SUFFICES ASSUME results[i].status # "fail"
               PROVE  results[i].head \in 1..Len(copy.events) /\ TokenOf(i).hash = Recomputed(results[i].head)
    OBVIOUS
  <2>1. CheckAnchor(a, o).status # "fail" /\ results[i].head = CheckAnchor(a, o).head
    BY <1>2, <1>5, <1>7
  <2>2. CheckAnchor(a, o).head \in 0..Len(copy.events) /\ Placed(a, CheckAnchor(a, o).head)
    BY <1>1, <1>7, <2>1, CheckAnchorType
  <2> QED BY <1>1, <1>8, <2>1, <2>2, ElementTypes DEF Placed
<1>10. SubjectVerdict(i).status = "pass" =>
         TokenOf(i).tsa \in roots /\ SubjectVerdict(i).signedAt = TokenOf(i).at
  <2> SUFFICES ASSUME SubjectVerdict(i).status = "pass"
               PROVE  TokenOf(i).tsa \in roots /\ SubjectVerdict(i).signedAt = TokenOf(i).at
    OBVIOUS
  <2>1. /\ tokens[a.sha].tsa \in roots
        /\ CheckAnchor(a, o)
              = Verdict("pass", EventAt(a), tokens[a.sha].at, ValidToday(tokens[a.sha]))
    BY <1>1, <1>7, PassingVerdict
  <2> QED BY <1>7, <2>1 DEF Verdict
<1> QED BY <1>2, <1>5, <1>8, <1>9, <1>10

\* checkAnchor: behind intact links, a receipt that passes shows the events up to its head as a
\* trusted authority saw them.
THEOREM PassShowsWhatWasSigned == Spec => []PassIsWhatWasSigned
<1>1. ASSUME IInv PROVE PassIsWhatWasSigned
  <2> SUFFICES ASSUME phase = "done", NEW i \in 1..Len(results), results[i].status = "pass",
                      LinksHold(results[i].head)
               PROVE  /\ TokenOf(i).hash = [k \in 1..results[i].head |-> copy.events[k].num]
                      /\ TokenOf(i).tsa \in roots
                      /\ TokenOf(i).at <= now
    BY DEF PassIsWhatWasSigned
  <2>1. i \in 1..Total
    BY <1>1, ReportIs
  <2>2. /\ SubjectVerdict(i).status = "pass" /\ TokenOf(i).at <= now
        /\ results[i].head \in 1..Len(copy.events)
        /\ TokenOf(i).hash = Recomputed(results[i].head)
    BY <1>1, <2>1, ReportIs
  <2>3. TokenOf(i).tsa \in roots
    BY <1>1, <2>1, <2>2, ReportIs
  <2>4. PICK h : h = results[i].head
    OBVIOUS
  <2>5. h \in 1..Len(copy.events) /\ Len(copy.events) \in Nat
        /\ \A k \in 1..Len(copy.events) : copy.events[k].num \in Nat
    BY <1>1, <2>2, <2>4, ElementTypes DEF IInv
  <2>6. copy.events[h].prevHash = [k \in 1..(h - 1) |-> copy.events[k].num]
    BY <2>4, <2>5 DEF LinksHold
  <2>7. Recomputed(h) = [k \in 1..h |-> copy.events[k].num]
    <3> DEFINE s == [k \in 1..(h - 1) |-> copy.events[k].num]
    <3>1. s \in Seq(Nat) /\ Len(s) = h - 1
      BY <2>5
    <3>2. Recomputed(h) = Append(s, copy.events[h].num)
      BY <2>6 DEF Recomputed
    <3>3. Append(s, copy.events[h].num) = [k \in 1..h |-> copy.events[k].num]
      BY <2>5, <3>1
    <3> QED BY <3>2, <3>3
  <2> QED BY <2>2, <2>3, <2>4, <2>7
<1> QED BY <1>1, Invariance, PTL

\* applyLongTerm: no receipt passes on the word of expired certificates alone.
THEOREM PassIsVouched == Spec => []PassIsVouchedForToday
<1>1. ASSUME IInv PROVE PassIsVouchedForToday
  <2> SUFFICES ASSUME phase = "done", NEW i \in 1..Len(results), results[i].status = "pass"
               PROVE  \E j \in 1..Len(results) :
                        /\ results[j].status = "pass"
                        /\ now <= NotAfter[TokenOf(j).tsa]
                        /\ results[j].head >= results[i].head
                        /\ j = i \/ TokenOf(j).at >= TokenOf(i).at
    BY DEF PassIsVouchedForToday
  <2>1. Len(results) = Total /\ i \in 1..Total
    BY <1>1, ReportIs
  <2>2. StandsAt(i, now, Total) /\ SubjectVerdict(i).status = "pass" /\ results[i].head \in Nat
    BY <1>1, <2>1, ReportIs, ElementTypes DEF IInv
  <2>3. CASE ValidAt(i, now)
    BY <2>1, <2>2, <2>3 DEF ValidAt
  <2>4. CASE ~ValidAt(i, now)
    <3>1. PICK j \in 1..Total :
            /\ j # i /\ SubjectVerdict(j).status = "pass" /\ ValidAt(j, now)
            /\ SubjectVerdict(j).head >= SubjectVerdict(i).head
            /\ SubjectVerdict(j).signedAt > SubjectVerdict(i).signedAt
      BY <2>2, <2>4 DEF StandsAt
    <3>2. StandsAt(j, now, Total)
      BY <3>1 DEF StandsAt
    <3>3. results[j].status = "pass" /\ results[j].head >= results[i].head
      BY <1>1, <2>1, <3>1, <3>2, ReportIs
    <3>4. /\ SubjectVerdict(j).signedAt = TokenOf(j).at /\ SubjectVerdict(i).signedAt = TokenOf(i).at
          /\ TokenOf(j).at \in Nat /\ TokenOf(i).at \in Nat
      BY <1>1, <2>1, <2>2, <3>1, ReportIs DEF Token
    <3>5. TokenOf(j).at >= TokenOf(i).at
      BY <3>1, <3>4
    <3> QED BY <2>1, <3>1, <3>3, <3>5 DEF ValidAt
  <2> QED BY <2>3, <2>4
<1> QED BY <1>1, Invariance, PTL

\* A receipt that stands at a time over some receipts stood at every earlier time over as many, and
\* stands over more.
LEMMA StandsMonotone ==
  ASSUME IInv, phase = "done", NEW i \in 1..Total, NEW t \in Nat, NEW u \in Nat, t <= u,
         NEW m \in 0..Total, NEW n \in m..Total, StandsAt(i, u, m)
  PROVE  StandsAt(i, t, n)
<1>1. Total \in Nat
  BY ReportIs
<1>2. \A j \in 1..Total : ValidAt(j, u) => ValidAt(j, t)
  <2> TAKE j \in 1..Total
  <2>1. NotAfter[TokenOf(j).tsa] \in Nat
    BY ReportIs, AnchoringAssumption DEF Token
  <2> QED BY <2>1 DEF ValidAt
<1>3. \A j \in 1..m : j \in 1..n /\ j \in 1..Total
  BY <1>1
<1> QED BY <1>2, <1>3 DEF StandsAt

\* Time alone heals nothing: what failed fails in every later verification of the same copy.
THEOREM FailuresStay == Spec => []TimeHealsNothing
<1>1. ASSUME IInv PROVE TimeHealsNothing
  <2> SUFFICES ASSUME phase = "done", last # NoRun, last.files = Len(files),
                      NEW i \in 1..Len(last.status), last.status[i] = "fail"
               PROVE  results[i].status = "fail"
    BY DEF TimeHealsNothing
  <2>1. /\ last.at <= now /\ Len(last.status) = Total
        /\ last.status[i] = IF StandsAt(i, last.at, Total) THEN SubjectVerdict(i).status ELSE "fail"
    BY <1>1 DEF IInv, LastInv
  <2>2. last.at \in Nat /\ now \in Nat /\ Total \in Nat
    BY <1>1, ReportIs, ElementTypes DEF IInv, TypeOK
  <2>3. i \in 1..Total /\ Total \in 0..Total /\ Total \in Total..Total
    BY <2>1, <2>2
  <2>4. StandsAt(i, now, Total) => StandsAt(i, last.at, Total)
    <3>1. PICK t, u : t = last.at /\ u = now
      OBVIOUS
    <3> QED BY <1>1, <2>1, <2>2, <2>3, <3>1, StandsMonotone
  <2> QED BY <1>1, <2>1, <2>3, <2>4, ReportIs
<1> QED BY <1>1, Invariance, PTL

\* assure reanchor never harms: at one time, receipts added fail none that passed without them.
THEOREM MoreReceiptsOnlyHelp == Spec => []ReceiptsOnlyHelp
<1>1. ASSUME IInv PROVE ReceiptsOnlyHelp
  <2> SUFFICES ASSUME phase = "done", last.at = now,
                      NEW i \in 1..Len(last.status), last.status[i] = "pass"
               PROVE  results[i].status = "pass"
    BY DEF ReceiptsOnlyHelp
  <2>1. last # NoRun
    BY EmptySeq DEF NoRun
  <2>2. PICK m : m = Len(last.status)
    OBVIOUS
  <2>3. /\ m <= Total
        /\ last.status[i] = IF StandsAt(i, now, m) THEN SubjectVerdict(i).status ELSE "fail"
    BY <1>1, <2>1, <2>2 DEF IInv, LastInv
  <2>4. m \in Nat /\ now \in Nat /\ Total \in Nat
    <3>1. Len(last.status) \in Nat
      BY <1>1 DEF IInv, TypeOK
    <3> QED BY <1>1, <2>2, <3>1, ReportIs, ElementTypes DEF IInv
  <2>5. i \in 1..Total /\ m \in 0..Total /\ Total \in m..Total
    BY <2>2, <2>3, <2>4
  <2>6. StandsAt(i, now, m) /\ SubjectVerdict(i).status = "pass"
    BY <2>3
  <2>7. StandsAt(i, now, Total)
    <3>1. PICK t : t = now
      OBVIOUS
    <3> QED BY <1>1, <2>4, <2>5, <2>6, <3>1, StandsMonotone
  <2> QED BY <1>1, <2>5, <2>6, <2>7, ReportIs
<1> QED BY <1>1, Invariance, PTL

\* tailLine: no receipt in good standing commits to an event it calls unanchored, and an authority
\* signed what the copy says of the event before them.
THEOREM TailUnanchored == Spec => []TailIsUnanchored
<1>1. ASSUME IInv PROVE TailIsUnanchored
  <2> SUFFICES ASSUME phase = "done"
               PROVE  /\ \A i \in 1..Len(results) : results[i].status # "fail" => results[i].head <= tail
                      /\ tail > 0 => \E i \in 1..Len(results) :
                           results[i].status # "fail" /\ TokenOf(i).hash = Recomputed(tail)
    BY DEF TailIsUnanchored
  <2>1. tail = LastAnchored
    BY <1>1 DEF IInv, RunInv
  <2>2. /\ \A i \in 1..Len(results) : results[i].status # "fail" => results[i].head <= LastAnchored
        /\ LastAnchored > 0 => \E i \in 1..Len(results) :
             results[i].status # "fail" /\ results[i].head = LastAnchored
    BY <1>1, LastAnchoredIs
  <2> QED BY <1>1, <2>1, <2>2, ReportIs
<1> QED BY <1>1, Invariance, PTL

\* verifyAnchors: a receipt removed from an export shows, also when every receipt left passes.
THEOREM RemovalShows == Spec => []RemovedReceiptShows
<1>1. ASSUME IInv PROVE RemovedReceiptShows
  <2> SUFFICES ASSUME phase = "done", failures = {}, NEW k \in 1..Len(copy.events),
                      NEW r \in records, r.num = copy.events[k].num
               PROVE  \E i \in 1..Len(Listed) : Listed[i].sha = r.token /\ Listed[i].headHash = r.hash
    BY DEF RemovedReceiptShows
  <2>1. copy.events[k].id = r.num
    BY <1>1 DEF IInv, CopyInv
  <2>2. k \notin Unreceipted
    BY <1>1 DEF IInv, RunInv
  <2>3. PICK i \in 1..Len(Listed) : Listed[i].record = r.num
    BY <2>1, <2>2 DEF Unreceipted
  <2>4. Listed[i] \in Sound
    BY <1>1, SoundLists, ElementOfSeq DEF IInv
  <2>5. [num |-> r.num, hash |-> Listed[i].headHash, token |-> Listed[i].sha] \in records
    BY <2>3, <2>4 DEF Sound, Recorded
  <2>6. r = [num |-> r.num, hash |-> Listed[i].headHash, token |-> Listed[i].sha]
    BY <1>1, <2>5 DEF IInv, StoreInv
  <2> QED BY <2>6
<1> QED BY <1>1, Invariance, PTL
\* Receipts as the store made them: each names the last event its token commits to, and its record
\* comes later.
AsMade == {a \in Sound : Names(a) /\ a.record > a.headSeq /\ a.record <= Len(history) /\ a.token = a.sha}

\* What an unedited copy looks like: its events are numbered by their positions, and its receipts
\* are the store's.
LEMMA UneditedCopy ==
  ASSUME IInv, edits = 0, copy # NoCopy
  PROVE  /\ copy.seqOK /\ Len(copy.events) = Len(history) /\ Len(history) \in Nat
         /\ \A k \in 1..Len(history) :
              /\ copy.events[k].num = k /\ copy.events[k].id = k /\ copy.events[k].seq = k
              /\ Recomputed(k) = [l \in 1..k |-> l]
         /\ Listed \in Seq(AsMade)
         /\ \A i \in 1..Total : Names(Subject(i))
         /\ \A t \in 1..Len(tokens) :
              /\ Len(tokens[t].hash) \in 1..Len(history)
              /\ tokens[t].hash = [l \in 1..Len(tokens[t].hash) |-> l]
<1>1. /\ \A k \in 1..Len(history) : history[k] = k
      /\ \A i \in 1..Len(tokens) :
           /\ Len(tokens[i].hash) <= Len(history)
           /\ \A k \in 1..Len(tokens[i].hash) : tokens[i].hash[k] = k
      /\ \A i \in 1..Len(receipts) :
           Names(receipts[i]) /\ receipts[i].record \in (receipts[i].headSeq + 1)..Len(history)
      /\ copy = [events |-> [k \in 1..Len(history) |-> ExportedEvent(k)], anchors |-> receipts,
                 seqOK |-> TRUE]
      /\ \A i \in 1..Len(files) : files[i].usable => Names(files[i])
  BY DEF IInv, UneditedInv
<1>2. /\ Len(history) \in Nat /\ \A k \in 1..Len(history) : history[k] \in 1..written
      /\ \A t \in 1..Len(tokens) : tokens[t].hash \in Seq(Nat) /\ Len(tokens[t].hash) \in Nat
      /\ \A k \in 1..Len(receipts) : receipts[k] \in Receipt /\ receipts[k].headSeq \in Nat
  BY ElementTypes DEF IInv
<1>3. /\ copy.seqOK /\ copy.anchors = receipts
      /\ copy.events = [k \in 1..Len(history) |-> ExportedEvent(k)]
      /\ Len(copy.events) = Len(history)
  BY <1>1, <1>2
<1>4. ASSUME NEW k \in 1..Len(history)
      PROVE  /\ copy.events[k].num = k /\ copy.events[k].id = k /\ copy.events[k].seq = k
             /\ Recomputed(k) = [l \in 1..k |-> l]
  <2>1. copy.events[k] = ExportedEvent(k)
    BY <1>3
  <2>2. /\ copy.events[k].num = history[k] /\ copy.events[k].id = history[k]
        /\ copy.events[k].seq = k /\ copy.events[k].prevHash = SubSeq(history, 1, k - 1)
    BY <2>1 DEF ExportedEvent
  <2>3. Recomputed(k) = [l \in 1..k |-> l]
    <3>1. history \in Seq(Nat)
      <4>1. history \in Seq(1..written) /\ written \in Nat
        BY DEF IInv, TypeOK
      <4> QED BY <4>1, NumbersAreNat
    <3> DEFINE s == SubSeq(history, 1, k - 1)
    <3>2. s \in Seq(Nat) /\ Len(s) = k - 1 /\ \A l \in 1..(k - 1) : s[l] = l
      BY <1>1, <1>2, <3>1
    <3>3. Recomputed(k) = Append(s, k)
      BY <1>1, <2>2 DEF Recomputed
    <3> HIDE DEF s
    <3>4. s = [l \in 1..(k - 1) |-> l]
      BY <3>2
    <3>5. Append([l \in 1..(k - 1) |-> l], k) = [l \in 1..k |-> l]
      BY <1>2
    <3> QED BY <3>3, <3>4, <3>5
  <2> QED BY <1>1, <2>2, <2>3
<1>5. Listed \in Seq(AsMade)
  <2>1. \A i \in 1..Len(receipts) : receipts[i] \in AsMade
    <3> TAKE i \in 1..Len(receipts)
    <3>1. receipts[i] \in Sound /\ receipts[i].token = receipts[i].sha
      BY <1>2 DEF IInv, StoreInv, Sound
    <3>2. receipts[i].record \in Nat
      BY <1>2 DEF Receipt
    <3> QED BY <1>1, <1>2, <3>1, <3>2 DEF AsMade
  <2>2. receipts \in Seq(AsMade)
    <3>1. receipts \in Seq(Receipt)
      BY DEF IInv, TypeOK
    <3> QED BY <2>1, <3>1
  <2> QED BY <1>3, <2>2, OkAnchorsType DEF Listed
<1>6. \A i \in 1..Total : Names(Subject(i))
  <2> DEFINE N == {f \in File : f.usable => Names(f)}
             G == {f \in N : f.usable}
             n == Len(Usable(files))
             m == Len(Listed)
  <2>1. files \in Seq(File)
    BY DEF IInv, TypeOK
  <2>2. files \in Seq(N)
    <3>1. \A i \in 1..Len(files) : files[i] \in N
      BY <1>1, <2>1, ElementOfSeq
    <3> QED BY <2>1, <3>1
  <2>3. Usable(files) \in Seq(G)
    <3> HIDE DEF N
    <3> QED BY <2>2, UsableType
  <2>4. m \in Nat /\ n \in Nat /\ Total = m + n
    BY <1>5, <2>3 DEF Total
  <2> TAKE i \in 1..Total
  <2>5. CASE i <= m
    <3>1. i \in 1..m
      BY <2>4, <2>5
    <3>2. Listed[i] \in AsMade
      BY <1>5, <3>1, ElementOfSeq
    <3> QED BY <2>5, <3>2 DEF Subject, AsMade
  <2>6. CASE i > m
    <3>1. i - m \in 1..n /\ ~(i <= m)
      BY <2>4, <2>6
    <3>2. Usable(files)[i - m] \in G
      BY <2>3, <3>1, ElementOfSeq
    <3> QED BY <3>1, <3>2 DEF Subject
  <2> QED BY <2>4, <2>5, <2>6
<1>7. ASSUME NEW t \in 1..Len(tokens)
      PROVE  /\ Len(tokens[t].hash) \in 1..Len(history)
             /\ tokens[t].hash = [l \in 1..Len(tokens[t].hash) |-> l]
  <2> DEFINE h == tokens[t].hash
  <2>1. h \in Seq(Nat) /\ h # << >> /\ Len(h) <= Len(history) /\ \A k \in 1..Len(h) : h[k] = k
    BY <1>1, <1>2 DEF IInv, StoreInv
  <2> HIDE DEF h
  <2>2. Len(h) # 0
    BY <2>1, EmptySeq
  <2>3. Len(h) \in 1..Len(history)
    BY <1>2, <2>1, <2>2
  <2>4. h = [l \in 1..Len(h) |-> l]
    BY <2>1
  <2> QED BY <2>3, <2>4 DEF h
<1> QED BY <1>2, <1>3, <1>4, <1>5, <1>6, <1>7

\* On an unedited copy checkAnchor passes every receipt whose authority is trusted: it finds the
\* event the receipt names, and the record the receipt was stored with behind it.
LEMMA UneditedPasses ==
  ASSUME IInv, edits = 0, copy # NoCopy, bundle, roots # NoRoots, NEW i \in 1..Total,
         TokenOf(i).tsa \in roots
  PROVE  /\ SubjectVerdict(i).status = "pass"
         /\ SubjectVerdict(i).head = Len(TokenOf(i).hash)
<1>1. TypeOK /\ CopyInv
  BY DEF IInv
<1>2. PICK a, o : a = Subject(i) /\ o = (i > Len(Listed))
  OBVIOUS
<1>3. /\ Signs(a) /\ o \in BOOLEAN /\ SubjectVerdict(i) = CheckAnchor(a, o) /\ TokenOf(i) = tokens[a.sha]
      /\ Names(a)
  BY <1>1, <1>2, SubjectSound, UneditedCopy DEF SubjectVerdict, TokenOf
<1>4. /\ a.sha \in 1..Len(tokens) /\ a.headHash = tokens[a.sha].hash
      /\ a.signedAt = tokens[a.sha].at
  BY <1>3 DEF Signs
<1>5. PICK h : h = Len(tokens[a.sha].hash)
  OBVIOUS
<1>6. h \in 1..Len(copy.events) /\ a.headHash = [l \in 1..h |-> l] /\ a.headSeq = h /\ a.headEvent = h
  BY <1>3, <1>4, <1>5, UneditedCopy DEF Names
<1>7. EventAt(a) = h
  <2>1. copy.seqOK /\ copy.events[h].seq = h /\ Len(copy.events) = Len(history) /\ Len(history) \in Nat
    BY <1>6, UneditedCopy
  <2>2. EventAt(a) \in 0..Len(copy.events) /\ EventAt(a) >= h
    BY <1>1, <1>6, <2>1, EventAtRange
  <2>3. copy.events[EventAt(a)].seq = a.headSeq
    BY <1>1, <1>6, <2>1, <2>2, EventAtRange
  <2>4. EventAt(a) \in 1..Len(history)
    BY <1>6, <2>1, <2>2
  <2>5. copy.events[EventAt(a)].seq = EventAt(a)
    BY <2>4, UneditedCopy
  <2> QED BY <1>6, <2>3, <2>5
<1>8. Placed(a, h)
  <2>1. h \in 1..Len(history)
    BY <1>6, UneditedCopy
  <2> QED BY <1>6, <2>1, UneditedCopy DEF Placed
<1>9. ~o => a \in AsMade
  <2>1. Len(Listed) \in Nat /\ Total \in Nat
    BY <1>1, UneditedCopy, SoundLists DEF Total
  <2>2. CASE i > Len(Listed)
    <3>1. o = TRUE
      BY <1>2, <2>2
    <3> QED BY <3>1
  <2>3. CASE ~(i > Len(Listed))
    <3>1. i \in 1..Len(Listed) /\ i <= Len(Listed)
      BY <2>1, <2>3
    <3>2. a = Listed[i]
      BY <1>2, <3>1 DEF Subject
    <3> QED BY <3>1, <3>2, UneditedCopy, ElementOfSeq
  <2> QED BY <2>2, <2>3
<1>10. o \/ RecordMatches(a, h)
  <2> SUFFICES ASSUME ~o PROVE RecordMatches(a, h)
    OBVIOUS
  <2>1. a \in AsMade
    BY <1>9
  <2>2. a.record \in Nat /\ a.record > h /\ a.record <= Len(history) /\ Recorded(a) /\ Len(history) \in Nat
    BY <1>6, <2>1, UneditedCopy DEF AsMade, Sound, Receipt
  <2> DEFINE I == {k \in 1..Len(copy.events) : copy.events[k].id = a.record}
             j == SelectLastInSeq(copy.events, LAMBDA e : e.id = a.record)
  <2>3. j = IF I # {} THEN Max(I) ELSE 0
    BY DEF SelectLastInSeq
  <2>4. I = {a.record}
    <3>1. Len(copy.events) = Len(history) /\ \A k \in 1..Len(history) : copy.events[k].id = k
      BY UneditedCopy
    <3> QED BY <1>6, <2>2, <3>1
  <2>5. Max({a.record}) = a.record
    <3>1. {a.record} \in SUBSET (0..Len(history)) /\ {a.record} # {}
      BY <1>6, <2>2
    <3>2. Max({a.record}) \in {a.record}
      BY <2>2, <3>1, PositionsOf
    <3> QED BY <3>2
  <2>6. j = a.record
    BY <2>3, <2>4, <2>5
  <2>7. a.record \in 1..Len(history)
    BY <1>6, <2>2
  <2>8. copy.events[a.record].num = a.record
    BY <2>7, UneditedCopy
  <2>9. PICK n : n = j
    OBVIOUS
  <2>10. n > h /\ [num |-> copy.events[n].num, hash |-> a.headHash, token |-> a.sha] \in records
    BY <2>2, <2>6, <2>8, <2>9 DEF Recorded
  <2> HIDE DEF j
  <2> QED BY <2>9, <2>10 DEF RecordMatches, j
<1>11. a.token = a.sha /\ a.token # 0
  <2>1. a.token = a.sha
    <3>1. CASE ~o
      BY <1>9, <3>1 DEF AsMade
    <3>2. CASE o
      BY <1>1, <1>2, <3>2, SubjectSound DEF SoundFile
    <3> QED BY <1>3, <3>1, <3>2
  <2>2. a.sha \in 1..Len(tokens) /\ Len(tokens) \in Nat
    BY <1>1, <1>4, ElementTypes
  <2> QED BY <2>1, <2>2
<1>12. TokenVerifies(a)
  BY <1>3, <1>4, <1>11 DEF TokenVerifies
<1>13. CheckAnchor(a, o) = Verdict("pass", h, tokens[a.token].at, ValidToday(tokens[a.token]))
  BY <1>7, <1>8, <1>10, <1>11, <1>12 DEF CheckAnchor
<1> QED BY <1>3, <1>5, <1>13 DEF Verdict

\* The promise of assure reanchor: when one that is still valid signed the last event of an unchanged
\* copy after all the others, every receipt passes.
THEOREM ReanchoringCarries == Spec => []ReanchorCarriesAll
<1>1. ASSUME IInv PROVE ReanchorCarriesAll
  <2> SUFFICES ASSUME phase = "done", edits = 0, bundle, roots # NoRoots,
                      \A i \in 1..Len(results) : TokenOf(i).tsa \in roots,
                      NEW j \in 1..Len(results), now <= NotAfter[TokenOf(j).tsa],
                      TokenOf(j).hash = LastHash,
                      \A i \in 1..Len(results) : i # j => TokenOf(i).at < TokenOf(j).at,
                      NEW i \in 1..Len(results)
               PROVE  results[i].status = "pass"
    BY DEF ReanchorCarriesAll
  <2>1. copy # NoCopy
    BY <1>1 DEF IInv, CopyInv
  <2>2. Len(results) = Total /\ i \in 1..Total /\ j \in 1..Total
    BY <1>1, ReportIs
  <2>3. \A l \in 1..Total : /\ SubjectVerdict(l).status = "pass"
                            /\ SubjectVerdict(l).head = Len(TokenOf(l).hash)
                            /\ SubjectVerdict(l).signedAt = TokenOf(l).at
                            /\ TokenOf(l).at \in Nat
    BY <1>1, <2>1, <2>2, UneditedPasses, ReportIs DEF Token
  <2>4. Len(history) \in 1..Len(history) /\ Len(copy.events) = Len(history)
    <3>1. Len(copy.events) = Len(history) /\ Len(history) \in Nat /\ copy.events # << >>
      BY <1>1, <2>1, UneditedCopy DEF IInv, CopyInv
    <3>2. copy.events \in Seq(Event)
      BY <1>1 DEF IInv, TypeOK
    <3>3. Len(copy.events) # 0
      BY <3>1, <3>2, EmptySeq
    <3> QED BY <3>1, <3>3
  <2>5. Len(LastHash) = Len(history)
    <3>1. Recomputed(Len(history)) = [l \in 1..Len(history) |-> l]
      BY <1>1, <2>1, <2>4, UneditedCopy
    <3>2. Len(history) \in Nat
      BY <1>1, <2>1, UneditedCopy
    <3>3. PICK n \in Nat : n = Len(history)
      BY <3>2
    <3>4. LastHash = [l \in 1..n |-> l]
      BY <2>4, <3>1, <3>3 DEF LastHash
    <3> QED BY <3>3, <3>4
  <2>6. SubjectVerdict(i).head <= Len(history)
    <3>1. PICK t \in 1..Len(tokens) : TokenOf(i) = tokens[t]
      BY <1>1, <2>2, SubjectSound DEF IInv, TokenOf, Signs
    <3>2. Len(tokens[t].hash) \in 1..Len(history) /\ Len(history) \in Nat
      BY <1>1, <2>1, UneditedCopy
    <3>3. SubjectVerdict(i).head = Len(tokens[t].hash)
      BY <2>2, <2>3, <3>1
    <3> QED BY <3>2, <3>3
  <2>7. StandsAt(i, now, Total)
    <3>1. CASE i = j
      BY <3>1 DEF StandsAt, ValidAt
    <3>2. CASE i # j
      <4>1. SubjectVerdict(j).head = Len(history)
        BY <2>2, <2>3, <2>5
      <4>2. SubjectVerdict(j).signedAt > SubjectVerdict(i).signedAt
        BY <2>2, <2>3, <3>2
      <4>3. SubjectVerdict(j).head >= SubjectVerdict(i).head
        <5>1. SubjectVerdict(i).head \in Nat /\ Len(history) \in Nat
          BY <1>1, <2>1, <2>2, ReportIs, UneditedCopy, ResultIs
        <5> QED BY <2>6, <4>1, <5>1
      <4>4. SubjectVerdict(j).status = "pass" /\ ValidAt(j, now)
        BY <2>2, <2>3 DEF ValidAt
      <4> QED BY <2>2, <3>2, <4>2, <4>3, <4>4 DEF StandsAt
    <3> QED BY <3>1, <3>2
  <2> QED BY <1>1, <2>2, <2>3, <2>7, ReportIs
<1> QED BY <1>1, Invariance, PTL
=============================================================================
