----------------------------- MODULE Anchoring ------------------------------
(***************************************************************************)
(* Time-stamped heads of an evidence chain over the years: the store       *)
(* anchors its head with a time-stamp authority, a copy of the chain is    *)
(* exported, `assure reanchor` signs the copy's head again before the      *)
(* authority's certificates expire, and verifyAnchors (verify/anchors.go,  *)
(* verify/receipts.go) judges every receipt at the time it runs.           *)
(*                                                                         *)
(* An event is the number it was written under: an edited event is another *)
(* number.  By the ideal hash of ChainHashing, the hash of a head is the   *)
(* sequence of the numbers up to it.                                       *)
(***************************************************************************)
EXTENDS AnchorOrder, FiniteSets, TLC

CONSTANTS
  TSA,          \* time-stamp authorities
  NotAfter,     \* [TSA -> Nat]: the last moment an authority's chain is valid
  NoRoots,      \* no trusted roots were given and the system has none to read
  Settings,     \* verifications: [bundle: the copy is one, roots: the trusted ones or NoRoots, bounds]
  MaxTime, MaxEvents   \* bounds of the exploration; the others come with the setting

ASSUME AnchoringAssumption ==
  /\ MaxTime \in Nat /\ MaxEvents \in Nat
  /\ NotAfter \in [TSA -> Nat]
  /\ \A s \in Settings :
       /\ s.bundle \in BOOLEAN /\ (s.roots = NoRoots \/ s.roots \subseteq TSA)
       /\ s.bounds \in [tsa : SUBSET TSA, tokens : Nat, edits : Nat, files : Nat]

VARIABLES
  now,       \* the time, of every clock
  history,   \* the store's chain: the numbers of its events
  written,   \* how many events were ever written, here or into a copy
  records,   \* the chain_anchored events: [num, hash, token]
  pending,   \* tokens obtained whose record is not yet in the chain
  tokens,    \* every token: [hash, at, tsa]
  receipts,  \* the store's receipts
  bundle,    \* the copy carries the tokens (a reviewer bundle), not only their hashes
  roots,     \* o.roots
  bounds,    \* of this exploration: its authorities, tokens, edits and receipt files
  copy,      \* the export under verification: its events and its receipts
  edits,     \* how often something was changed since it was written
  files,     \* the receipt files beside the copy, in name order
  phase,     \* where verifyAnchors is
  todo,      \* the next receipt to check
  given, results, at,  \* the receipts checked, and the long-term rule over them
  failures,  \* failed checks that are not a receipt's: unusable files, records without a receipt
  tail,      \* the position of the last anchored event, 0 when there is none
  last       \* the verification before this one, of the same copy

world == <<now, history, written, records, pending, tokens, receipts, edits>>
input == <<bundle, roots, bounds, copy, files>>
run == <<phase, todo, given, results, at, failures, tail>>
vars == <<world, input, run, last>>

Rule == INSTANCE LongTermRule WITH Checked <- {}

NoRun == [at |-> 0, files |-> 0, status |-> << >>]
NoCopy == [events |-> << >>, anchors |-> << >>, seqOK |-> TRUE]

\* An event of a copy: what it says (num), the id and seq it carries, the prev_hash it stores.
ExportedEvent(k) ==
  [num |-> history[k], id |-> history[k], seq |-> k, prevHash |-> SubSeq(history, 1, k - 1)]

Recomputed(k) == Append(copy.events[k].prevHash, copy.events[k].num)

LastHash == Recomputed(Len(copy.events))

-----------------------------------------------------------------------------
(***************************************************************************)
(* The store, the authorities and `assure reanchor` (outside this          *)
(* repository): modelled from what their files say.                        *)
(***************************************************************************)

Init ==
  /\ now = 0 /\ history = << >> /\ written = 0 /\ records = {} /\ pending = {}
  /\ tokens = << >> /\ receipts = << >> /\ edits = 0
  /\ \E s \in Settings : bundle = s.bundle /\ roots = s.roots /\ bounds = s.bounds
  /\ copy = NoCopy /\ files = << >>
  /\ phase = "idle" /\ todo = 1 /\ given = << >> /\ results = << >> /\ at = 1
  /\ failures = {} /\ tail = 0
  /\ last = NoRun

\* The store goes on after the export, but nothing it does then reaches the copy: its steps are
\* explored up to the export.
StoreRuns == phase = "idle" /\ copy = NoCopy

Tick ==
  /\ phase = "idle" /\ now < MaxTime
  /\ now' = now + 1
  /\ UNCHANGED <<history, written, records, pending, tokens, receipts, edits, input, run, last>>

AppendEvent ==
  /\ StoreRuns /\ written < MaxEvents
  /\ written' = written + 1
  /\ history' = Append(history, written')
  /\ UNCHANGED <<now, records, pending, tokens, receipts, edits, input, run, last>>

\* The authority signs the head; events may be appended before the record of it is.
SignHead(tsa) ==
  /\ StoreRuns /\ history # << >>
  /\ Len(tokens) < bounds.tokens /\ now <= NotAfter[tsa]
  /\ tokens' = Append(tokens, [hash |-> history, at |-> now, tsa |-> tsa])
  /\ pending' = pending \cup {Len(tokens')}
  /\ UNCHANGED <<now, history, written, records, receipts, edits, input, run, last>>

\* The receipt and its chain_anchored record are stored together.
RecordAnchor(t) ==
  /\ StoreRuns /\ t \in pending /\ written < MaxEvents
  /\ written' = written + 1
  /\ history' = Append(history, written')
  /\ records' = records \cup {[num |-> written', hash |-> tokens[t].hash, token |-> t]}
  /\ receipts' = Append(receipts,
       [id |-> t, ok |-> TRUE, headSeq |-> Len(tokens[t].hash), headHash |-> tokens[t].hash,
        headEvent |-> tokens[t].hash[Len(tokens[t].hash)], record |-> written',
        sha |-> t, token |-> t, signedAt |-> tokens[t].at])
  /\ pending' = pending \ {t}
  /\ UNCHANGED <<now, tokens, edits, input, run, last>>

\* The chain is rewritten from a point on: a store restored from an older copy goes on.
Rewind(k) ==
  /\ StoreRuns /\ edits < bounds.edits /\ k \in 0..(Len(history) - 1)
  /\ history' = SubSeq(history, 1, k)
  /\ edits' = edits + 1
  /\ UNCHANGED <<now, written, records, pending, tokens, receipts, input, run, last>>

Export ==
  /\ StoreRuns /\ history # << >>
  /\ copy' = [events |-> [k \in 1..Len(history) |-> ExportedEvent(k)], anchors |-> receipts,
              seqOK |-> TRUE]
  /\ UNCHANGED <<world, bundle, roots, bounds, files, run, last>>

\* The copy changes between its export and a verification: an event is edited, the events after
\* one are cut off, the seqs are dropped, a receipt or its token file is lost.
EditedCopies ==
  {[copy EXCEPT !.events[k].num = written + 1] : k \in 1..Len(copy.events)}
  \cup {[copy EXCEPT !.events = SubSeq(@, 1, k)] : k \in 1..(Len(copy.events) - 1)}
  \cup {[copy EXCEPT !.seqOK = FALSE]}
  \cup {[copy EXCEPT !.anchors = SubSeq(@, 1, k - 1) \o SubSeq(@, k + 1, Len(@))]
          : k \in 1..Len(copy.anchors)}
  \cup {[copy EXCEPT !.anchors[k].token = 0] : k \in 1..Len(copy.anchors)}

EditCopy ==
  /\ phase = "idle" /\ copy # NoCopy /\ edits < bounds.edits
  /\ \E c \in EditedCopies : copy' = c
  /\ written' = written + 1
  /\ edits' = edits + 1
  /\ last' = NoRun
  /\ UNCHANGED <<now, history, records, pending, tokens, receipts, bundle, roots, bounds, files,
                 run>>

\* assure reanchor: an authority signs the copy's head; the receipt goes beside the copy.
Reanchor(tsa) ==
  /\ phase = "idle" /\ copy # NoCopy /\ Len(tokens) < bounds.tokens
  /\ now <= NotAfter[tsa] /\ Len(files) < bounds.files
  /\ tokens' = Append(tokens, [hash |-> LastHash, at |-> now, tsa |-> tsa])
  /\ files' = Append(files,
       [usable |-> TRUE, headSeq |-> copy.events[Len(copy.events)].seq, headHash |-> LastHash,
        headEvent |-> copy.events[Len(copy.events)].id, sha |-> Len(tokens'),
        token |-> Len(tokens'), signedAt |-> now])
  /\ UNCHANGED <<now, history, written, records, pending, receipts, edits, bundle, roots, bounds,
                 copy, run, last>>

\* A file of a receipt's name that does not read as one, or anchors another architecture.
StrayFile ==
  /\ phase = "idle" /\ copy # NoCopy /\ Len(files) < bounds.files
  /\ files' = Append(files,
       [usable |-> FALSE, headSeq |-> 0, headHash |-> << >>, headEvent |-> 0, sha |-> 0,
        token |-> 0, signedAt |-> 0])
  /\ UNCHANGED <<world, bundle, roots, bounds, copy, run, last>>

-----------------------------------------------------------------------------
(***************************************************************************)
(* verifyAnchors.                                                          *)
(***************************************************************************)

\* eventAt: the event a receipt names, by seq when every event carries one, else by id; the
\* last of several.  0: none.
EventAt(a) ==
  SelectLastInSeq(copy.events,
    LAMBDA e : IF copy.seqOK THEN e.seq = a.headSeq ELSE e.id = a.headEvent)

Verdict(status, head, signedAt, validNow) ==
  [status |-> status, head |-> head, signedAt |-> signedAt, validNow |-> validNow]

Fails == Verdict("fail", 0, 0, FALSE)

\* The receipt's chain_anchored record is in the copy, after the head, and says the same.
RecordMatches(a, i) ==
  LET j == SelectLastInSeq(copy.events, LAMBDA e : e.id = a.record) IN
  /\ j > i
  /\ [num |-> copy.events[j].num, hash |-> a.headHash, token |-> a.sha] \in records

\* The checks on the token: it is the one the chain records, signs the head, is signed by a
\* trusted authority, and carries the time the export states.
TokenVerifies(a) ==
  /\ a.token = a.sha
  /\ tokens[a.token].hash = a.headHash
  /\ roots = NoRoots \/ tokens[a.token].tsa \in roots
  /\ tokens[a.token].at = a.signedAt

\* Mistakes, as in LongTermRule: used by no specification.
Placed_ById(a, i) == i > 0 /\ copy.events[i].id = a.headEvent

\* The event is there, is the one the receipt names, and recomputes to the head it signs.
Placed(a, i) == i > 0 /\ copy.events[i].id = a.headEvent /\ Recomputed(i) = a.headHash

\* Mistake: the comparison the wrong way round.
ValidToday_Late(t) == now > NotAfter[t.tsa]

\* chainValidAt: the authority's chain is still valid at verification time.
ValidToday(t) == now <= NotAfter[t.tsa]

\* checkAnchor.  A file of assure reanchor has its token inline and no record in the chain.
CheckAnchor(a, offline) ==
  LET i == EventAt(a)
      carriesToken == offline \/ (bundle /\ a.token # 0)
  IN IF ~Placed(a, i) \/ ~(offline \/ RecordMatches(a, i)) THEN Fails
     ELSE IF ~carriesToken THEN Verdict("not_checked", i, 0, FALSE)
     ELSE IF ~TokenVerifies(a) THEN Fails
     ELSE IF roots = NoRoots THEN Verdict("not_checked", i, tokens[a.token].at, FALSE)
     ELSE Verdict("pass", i, tokens[a.token].at, ValidToday(tokens[a.token]))

Listed == OkAnchors(copy.anchors)

StartVerify ==
  /\ phase = "idle" /\ copy # NoCopy
  /\ phase' = "receipts" /\ todo' = 1 /\ given' = << >> /\ results' = << >> /\ at' = 1
  /\ failures' = {} /\ tail' = 0
  /\ UNCHANGED <<world, input, last>>

CheckReceipt ==
  /\ phase = "receipts" /\ todo <= Len(Listed)
  /\ results' = Append(results, CheckAnchor(Listed[todo], FALSE))
  /\ todo' = todo + 1
  /\ UNCHANGED <<world, input, phase, given, at, failures, tail, last>>

\* The files beside the copy come after its own receipts; an unusable one fails by itself.
CheckFile ==
  /\ phase = "receipts"
  /\ todo > Len(Listed) /\ todo <= Len(Listed) + Len(files)
  /\ LET f == files[todo - Len(Listed)] IN
     IF f.usable
     THEN results' = Append(results, CheckAnchor(f, TRUE)) /\ UNCHANGED failures
     ELSE failures' = failures \cup {<<"file", todo - Len(Listed)>>} /\ UNCHANGED results
  /\ todo' = todo + 1
  /\ UNCHANGED <<world, input, phase, given, at, tail, last>>

StartRule ==
  /\ phase = "receipts" /\ todo > Len(Listed) + Len(files)
  /\ given' = results
  /\ phase' = "rule"
  /\ UNCHANGED <<world, input, todo, results, at, failures, tail, last>>

ApplyLongTerm ==
  /\ phase = "rule"
  /\ Rule!Judge
  /\ UNCHANGED <<world, input, phase, todo, failures, tail, last>>

\* Mistake: an export without any receipt is not asked for one.
Unreceipted_WhenListed ==
  {k \in 1..Len(copy.events) :
     /\ Listed # << >>
     /\ \E r \in records : r.num = copy.events[k].num
     /\ \A i \in 1..Len(Listed) : Listed[i].record # copy.events[k].id}

\* Every chain_anchored event needs a listed receipt that names it.
Unreceipted ==
  {k \in 1..Len(copy.events) :
     /\ \E r \in records : r.num = copy.events[k].num
     /\ \A i \in 1..Len(Listed) : Listed[i].record # copy.events[k].id}

\* Mistakes: failed receipts count; the event after the anchored one.
LastAnchored_Failed == Max({0} \cup {results[i].head : i \in 1..Len(results)})

LastAnchored_Next ==
  Max({1} \cup {results[i].head + 1 : i \in {j \in 1..Len(results) : results[j].status # "fail"}})

\* tailLine: the furthest event a receipt that did not fail signs.
LastAnchored ==
  Max({0} \cup {results[i].head : i \in {j \in 1..Len(results) : results[j].status # "fail"}})

Conclude ==
  /\ phase = "rule" /\ Rule!Judged
  /\ failures' = failures \cup {<<"record", k>> : k \in Unreceipted}
  /\ tail' = LastAnchored
  /\ phase' = "done"
  /\ UNCHANGED <<world, input, todo, given, results, at, last>>

\* The report is read; the copy is kept, to be verified again one day.
Close ==
  /\ phase = "done"
  /\ last' = [at |-> now, files |-> Len(files), status |-> [i \in 1..Len(results) |-> results[i].status]]
  /\ phase' = "idle" /\ todo' = 1 /\ given' = << >> /\ results' = << >> /\ at' = 1
  /\ failures' = {} /\ tail' = 0
  /\ UNCHANGED <<world, input>>

Next ==
  \/ Tick \/ AppendEvent
  \/ \E tsa \in bounds.tsa : SignHead(tsa) \/ Reanchor(tsa)
  \/ \E t \in pending : RecordAnchor(t)
  \/ \E k \in 0..Len(history) : Rewind(k)
  \/ Export \/ EditCopy \/ StrayFile
  \/ StartVerify \/ CheckReceipt \/ CheckFile \/ StartRule \/ ApplyLongTerm \/ Conclude \/ Close

Spec == Init /\ [][Next]_vars

-----------------------------------------------------------------------------
\* The copy's links recompute from genesis up to position k (verifyChain's verdict).
LinksHold(k) ==
  \A j \in 1..k : copy.events[j].prevHash = [i \in 1..(j - 1) |-> copy.events[i].num]

\* The receipt files that read as one, in name order.
AddUsable(list, f) == IF f.usable THEN Append(list, f) ELSE list
Usable(list) == FoldLeft(AddUsable, << >>, list)

\* The receipt the i-th result is about, and its token, also when the copy lost it.
Subject(i) == IF i <= Len(Listed) THEN Listed[i] ELSE Usable(files)[i - Len(Listed)]
TokenOf(i) == tokens[Subject(i).sha]

Token == [hash : Seq(Nat), at : Nat, tsa : TSA]
Event == [num : Nat, id : Nat, seq : Nat, prevHash : Seq(Nat)]
Receipt == [id : Nat, ok : BOOLEAN, headSeq : Nat, headHash : Seq(Nat), headEvent : Nat,
            record : Nat, sha : Nat, token : Nat, signedAt : Nat]
File == [usable : BOOLEAN, headSeq : Nat, headHash : Seq(Nat), headEvent : Nat, sha : Nat,
         token : Nat, signedAt : Nat]

\* Every variable has its type.
TypeOK ==
  /\ now \in 0..MaxTime /\ written \in Nat /\ edits \in Nat
  /\ history \in Seq(1..written)
  /\ tokens \in Seq(Token) /\ pending \subseteq 1..Len(tokens)
  /\ records \subseteq [num : 1..written, hash : Seq(Nat), token : 1..Len(tokens)]
  /\ receipts \in Seq(Receipt)
  /\ bundle \in BOOLEAN /\ (roots = NoRoots \/ roots \subseteq TSA)
  /\ bounds \in [tsa : SUBSET TSA, tokens : Nat, edits : Nat, files : Nat]
  /\ copy \in [events : Seq(Event), anchors : Seq(Receipt), seqOK : BOOLEAN]
  /\ files \in Seq(File)
  /\ phase \in {"idle", "receipts", "rule", "done"}
  /\ todo \in Nat \ {0} /\ at \in Nat \ {0} /\ tail \in Nat
  /\ results \in Seq(Rule!Result) /\ given \in Seq(Rule!Result)
  /\ failures \subseteq {"file", "record"} \X Nat
  /\ last \in [at : Nat, files : Nat, status : Seq({"pass", "fail", "not_checked"})]

\* checkAnchor: behind intact links, a receipt that passes shows the events up to its head as
\* an authority saw them when it signed, and that authority is one the verifier trusts.
PassIsWhatWasSigned ==
  phase = "done" =>
    \A i \in 1..Len(results) :
      results[i].status = "pass" /\ LinksHold(results[i].head) =>
        /\ TokenOf(i).hash = [k \in 1..results[i].head |-> copy.events[k].num]
        /\ TokenOf(i).tsa \in roots
        /\ TokenOf(i).at <= now

\* applyLongTerm: no receipt passes on the word of expired certificates alone.
PassIsVouchedForToday ==
  phase = "done" =>
    \A i \in 1..Len(results) :
      results[i].status = "pass" =>
        \E j \in 1..Len(results) :
          /\ results[j].status = "pass"
          /\ now <= NotAfter[TokenOf(j).tsa]
          /\ results[j].head >= results[i].head
          /\ j = i \/ TokenOf(j).at >= TokenOf(i).at

\* Time alone heals nothing: a receipt that failed fails in every later verification of the
\* same copy with the same receipts beside it.
TimeHealsNothing ==
  phase = "done" /\ last # NoRun /\ last.files = Len(files) =>
    \A i \in 1..Len(last.status) : last.status[i] = "fail" => results[i].status = "fail"

\* assure reanchor never harms: at one time, adding receipts beside the copy fails no receipt
\* that passed without them.
ReceiptsOnlyHelp ==
  phase = "done" /\ last.at = now =>
    \A i \in 1..Len(last.status) : last.status[i] = "pass" => results[i].status = "pass"

\* The promise of assure reanchor: when trusted authorities signed an unchanged copy, and one that
\* is still valid signed its last event after all the others, every receipt passes.
ReanchorCarriesAll ==
  phase = "done" /\ edits = 0 /\ bundle /\ roots # NoRoots
    /\ (\A i \in 1..Len(results) : TokenOf(i).tsa \in roots)
    /\ (\E j \in 1..Len(results) :
          /\ now <= NotAfter[TokenOf(j).tsa]
          /\ TokenOf(j).hash = LastHash
          /\ \A i \in 1..Len(results) : i # j => TokenOf(i).at < TokenOf(j).at)
    => \A i \in 1..Len(results) : results[i].status = "pass"

\* verifyAnchors: a receipt removed from an export shows, also when every receipt left passes:
\* without a failure, each chain_anchored event has the receipt it was written for.
RemovedReceiptShows ==
  phase = "done" /\ failures = {} /\ (\A i \in 1..Len(results) : results[i].status # "fail") =>
    \A k \in 1..Len(copy.events) : \A r \in records :
      r.num = copy.events[k].num =>
        \E i \in 1..Len(Listed) : Listed[i].sha = r.token /\ Listed[i].headHash = r.hash

\* tailLine: the events it calls unanchored are the ones no receipt in good standing commits
\* to; an authority did sign what the copy says of the event before them.
TailIsUnanchored ==
  phase = "done" =>
    /\ \A i \in 1..Len(results) : results[i].status # "fail" => results[i].head <= tail
    /\ tail > 0 => \E i \in 1..Len(results) :
                     results[i].status # "fail" /\ TokenOf(i).hash = Recomputed(tail)

-----------------------------------------------------------------------------
(***************************************************************************)
(* The inductive invariant: what holds between the store, the tokens, the  *)
(* copy and the receipts at every moment, and how far a verification is.   *)
(***************************************************************************)

\* A receipt says what its token says; it may have lost the token itself.
Signs(a) ==
  /\ a.sha \in 1..Len(tokens) /\ a.token \in {0, a.sha}
  /\ a.headHash = tokens[a.sha].hash /\ a.signedAt = tokens[a.sha].at

\* The chain_anchored record a receipt was stored with.
Recorded(a) == [num |-> a.record, hash |-> a.headHash, token |-> a.sha] \in records

\* A number is written once: a record names one token, whatever is written later.
StoreInv ==
  /\ \A i \in 1..Len(tokens) : tokens[i].at <= now /\ tokens[i].hash # << >>
  /\ \A r \in records : r.hash = tokens[r.token].hash
  /\ \A r, s \in records : r.num = s.num => r = s
  /\ \A i \in 1..Len(receipts) :
       Signs(receipts[i]) /\ Recorded(receipts[i]) /\ receipts[i].token = receipts[i].sha

\* No edit of a copy makes a receipt or a record: an event that does not say what it was written
\* as is no record.
CopyInv ==
  /\ copy = NoCopy => phase = "idle" /\ files = << >> /\ last = NoRun
  /\ copy # NoCopy => copy.events # << >>
  /\ \A k \in 1..Len(copy.events) :
       /\ copy.events[k].seq = k
       /\ \A r \in records : r.num = copy.events[k].num => copy.events[k].id = r.num
  /\ \A i \in 1..Len(copy.anchors) : Signs(copy.anchors[i]) /\ Recorded(copy.anchors[i])
  /\ \A i \in 1..Len(files) :
       files[i].usable => Signs(files[i]) /\ files[i].token = files[i].sha

\* A receipt as it was made: it names the last event its token commits to.
Names(a) == a.headSeq = Len(a.headHash) /\ a.headEvent = Len(a.headHash)

\* While nothing was edited, events are numbered by their positions and each receipt's record
\* comes after its head.
UneditedInv ==
  edits = 0 =>
    /\ written = Len(history)
    /\ \A k \in 1..Len(history) : history[k] = k
    /\ \A i \in 1..Len(tokens) :
         /\ Len(tokens[i].hash) <= Len(history)
         /\ \A k \in 1..Len(tokens[i].hash) : tokens[i].hash[k] = k
    /\ \A i \in 1..Len(receipts) :
         Names(receipts[i]) /\ receipts[i].record \in (receipts[i].headSeq + 1)..Len(history)
    /\ copy # NoCopy =>
         copy = [events |-> [k \in 1..Len(history) |-> ExportedEvent(k)], anchors |-> receipts,
                 seqOK |-> TRUE]
    /\ \A i \in 1..Len(files) : files[i].usable => Names(files[i])

\* What checkAnchor says of the i-th receipt.
SubjectVerdict(i) == CheckAnchor(Subject(i), i > Len(Listed))

\* How many results there are when the receipts before todo were checked.
Done(k) == IF k <= Len(Listed) THEN k ELSE Len(Listed) + Len(Usable(SubSeq(files, 1, k - Len(Listed))))

Total == Len(Listed) + Len(Usable(files))

\* How far the verification is, and that nothing it reads changes meanwhile.
RunInv ==
  /\ phase = "receipts" =>
       /\ todo <= Len(Listed) + Len(files) + 1 /\ at = 1
       /\ Len(results) = Done(todo - 1)
       /\ \A i \in 1..Len(results) : results[i] = SubjectVerdict(i)
  /\ phase \in {"rule", "done"} =>
       /\ Len(given) = Total
       /\ \A i \in 1..Len(given) : given[i] = SubjectVerdict(i)
       /\ Rule!RuleInv
  /\ phase = "done" =>
       /\ Rule!Judged
       /\ \A k \in Unreceipted : <<"record", k>> \in failures
       /\ tail = LastAnchored

\* The long-term rule at a time t over the first m receipts.
ValidAt(i, t) == t <= NotAfter[TokenOf(i).tsa]

StandsAt(i, t, m) ==
  SubjectVerdict(i).status = "pass" =>
    \/ ValidAt(i, t)
    \/ \E j \in 1..m :
         /\ j # i /\ SubjectVerdict(j).status = "pass" /\ ValidAt(j, t)
         /\ SubjectVerdict(j).head >= SubjectVerdict(i).head
         /\ SubjectVerdict(j).signedAt > SubjectVerdict(i).signedAt

\* The verification before this one judged the same copy by the same receipts, as far as they
\* were there, at its own time.
LastInv ==
  last # NoRun =>
    /\ last.at <= now /\ last.files <= Len(files)
    /\ Len(last.status) <= Total /\ (last.files = Len(files) => Len(last.status) = Total)
    /\ \A i \in 1..Len(last.status) :
         last.status[i] = IF StandsAt(i, last.at, Len(last.status))
                          THEN SubjectVerdict(i).status ELSE "fail"

\* The conjunction that every step keeps.
IInv == TypeOK /\ StoreInv /\ CopyInv /\ UneditedInv /\ RunInv /\ LastInv
=============================================================================
