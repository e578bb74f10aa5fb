--------------------------- MODULE MCEvidenceChain --------------------------
(* Exports of one chain of three events, for TLC: as the store writes it, cut by a
   limit, anchored or not, and with up to two edits. *)
EXTENDS EvidenceChain

CONSTANTS
  spaced, compact, other, noPayload,    \* payloads: two renderings of one document, another one, none
  doc, otherDoc,
  saved, savedNanos, moved,             \* fields: savedNanos differs from saved below a microsecond
  textSaved, textMoved,
  arch, arch2, early, late, failed      \* early, late, failed: receipts

MCCanonical ==
  [p \in {spaced, compact, other, noPayload} |->
     CASE p \in {spaced, compact} -> doc [] p = other -> otherDoc [] OTHER -> NotJSON]
MCText == [f \in {saved, savedNanos, moved} |-> IF f = moved THEN textMoved ELSE textSaved]

\* What the store wrote: three events, the last with another payload.
Written == << <<compact, saved>>, <<compact, moved>>, <<other, saved>> >>

StoredLink(k) == [doc |-> MCCanonical[Written[k][1]], text |-> MCText[Written[k][2]]]
StoredHash(k) == [j \in 1..k |-> StoredLink(j)]

Receipts == << [id |-> late, headSeq |-> 2, ok |-> TRUE],
               [id |-> failed, headSeq |-> 1, ok |-> FALSE],
               [id |-> early, headSeq |-> 1, ok |-> TRUE] >>

StoredMark(k, anchors) ==
  IF anchors = << >> \/ k > 2 THEN NoAnchor ELSE IF k = 1 THEN early ELSE late

StoredEvent(k, anchors) ==
  [id |-> k, arch |-> arch, payload |-> Written[k][1], fields |-> Written[k][2],
   payloadHash |-> MCCanonical[Written[k][1]], prevHash |-> StoredHash(k - 1),
   hash |-> StoredHash(k), seq |-> k, mark |-> StoredMark(k, anchors)]

\* The store's export of its first n events; with a limit the count still says 3.
Stored(n, count, anchors) ==
  [arch |-> arch, events |-> [k \in 1..n |-> StoredEvent(k, anchors)],
   headHash |-> StoredHash(n), count |-> count, anchors |-> anchors]

Sources ==
  {Stored(n, c, a) : n \in 0..3, c \in {NoCount, 3}, a \in {<< >>, Receipts}}

\* Hashes an edited event may store: those of the chain, and one that comes from elsewhere.
SomeHashes == {StoredHash(k) : k \in 0..3} \cup {<< [doc |-> otherDoc, text |-> textMoved] >>}

EditedEvent(e) ==
  {[e EXCEPT !.payload = p] : p \in {spaced, other, noPayload}}
  \cup {[e EXCEPT !.payload = other, !.payloadHash = otherDoc]}
  \cup {[e EXCEPT !.fields = f] : f \in {savedNanos, moved}}
  \cup {[e EXCEPT !.payloadHash = otherDoc], [e EXCEPT !.arch = arch2], [e EXCEPT !.arch = NoArch]}
  \cup {[e EXCEPT !.prevHash = h] : h \in SomeHashes}
  \cup {[e EXCEPT !.hash = h] : h \in SomeHashes}
  \cup {[e EXCEPT !.mark = m] : m \in {NoAnchor, MarkAbsent, MarkGarbled, late, failed}}
  \cup {[e EXCEPT !.seq = NoSeq]}

Without(x, k) == [x EXCEPT !.events = SubSeq(@, 1, k - 1) \o SubSeq(@, k + 1, Len(@))]

\* Every event after position k recomputed over what the export now holds: a store restored
\* from a copy and continued.
Continued(x, k) ==
  [x EXCEPT !.events =
     [j \in 1..Len(@) |->
        IF j < k THEN @[j]
        ELSE [@[j] EXCEPT !.payload = other, !.payloadHash = otherDoc,
                !.prevHash = [i \in 1..(j-1) |-> IF i < k THEN StoredLink(i)
                               ELSE [doc |-> otherDoc, text |-> MCText[x.events[i].fields]]],
                !.hash = [i \in 1..j |-> IF i < k THEN StoredLink(i)
                               ELSE [doc |-> otherDoc, text |-> MCText[x.events[i].fields]]]]]]

Edits(x) ==
  UNION {{[x EXCEPT !.events[k] = e] : e \in EditedEvent(x.events[k])} : k \in 1..Len(x.events)}
  \cup {Without(x, k) : k \in 1..Len(x.events)}
  \cup {[x EXCEPT !.headHash = h] : h \in SomeHashes \cup {NoHash}}
  \cup {[x EXCEPT !.arch = NoArch], [x EXCEPT !.count = 2]}
  \cup {[x EXCEPT !.events = [k \in 1..Len(@) |-> [@[k] EXCEPT !.mark = MarkAbsent]]]}

EditedOnce == UNION {Edits(x) : x \in Sources}

\* Two edits, so that one can hide behind the other (an event and its hash, a break and a
\* head that names another event).
EditedTwice ==
  UNION {Edits(x) : x \in Edits(Stored(2, NoCount, << >>))}
  \cup UNION {Edits(Continued(Stored(3, 3, << >>), k)) : k \in 1..3}

MCExports ==
  {x : x \in {NotAnExport} \cup Sources \cup EditedOnce \cup EditedTwice}

MCReportHeads == {StoredHash(k) : k \in {1, 3}} \cup {NoHash}
=============================================================================
