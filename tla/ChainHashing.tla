---------------------------- MODULE ChainHashing ----------------------------
(***************************************************************************)
(* The hash of an evidence event and the export that carries events        *)
(* (verify/zz_chainhash.go, verify/chain.go).                              *)
(*                                                                         *)
(* SHA-256 is modelled as an ideal hash: the hash of an event IS the list  *)
(* of everything it covers, from genesis on.  ChainHash therefore appends  *)
(* one link to the previous hash, and two hashes are equal exactly when    *)
(* they cover the same contents in the same order.  The two conversions    *)
(* in front of the hash are not injective and are kept: Canonical maps     *)
(* every rendering of a payload to its canonical document (sorted keys, no *)
(* white space), and Text maps the fields type, actor, version and time to *)
(* the text that is hashed (times are cut to microseconds, so two times    *)
(* can have one text).                                                     *)
(***************************************************************************)
EXTENDS Integers, Sequences

CONSTANTS
  Payload,    \* payloads as an export renders them
  Doc,        \* canonical JSON documents
  NotJSON,    \* what Canonical gives for a payload that does not parse
  Canonical,  \* [Payload -> Doc \cup {NotJSON}]
  Fields,     \* (type, actor, version, time) of an event, as read
  TextSet,    \* the hashed texts of Fields
  Text,       \* [Fields -> TextSet]
  Arch, NoArch,         \* architecture ids, and the empty id
  EventId,
  AnchorId, NoAnchor,   \* receipt ids, and the null mark
  MarkAbsent,           \* an event without an anchored_by member
  MarkGarbled,          \* an anchored_by that is neither null nor an id
  NoHash,               \* an absent head hash
  NoSeq, NoCount        \* an absent seq, an absent count

ASSUME ConversionAssumption ==
  /\ Canonical \in [Payload -> Doc \cup {NotJSON}]
  /\ Text \in [Fields -> TextSet]
  /\ NotJSON \notin Doc

\* What one event adds to the hash: the hash of its payload and the text of its fields.
Link == [doc : Doc \cup {NotJSON}, text : TextSet]

Hash == Seq(Link)

ASSUME NoHashAssumption == NoHash \notin Hash

ASSUME AbsentAssumption == NoSeq \notin Int /\ NoCount \notin Int

GenesisHash == << >>

PayloadHash(p) == Canonical[p]

ChainHash(prevHash, payloadHash, fields) ==
  Append(prevHash, [doc |-> payloadHash, text |-> Text[fields]])

\* One event of a chain export.
Event ==
  [id : EventId, arch : Arch \cup {NoArch}, payload : Payload, fields : Fields,
   payloadHash : Doc \cup {NotJSON}, prevHash : Hash, hash : Hash,
   seq : Nat \cup {NoSeq},
   mark : AnchorId \cup {NoAnchor, MarkAbsent, MarkGarbled}]

\* A receipt, as far as the chain checks read it.
Anchor == [id : AnchorId, headSeq : Nat, ok : BOOLEAN]

ChainExport ==
  [arch : Arch \cup {NoArch}, events : Seq(Event),
   headHash : Hash \cup {NoHash}, count : Nat \cup {NoCount},
   anchors : Seq(Anchor)]

\* What event e adds to the hashes after it, recomputed from its own payload and fields.
LinkOf(e) == [doc |-> PayloadHash(e.payload), text |-> Text[e.fields]]

\* The contents of the first k events: by the ideal hash, the only hash that commits to them.
Contents(events, k) == [j \in 1..k |-> LinkOf(events[j])]
=============================================================================
