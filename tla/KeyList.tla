------------------------------- MODULE KeyList ------------------------------
(***************************************************************************)
(* The organisation's key list and the detached signatures checked against *)
(* it (verify/keys.go, verify/signatures.go).                              *)
(*                                                                         *)
(* Signatures are ideal: one verifies against a public key exactly when    *)
(* that key's holder sealed that message.  A public key stands for its own *)
(* key id, a file for its own sha256.                                      *)
(***************************************************************************)
EXTENDS Integers, Sequences

CONSTANTS
  Grace,    \* WindowGrace
  NoTime,   \* the zero time, a missing valid_to
  NoHash,   \* a hash a file does not state
  NoKeys,   \* no key list
  Damaged   \* bytes that are not what their name says

ASSUME GraceAssumption == Grace \in Nat

\* What a signed file may state of itself, and its signature repeats.
StatedField == {"snapshot", "packs", "corpus", "head", "key"}

\* Nothing stated.
Unstated == [f \in StatedField |-> NoHash]

\* CheckWindow: [valid_from - grace, valid_to); the zero valid_from bounds nothing.
InWindow(key, at) ==
  /\ at # NoTime
  /\ key.from = NoTime \/ at >= key.from - Grace
  /\ key.to = NoTime \/ at < key.to

Entries(list, id) == {i \in 1..Len(list) : list[i].id = id}

\* newKeyring: an id listed twice, or that is not its public key's, is unusable.
Usable(list, id) ==
  \E i \in Entries(list, id) : Entries(list, id) = {i} /\ list[i].pub = id

\* The entry of a usable id.
KeyOf(list, id) == list[CHOOSE i \in Entries(list, id) : TRUE]

\* envelopeMessage: everything an envelope says but its seal.
Message(e) ==
  [file |-> e.file, states |-> e.states, key |-> e.key, custody |-> e.custody, from |-> e.from,
   at |-> e.at]

\* keyring.verify.
Verifies(list, e) ==
  /\ Usable(list, e.key)
  /\ e.seal = [by |-> KeyOf(list, e.key).pub, over |-> Message(e)]
  /\ InWindow(KeyOf(list, e.key), e.at)

\* What the file states of itself is what its signature states, where it states it.
Agrees(own, e) == \A f \in StatedField : own[f] \in {NoHash, e.states[f]}

\* The signature's custody and valid_from are the listed key's, where the list gives them.
MatchesListed(key, e) ==
  /\ key.custody \in {"", e.custody}
  /\ key.from \in {NoTime, e.from}

\* checkEnvelope, in the order of its exits: an unknown format is not judged, a file that
\* changed fails even without keys.
EnvelopeStatus(list, file, e, own) ==
  IF e = Damaged THEN "fail"
  ELSE IF ~e.known THEN "not_checked"
  ELSE IF e.file # file \/ ~Agrees(own, e) \/ e.at = NoTime \/ e.seal = Damaged THEN "fail"
  ELSE IF list = NoKeys THEN "not_checked"
  ELSE IF Verifies(list, e) /\ MatchesListed(KeyOf(list, e.key), e) THEN "pass"
  ELSE "fail"

\* keyring.custody: the status of a listed key.
CustodyStatus(list, id) ==
  IF Usable(list, id) /\ KeyOf(list, id).custody \in {"", "vendor", "customer"}
  THEN "info" ELSE "fail"
=============================================================================
