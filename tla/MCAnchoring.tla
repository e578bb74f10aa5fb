---------------------------- MODULE MCAnchoring -----------------------------
(* Authorities for TLC: the certificates of old end first; stranger is in no set of roots. *)
EXTENDS Anchoring

CONSTANTS old, young, stranger

MCNotAfter == [t \in TSA |-> IF t = old THEN 1 ELSE 2]

\* One edit, restore or loss before the verifications: of a bundle whose authorities are all
\* trusted, some, or none, and of a bare chain export.
Edited == [tsa |-> {old, young}, tokens |-> 2, edits |-> 1, files |-> 1]

\* Nothing is edited, but the copy is anchored again over the years, by strangers too.
Reanchored == [tsa |-> {old, young, stranger}, tokens |-> 3, edits |-> 0, files |-> 2]

Setting(isBundle, trusted, limits) == [bundle |-> isBundle, roots |-> trusted, bounds |-> limits]

MCSettings ==
  {Setting(TRUE, trusted, Edited) : trusted \in {{old, young}, {young}}}
    \cup {Setting(TRUE, NoRoots, [Edited EXCEPT !.tokens = 1]), Setting(FALSE, {old, young}, Edited),
          Setting(TRUE, {old, young}, Reanchored)}
=============================================================================
