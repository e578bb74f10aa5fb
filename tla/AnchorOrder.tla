---------------------------- MODULE AnchorOrder -----------------------------
(***************************************************************************)
(* The receipts of a chain export in head order (okAnchors and             *)
(* checkAnchoredBy of verify/chain.go).  A receipt is a record with at     *)
(* least the fields id, headSeq (the seq of the event it signs) and ok     *)
(* (its status is ok, or absent).                                          *)
(***************************************************************************)
EXTENDS Integers, Sequences, SequencesExt

\* One step of the insertion sort: a goes before the first receipt with a later head, so after
\* those with the same head.
InsertByHead(sorted, a) ==
  LET later == SelectInSeq(sorted, LAMBDA b : b.headSeq > a.headSeq)
  IN  IF later = 0 THEN Append(sorted, a) ELSE InsertAt(sorted, later, a)

\* A receipt that failed is left out.
AddOk(sorted, a) == IF a.ok THEN InsertByHead(sorted, a) ELSE sorted

\* A mistake the checks of the marks notice: the receipts in the order they are listed.
OkAnchors_AsListed(anchors) == SelectSeq(anchors, LAMBDA a : a.ok)

\* okAnchors: the receipts that did not fail, in head order.
OkAnchors(anchors) == FoldLeft(AddOk, << >>, anchors)

\* The mark an event with this seq must carry: the first receipt at or after it.
WantedMark(anchors, seq, noAnchor) ==
  LET i == SelectInSeq(OkAnchors(anchors), LAMBDA a : a.headSeq >= seq)
  IN  IF i = 0 THEN noAnchor ELSE OkAnchors(anchors)[i].id
=============================================================================
