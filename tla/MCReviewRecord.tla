--------------------------- MODULE MCReviewRecord ---------------------------
(***************************************************************************)
(* Two keys, registered to a member or by name to the sponsor or someone   *)
(* else, for either purpose; one registration ends, one starts late.       *)
(***************************************************************************)
EXTENDS ReviewRecord

Sponsor == [external |-> TRUE, name |-> "sponsor"]
Stranger == [external |-> TRUE, name |-> "stranger"]
Auditor == [external |-> FALSE, name |-> "auditor"]

k1 == "k1"
k2 == "k2"

MCRegistrations ==
  [k \in {k1, k2} |->
     IF k = k1
     THEN {[holder |-> Sponsor, purpose |-> "management_assertion", from |-> 1, to |-> 4],
           [holder |-> Stranger, purpose |-> "management_assertion", from |-> 1, to |-> 0]}
     ELSE {[holder |-> Auditor, purpose |-> "review", from |-> 4, to |-> 0],
           [holder |-> Sponsor, purpose |-> "review", from |-> 1, to |-> 0]}]
=============================================================================
