----------------------------- MODULE MCForwarder -----------------------------
(* Small instances of MoQForwarder.                                        *)
EXTENDS MoQForwarder, TLC

NextObjectFilter == [fieldCount |-> 2, start |-> 0, end |-> 0]
NextGroupFilter == [fieldCount |-> 1, start |-> 0, end |-> 0]
GroupZeroFilter == [fieldCount |-> 3, start |-> 0, end |-> 0]

GroupZeroFilters == {GroupZeroFilter}
StartFilters == {NextObjectFilter, NextGroupFilter}
SessionSymmetry == Permutations(Sessions)
NoCacheInterest == {FALSE}

(* With PUBLISH_DONE deferred to the last subgroup and a passive subscriber *)
(* beside the active one, the end still reaches everyone and the owner is   *)
(* still told about demand.                                                 *)
DeferredEndIsTold == EndIsReleased /\ OwnerIsInformed
=============================================================================
