---------------------- MODULE MoQUpstreamHandoffArbiter ----------------------
(***************************************************************************)
(* MoQUpstreamHandoffArbiter (moxygen/proxy): decides, while an upstream   *)
(* replaces another, which of the two a group of the track comes from.     *)
(* The data of both arrive in any order; the caller drops what is refused. *)
(* An optional group is None when it is not set, below every group.        *)
(*                                                                         *)
(* onObject for old and onSubgroupEnded for the replacement change nothing *)
(* and are left out.                                                       *)
(***************************************************************************)
EXTENDS Integers

CONSTANTS
  Groups,      \* group ids
  SubgroupIDs  \* subgroup ids within a group

ASSUME ArbiterAssumption == Groups \subseteq Nat

None == -1
NoSplit == [replacementFirstGroup |-> None, oldLastGroup |-> None]
NoDatagramGroup == [group |-> None, open |-> FALSE]

VARIABLES
  highestOldGroup,             \* highestOldGroup_
  split,                       \* split_
  ownership,                   \* ownership_
  oldOpenSubgroups,            \* oldOpenSubgroups_
  oldDatagramGroup,            \* oldDatagramGroup_
  replacementIncompleteGroup,  \* replacementIncompleteGroup_
  oldReachedReplacement,       \* oldReachedReplacement_
  oldEnded,                    \* oldEnded_
  replacementDelivering,       \* replacementDelivering_
  fromOld,                     \* history: groups with data accepted from old
  fromReplacement,             \* history: those from the replacement
  turnedAway                   \* history: groups with replacement data refused
                               \* without RefuseWithGap

admission == <<highestOldGroup, split, ownership, replacementIncompleteGroup,
               oldReachedReplacement, fromOld, fromReplacement, turnedAway>>
progress == <<oldOpenSubgroups, oldDatagramGroup, replacementDelivering>>
vars == <<admission, progress, oldEnded>>

Optional == Groups \cup {None}

(* The state has its shape.                                                *)
TypeOK ==
  /\ highestOldGroup \in Optional
  /\ split \in [replacementFirstGroup : Optional, oldLastGroup : Optional]
  /\ ownership \in [replacementFirstGroup : Optional \cup {0}, oldLastGroup : Optional]
  /\ oldOpenSubgroups \subseteq Groups \X SubgroupIDs
  /\ oldDatagramGroup \in [group : Optional, open : BOOLEAN]
  /\ replacementIncompleteGroup \in Optional
  /\ oldReachedReplacement \in BOOLEAN
  /\ oldEnded \in BOOLEAN
  /\ replacementDelivering \in BOOLEAN
  /\ fromOld \subseteq Groups
  /\ fromReplacement \subseteq Groups
  /\ turnedAway \subseteq Groups

Higher(g, h) == IF g > h THEN g ELSE h

(* Any progress old can have made: the constructor takes the highest of    *)
(* the group it is given and the groups old has open.                      *)
Init ==
  \E opened \in SUBSET Groups :
    /\ highestOldGroup \in opened \cup {None}
    /\ \A g \in opened : g <= highestOldGroup
    /\ oldOpenSubgroups \in SUBSET (opened \X SubgroupIDs)
    /\ oldDatagramGroup \in {NoDatagramGroup} \cup [group : opened, open : {TRUE}]
    /\ split = NoSplit
    /\ ownership = NoSplit
    /\ replacementIncompleteGroup = None
    /\ oldReachedReplacement = FALSE
    /\ oldEnded = FALSE
    /\ replacementDelivering = FALSE
    /\ fromOld = opened
    /\ fromReplacement = {}
    /\ turnedAway = {}

-----------------------------------------------------------------------------
ownedByReplacement(s, g) ==
  s # NoSplit /\ g >= s.replacementFirstGroup /\ g > s.oldLastGroup

splitAfterOldEnded ==
  [replacementFirstGroup |-> 0,
   oldLastGroup |-> Higher(highestOldGroup, replacementIncompleteGroup)]

raiseHighestOldGroup(g) == highestOldGroup' = Higher(g, highestOldGroup)

(* admit for old.                                                          *)
OldMayHave(g) == ~oldEnded /\ ~ownedByReplacement(ownership, g)

admitOld(g) ==
  /\ \/ /\ OldMayHave(g)
        /\ raiseHighestOldGroup(g)
        /\ fromOld' = fromOld \cup {g}
        /\ UNCHANGED oldReachedReplacement
     \/ /\ ~OldMayHave(g)
        /\ oldReachedReplacement' = (oldReachedReplacement \/ ~oldEnded)
        /\ UNCHANGED <<highestOldGroup, fromOld>>
  /\ UNCHANGED <<split, ownership, replacementIncompleteGroup, fromReplacement, turnedAway>>

(* Refusing data of the replacement.                                       *)
raiseReplacementIncompleteGroup(g) ==
  /\ replacementIncompleteGroup' = Higher(g, replacementIncompleteGroup)
  /\ turnedAway' = turnedAway \cup {g}

(* Mutant: the split is the replacement's first group alone.               *)
FirstSplit_IgnoresOld(g) == [replacementFirstGroup |-> g, oldLastGroup |-> None]

FirstSplit(g) == [replacementFirstGroup |-> g, oldLastGroup |-> highestOldGroup]

(* Mutant: later data of the replacement moves the split.                  *)
OwnershipFor_Moves(g) == IF oldEnded THEN splitAfterOldEnded ELSE FirstSplit(g)

(* The ownership under which data of the replacement is judged.            *)
OwnershipFor(g) ==
  IF ownership # NoSplit THEN ownership
  ELSE IF oldEnded THEN splitAfterOldEnded
  ELSE FirstSplit(g)

cannotBeFirst(g) ==
  ownership = NoSplit /\ ~oldEnded /\ g <= replacementIncompleteGroup

(* admit for the replacement.                                              *)
ReplacementMayHave(g) == ~cannotBeFirst(g) /\ ownedByReplacement(OwnershipFor(g), g)

admitReplacement(g) ==
  /\ ownership' = IF cannotBeFirst(g) THEN ownership ELSE OwnershipFor(g)
  /\ split' = IF ownership = NoSplit /\ ~oldEnded THEN ownership' ELSE split
  /\ \/ /\ ReplacementMayHave(g)
        /\ fromReplacement' = fromReplacement \cup {g}
        /\ UNCHANGED <<replacementIncompleteGroup, turnedAway>>
     \/ /\ ~ReplacementMayHave(g)
        /\ raiseReplacementIncompleteGroup(g)
        /\ UNCHANGED fromReplacement
  /\ UNCHANGED <<highestOldGroup, oldReachedReplacement, fromOld>>

-----------------------------------------------------------------------------
onBeginSubgroupOld(g, i) ==
  /\ admitOld(g)
  /\ oldOpenSubgroups' = IF OldMayHave(g) THEN oldOpenSubgroups \cup {<<g, i>>}
                         ELSE oldOpenSubgroups
  /\ UNCHANGED <<oldDatagramGroup, replacementDelivering, oldEnded>>

onBeginSubgroupReplacement(g) ==
  /\ admitReplacement(g)
  /\ UNCHANGED <<progress, oldEnded>>

(* A stream of the replacement known to start in the middle of a subgroup: *)
(* a gap in a group that is its own (nothing changes), or the end of the   *)
(* hope that this group can be.                                            *)
onBeginSubgroupMid(g) ==
  /\ ~ownedByReplacement(ownership, g)
  /\ raiseReplacementIncompleteGroup(g)
  /\ UNCHANGED <<highestOldGroup, split, ownership, oldReachedReplacement, fromOld,
                 fromReplacement, progress, oldEnded>>

(* The group old is sending datagrams for, unless it has moved past g.     *)
noteOldDatagram(g, lastInGroup, accepted) ==
  oldDatagramGroup' =
    IF g < oldDatagramGroup.group THEN oldDatagramGroup
    ELSE IF g > oldDatagramGroup.group
    THEN [group |-> g, open |-> accepted /\ ~lastInGroup]
    ELSE [oldDatagramGroup EXCEPT !.open = @ /\ ~lastInGroup]

onDatagramOld(g, lastInGroup) ==
  /\ admitOld(g)
  /\ IF oldEnded THEN UNCHANGED oldDatagramGroup
     ELSE noteOldDatagram(g, lastInGroup, OldMayHave(g))
  /\ UNCHANGED <<oldOpenSubgroups, replacementDelivering, oldEnded>>

onDatagramReplacement(g) ==
  /\ admitReplacement(g)
  /\ replacementDelivering' = (replacementDelivering \/ ReplacementMayHave(g))
  /\ UNCHANGED <<oldOpenSubgroups, oldDatagramGroup, oldEnded>>

(* An object on an accepted stream of the replacement.                     *)
onObject(g) ==
  /\ g \in fromReplacement
  /\ replacementDelivering' = (replacementDelivering \/ ownedByReplacement(ownership, g))
  /\ UNCHANGED <<admission, oldOpenSubgroups, oldDatagramGroup, oldEnded>>

onSubgroupEnded(id) ==
  /\ oldOpenSubgroups' = oldOpenSubgroups \ {id}
  /\ UNCHANGED <<admission, oldDatagramGroup, replacementDelivering, oldEnded>>

onOldEnded ==
  /\ oldEnded' = TRUE
  /\ ownership' = IF ownership # NoSplit THEN splitAfterOldEnded ELSE ownership
  /\ UNCHANGED <<highestOldGroup, split, replacementIncompleteGroup, oldReachedReplacement,
                 fromOld, fromReplacement, turnedAway, progress>>

oldHasOpenGroups == oldOpenSubgroups # {} \/ oldDatagramGroup.open
oldCaughtUp == oldReachedReplacement /\ ~oldHasOpenGroups
oldBlocksReplacement == replacementDelivering /\ ~oldEnded /\ oldHasOpenGroups

GroupStep(g) ==
  \/ \E i \in SubgroupIDs : onBeginSubgroupOld(g, i)
  \/ onBeginSubgroupReplacement(g)
  \/ onBeginSubgroupMid(g)
  \/ \E lastInGroup \in BOOLEAN : onDatagramOld(g, lastInGroup)
  \/ onDatagramReplacement(g)
  \/ onObject(g)

Next ==
  \/ \E g \in Groups : GroupStep(g)
  \/ \E id \in oldOpenSubgroups : onSubgroupEnded(id)
  \/ onOldEnded

Spec == Init /\ [][Next]_vars

-----------------------------------------------------------------------------
(* No group reaches viewers from both upstreams, whatever order their data *)
(* comes in and whenever old ends, and what old was accepted for stays     *)
(* old's: "Old owns, and finishes, every group before that".               *)
OneSource ==
  /\ fromOld \cap fromReplacement = {}
  /\ \A g \in fromOld : ~ownedByReplacement(ownership, g)

(* A group that reaches viewers from the replacement lacks nothing of what *)
(* the replacement sent before or sends after, unless the caller was told  *)
(* of a gap: data of one and the same group is not accepted and refused.   *)
WholeGroups == fromReplacement \cap turnedAway = {}

(* What the replacement owns it keeps, in particular when old ends and the *)
(* bounds are computed afresh.                                             *)
OwnershipGrows ==
  [][\A g \in Groups :
       ownedByReplacement(ownership, g) => ownedByReplacement(ownership', g)]_vars

(* "Once old has ended, the replacement owns every group after both the    *)
(* highest group old opened and the highest group whose replacement data   *)
(* was refused", and no other.                                             *)
EndHandsOver ==
  oldEnded /\ ownership # NoSplit =>
    \A g \in Groups :
      ownedByReplacement(ownership, g) <=> \A h \in fromOld \cup turnedAway : g > h

OldOpenGroups ==
  {id[1] : id \in oldOpenSubgroups}
    \cup (IF oldDatagramGroup.open THEN {oldDatagramGroup.group} ELSE {})

(* The caller waits for old, or counts the time old holds the replacement  *)
(* up, only for groups viewers get from old and that come before all they  *)
(* got from the replacement; data refused from old never keeps it waiting. *)
WaitsForEarlierGroups ==
  /\ oldBlocksReplacement => fromReplacement # {}
  /\ oldBlocksReplacement \/ (oldReachedReplacement /\ ~oldCaughtUp) =>
       /\ OldOpenGroups \subseteq fromOld
       /\ \A g \in OldOpenGroups, h \in fromReplacement : g < h

(* The hand-off leaves every group with one source, whole, and hands over  *)
(* exactly what is left.                                                   *)
HandoffIsClean == OneSource /\ WholeGroups /\ EndHandsOver /\ WaitsForEarlierGroups
=============================================================================
