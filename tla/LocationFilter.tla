--------------------------- MODULE LocationFilter ---------------------------
(***************************************************************************)
(* The Location Filter of a request (MoQTypes.h, class LocationFilter, and *)
(* its functions in MoQTypes.cpp) and its conversions: to and from the     *)
(* four optional integers of draft 22, to and from the Subscription Filter *)
(* of the earlier drafts, and to and from the range of a standalone FETCH. *)
(*                                                                         *)
(* MaxGroup and MaxObject are kEightByteLimit.  A filter keeps the number  *)
(* of fields it was given: that number says which fields they are.         *)
(***************************************************************************)
EXTENDS AbsoluteLocation, Sequences

ZeroLoc == <<0, 0>>
Filter(n, s, e) == [n |-> n, start |-> s, end |-> e]

none == Filter(0, ZeroLoc, ZeroLoc)
relativeStart(back) == Filter(1, <<back, 0>>, ZeroLoc)
nextObject == Filter(2, ZeroLoc, ZeroLoc)
absoluteStart(s) == IF s = kLocationMin THEN none ELSE Filter(2, s, ZeroLoc)
rangeToGroup(s, g) == Filter(3, s, <<g, 0>>)
rangeToObject(s, e) == Filter(4, s, e)

isOpenEnded(f) == f.n < 3
isNextObjectForm(f) == f.n = 2 /\ f.start = kLocationMin
needsLargest(f) == f.n = 1 \/ isNextObjectForm(f)
endBeforeStart(f) == f.n >= 3 /\ f.end[1] < f.start[1]

(* Nothing (None) for the forms that are relative to the largest object.   *)
absoluteStartLocation(f) ==
  IF f.n = 0 THEN kLocationMin ELSE IF needsLargest(f) THEN None ELSE f.start

NoGroup == -1
legacyEndGroup(f) == IF isOpenEnded(f) THEN NoGroup ELSE f.end[1]

saturatingAdd(a, b) == IF b > MaxGroup - a THEN MaxGroup ELSE a + b

-----------------------------------------------------------------------------
(* The wire form of draft 22.                                              *)

fieldCount(f) == IF endBeforeStart(f) THEN 4 ELSE f.n

fields(f) ==
  IF endBeforeStart(f) THEN <<f.start[1], f.start[2], 0, f.start[2]>>
  ELSE <<f.start[1], f.start[2], f.end[1] - f.start[1], f.end[2]>>

(* The fields a filter writes, and the filter of the fields that arrived.  *)
WireFields(f) == SubSeq(fields(f), 1, fieldCount(f))

fromFields(s) ==
  LET field(i) == IF i <= Len(s) THEN s[i] ELSE 0
      end == IF Len(s) < 3 THEN ZeroLoc
             ELSE <<saturatingAdd(field(1), field(3)), field(4)>>
  IN  Filter(Len(s), <<field(1), field(2)>>, end)

-----------------------------------------------------------------------------
(* The Subscription Filter of the drafts before 22.                        *)

Legacy(t, s, g) == [type |-> t, start |-> s, endGroup |-> g]
LegacyTypes == {"NextGroupStart", "LargestObject", "AbsoluteStart",
                "AbsoluteRange", "LargestGroup"}

toSubscriptionFilter(f) ==
  LET s == <<fields(f)[1], fields(f)[2]>> IN
  CASE ~isOpenEnded(f) -> Legacy("AbsoluteRange", s, legacyEndGroup(f))
    [] f.n = 0 -> Legacy("AbsoluteStart", kLocationMin, NoGroup)
    [] f.n = 1 /\ s[1] = 0 -> Legacy("NextGroupStart", None, NoGroup)
    [] f.n = 1 /\ s[1] > 0 -> Legacy("LargestGroup", None, NoGroup)
    [] isNextObjectForm(f) -> Legacy("LargestObject", None, NoGroup)
    [] OTHER -> Legacy("AbsoluteStart", s, NoGroup)

fromSubscriptionFilter(l) ==
  CASE l.type = "NextGroupStart" -> relativeStart(0)
    [] l.type = "LargestGroup" -> relativeStart(1)
    [] l.type = "LargestObject" -> nextObject
    [] l.type = "AbsoluteRange" -> rangeToGroup(l.start, l.endGroup)
    [] l.type = "AbsoluteStart" -> absoluteStart(l.start)

-----------------------------------------------------------------------------
(* What a filter selects, once the largest object (or None) is known.      *)

resolve(f, largest, isFetch) ==
  LET afterLargest ==
        IF largest = None THEN kLocationMin ELSE OrElse(next(largest), kLocationMax)
      nextGroupID == IF largest = None THEN 0 ELSE saturatingAdd(largest[1], 1)
      start ==
        CASE f.n = 1 ->
               <<IF f.start[1] > nextGroupID THEN 0 ELSE nextGroupID - f.start[1], 0>>
          [] isNextObjectForm(f) -> afterLargest
          [] OTHER -> IF ~isFetch /\ largest # None /\ Lt(f.start, largest)
                      THEN afterLargest ELSE f.start
      end ==
        CASE f.n = 3 -> <<f.end[1], MaxObject>>
          [] f.n = 4 -> f.end
          [] OTHER -> kLocationMax
  IN  [start |-> start,
       end |-> IF isFetch /\ largest # None THEN MinLoc(end, largest) ELSE end]

(* The half-open range of a FETCH; object 0 of its end means the whole     *)
(* group.                                                                  *)
fetchRange(f, largest) ==
  LET r == resolve(f, largest, TRUE)
  IN  IF r.end[2] = MaxObject THEN [start |-> r.start, end |-> <<r.end[1], 0>>]
      ELSE [start |-> r.start, end |-> OrElse(next(r.end), kLocationMax)]

toLocationFilter(range) ==
  CASE range.end = kLocationMax -> absoluteStart(range.start)
    [] range.end[2] = 0 -> rangeToGroup(range.start, range.end[1])
    [] OTHER -> rangeToObject(range.start, prev(range.end))
=============================================================================
