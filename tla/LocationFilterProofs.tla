------------------------ MODULE LocationFilterProofs ------------------------
(***************************************************************************)
(* What the conversions of a Location Filter keep.                         *)
(***************************************************************************)
EXTENDS LocationFilter, TLAPS

-----------------------------------------------------------------------------
(* What the two sides understand by a filter or a range.                   *)

Selected(f, largest, isFetch) ==
  LET r == resolve(f, largest, isFetch) IN Between(r.start, r.end)

(* The objects a standalone FETCH asks for.                                *)
Asked(range) ==
  IF range.end = kLocationMax THEN Between(range.start, kLocationMax)
  ELSE IF range.end[2] = 0 THEN Between(range.start, <<range.end[1], MaxObject>>)
  ELSE Between(range.start, range.end) \ {range.end}

Filters ==
  {none, nextObject}
    \cup {relativeStart(g) : g \in 0 .. MaxGroup}
    \cup {absoluteStart(s) : s \in Loc}
    \cup {rangeToGroup(s, g) : s \in Loc, g \in 0 .. MaxGroup}
    \cup {rangeToObject(s, e) : s \in Loc, e \in Loc}

Legacies ==
  {Legacy(t, None, NoGroup) :
     t \in {"NextGroupStart", "LargestGroup", "LargestObject"}}
    \cup {Legacy("AbsoluteStart", s, NoGroup) : s \in Loc}
    \cup {Legacy("AbsoluteRange", s, g) : s \in Loc, g \in 0 .. MaxGroup}

-----------------------------------------------------------------------------

(* A filter that travels as its fields (fields, fromFields) selects what   *)
(* it selected before, whatever the largest object is.                     *)
FilterKept ==
  \A f \in Filters, l \in Loc \cup {None}, isFetch \in BOOLEAN :
    ~endBeforeStart(f) =>
      Selected(fromFields(WireFields(f)), l, isFetch) = Selected(f, l, isFetch)

(* The range of a standalone FETCH, as a filter and back                   *)
(* (toLocationFilter, fetchRange), asks for the same objects.              *)
FetchRangeKept ==
  \A s, e \in Loc :
    LET r == [start |-> s, end |-> e]
    IN  Lt(s, e) \/ (e[2] = 0 /\ e[1] = s[1]) =>
          Asked(fetchRange(toLocationFilter(r), None)) = Asked(r)

(* A Subscription Filter of an earlier draft becomes a Location Filter and *)
(* comes back as it was (fromSubscriptionFilter, toSubscriptionFilter).    *)
LegacyFilterKept ==
  \A l \in Legacies : toSubscriptionFilter(fromSubscriptionFilter(l)) = l

(* No conversion changes what a request asks for.                          *)
FiltersKept == FilterKept /\ FetchRangeKept /\ LegacyFilterKept
=============================================================================
