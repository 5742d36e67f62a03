------------------------ MODULE LocationIntervalSet -------------------------
(***************************************************************************)
(* util/LocationIntervalSet: the sorted map of disjoint inclusive          *)
(* intervals the cache keeps its known gaps and its cached content in.     *)
(*                                                                         *)
(* intervals is the std::map as a set of <<start, end>> pairs, last the    *)
(* lastModified_ iterator (the interval it points at, or NoRun for end()): *)
(* a shortcut that may only be used while it points at a live interval.    *)
(* content is what a plain set would hold after the same calls; the        *)
(* queries are compared with it at every location.                         *)
(***************************************************************************)
EXTENDS AbsoluteLocation, SequencesExt

VARIABLES intervals, last, content
vars == <<intervals, last, content>>

Sorted(I) == SetToSortSeq(I, LAMBDA a, b : Lt(a[1], b[1]))

-----------------------------------------------------------------------------
(* insert: extend the last modified interval when the new range starts     *)
(* right after it, else merge with every interval it overlaps or touches.  *)

Touches(end, iv) == Le(iv[1], end) \/ (next(end) # None /\ Le(iv[1], next(end)))

(* The following intervals are absorbed one by one until one does not touch *)
absorb(first, end, following) ==
    FoldLeft(LAMBDA acc, iv :
                 IF acc.open /\ Touches(acc.end, iv)
                 THEN [acc EXCEPT !.end = MaxLoc(iv[2], @), !.gone = @ \cup {iv}]
                 ELSE [acc EXCEPT !.open = FALSE],
             [end |-> end, gone |-> {}, open |-> TRUE], following)

insertFast(start, end) ==
    LET a == absorb(last[1], MaxLoc(end, last[2]),
                    Sorted({iv \in intervals : Lt(last[1], iv[1])}))
        new == <<last[1], a.end>>
    IN  /\ intervals' = (intervals \ ({last} \cup a.gone)) \cup {new}
        /\ last' = new

insertMerge_NoTouch(start, end) ==
    LET merged == {iv \in intervals : Le(iv[1], end) /\ Le(start, iv[2])}
        lo == CHOOSE l \in {start} \cup {iv[1] : iv \in merged} :
                  \A iv \in merged : Le(l, iv[1]) /\ Le(l, start)
        hi == CHOOSE l \in {end} \cup {iv[2] : iv \in merged} :
                  \A iv \in merged : Le(iv[2], l) /\ Le(end, l)
    IN  /\ intervals' = (intervals \ merged) \cup {<<lo, hi>>}
        /\ last' = <<lo, hi>>

(* The preceding interval counts when it ends at start.prev() or later     *)
insertMerge(start, end) ==
    LET before == {iv \in intervals : Lt(iv[1], start)}
        reach == OrElse(prev(start), start)
        joins == {iv \in before : (\A o \in before : Le(o[1], iv[1])) /\ Le(reach, iv[2])}
        limit == OrElse(next(end), end)
        after == {iv \in intervals : Le(start, iv[1]) /\ Le(iv[1], limit)}
        merged == joins \cup after
        lo == CHOOSE l \in {start} \cup {iv[1] : iv \in merged} :
                  \A iv \in merged : Le(l, iv[1]) /\ Le(l, start)
        hi == CHOOSE l \in {end} \cup {iv[2] : iv \in merged} :
                  \A iv \in merged : Le(iv[2], l) /\ Le(end, l)
    IN  /\ intervals' = (intervals \ merged) \cup {<<lo, hi>>}
        /\ last' = <<lo, hi>>

insert(start, end) ==
    /\ \/ Lt(end, start) /\ UNCHANGED <<intervals, last>>
       \/ /\ Le(start, end)
          /\ last # NoRun /\ next(last[2]) # None /\ start = next(last[2])
          /\ insertFast(start, end)
       \/ /\ Le(start, end)
          /\ last = NoRun \/ next(last[2]) # start
          /\ insertMerge(start, end)
    /\ content' = content \cup Between(start, end)

-----------------------------------------------------------------------------
(* remove trims or splits what it overlaps, and forgets lastModified_.     *)

Trim(iv, start, end) ==
    (IF Lt(iv[1], start) THEN {<<iv[1], prev(start)>>} ELSE {})
    \cup (IF Lt(end, iv[2]) THEN {<<next(end), iv[2]>>} ELSE {})

remove(start, end) ==
    /\ \/ (Lt(end, start) \/ intervals = {}) /\ UNCHANGED <<intervals, last>>
       \/ /\ Le(start, end) /\ intervals # {}
          /\ last' = NoRun
          /\ LET hit == {iv \in intervals : Le(iv[1], end) /\ Le(start, iv[2])}
             IN  intervals' = (intervals \ hit)
                                 \cup UNION {Trim(iv, start, end) : iv \in hit}
    /\ content' = content \ Between(start, end)

popFront ==
    /\ intervals # {}
    /\ last' = NoRun
    /\ LET front == Sorted(intervals)[1]
       IN  /\ intervals' = intervals \ {front}
           /\ content' = content \ Between(front[1], front[2])

clear == intervals' = {} /\ last' = NoRun /\ content' = {}

-----------------------------------------------------------------------------
(* The queries.                                                            *)

findContaining(l) ==
    LET below == {iv \in intervals : Le(iv[1], l)}
        it == CHOOSE iv \in below : \A o \in below : Le(o[1], iv[1])
    IN  IF below # {} /\ Le(l, it[2]) THEN it ELSE NoRun

contains(l) == findContaining(l) # NoRun
findInterval(l) == findContaining(l)
findIntervalEnd(l) == findContaining(l)[2]

lowerBound(l) ==
    LET from == {iv \in intervals : Le(l, iv[1])}
    IN  IF from = {} THEN NoRun ELSE CHOOSE iv \in from : \A o \in from : Le(iv[1], o[1])

findNextInterval(l) ==
    LET c == findContaining(l)
    IN  IF c = NoRun THEN lowerBound(l)
        ELSE IF next(c[2]) = None THEN NoRun ELSE lowerBound(next(c[2]))

findPrevInterval(l) ==
    LET c == findContaining(l)
        before == {iv \in intervals : IF c # NoRun THEN Lt(iv[1], c[1]) ELSE Le(iv[1], l)}
    IN  IF before = {} THEN NoRun
        ELSE CHOOSE iv \in before : \A o \in before : Le(o[1], iv[1])

-----------------------------------------------------------------------------
Init == intervals = {} /\ last = NoRun /\ content = {}

Next ==
    \/ \E a, b \in Loc : insert(a, b)
    \/ \E a, b \in Loc : remove(a, b)
    \/ popFront
    \/ clear

Spec == Init /\ [][Next]_vars

-----------------------------------------------------------------------------
(* Every interval is well formed, and lastModified_ is end() or points at  *)
(* an interval that is still in the map.                                   *)
TypeOK ==
    /\ content \subseteq Loc
    /\ intervals \subseteq {iv \in Loc \X Loc : Le(iv[1], iv[2])}
    /\ last = NoRun \/ last \in intervals

(* However the intervals were merged, trimmed and extended through the     *)
(* shortcut, they are exactly the maximal runs of what was inserted and    *)
(* not removed: nothing lost, nothing invented, no two of them adjacent.   *)
RunsOfContent == intervals = Runs(content)

(* Each query answers for every location what the plain set would: which   *)
(* run it lies in, the next run and the previous one.                      *)
QueriesAgree ==
    \A l \in Loc :
        /\ contains(l) <=> l \in content
        /\ findInterval(l) = RunOf(content, l)
        /\ findIntervalEnd(l) = RunOf(content, l)[2]
        /\ findNextInterval(l) = RunAfter(content, l)
        /\ findPrevInterval(l) = RunBefore(content, l)

(* The intervals are a plain set of locations, in canonical form.          *)
IntervalsExact == RunsOfContent /\ QueriesAgree
=============================================================================
