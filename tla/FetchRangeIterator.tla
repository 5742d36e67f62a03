------------------------- MODULE FetchRangeIterator -------------------------
(***************************************************************************)
(* MoQCache::FetchRangeIterator and the range arithmetic around it: a      *)
(* cursor over a FETCH range in group order ("desc": groups high to low,   *)
(* objects low to high inside a group) that steps over known gaps, and the *)
(* splitting of a run of misses into upstream ranges.                      *)
(*                                                                         *)
(* An iterator is a record; it reads the track it was made on, passed as   *)
(* t. endMemo is cachedEndGroupPtr_: whether the group the range ends in   *)
(* existed when it was first looked up (0 not looked up, 1 no, 2 yes).     *)
(***************************************************************************)
EXTENDS MoQCacheStore

Desc(it) == it.order = "desc"

(* On the wire an end object of 0 asks for all of the end group.           *)
toExclusiveEnd(e) == IF e[2] # 0 THEN e ELSE OrElse(nextGroup(e), kLocationMax)

computeDescendingAfterGap(current, gapStart, min) ==
    LET clamp(l) == IF l # None /\ l[1] = min[1] THEN <<l[1], min[2]>> ELSE l
    IN  IF gapStart[2] > 0 /\ gapStart[1] # current[1]
        THEN clamp(<<gapStart[1], 0>>)
        ELSE clamp(prevGroup(gapStart))

-----------------------------------------------------------------------------
RECURSIVE skipGaps(_, _)
skipGaps(t, it) ==
    IF ~it.valid \/ it.cur \notin t.gaps THEN it
    ELSE LET gap == RunOf(t.gaps, it.cur)
             after == IF Desc(it) THEN computeDescendingAfterGap(it.cur, gap[1], it.min)
                      ELSE next(gap[2])
             inRange == IF Desc(it) THEN Le(it.min, after) ELSE Lt(after, it.end)
         IN  IF after # None /\ inRange THEN skipGaps(t, [it EXCEPT !.cur = after])
             ELSE [it EXCEPT !.cur = it.end]

FetchRange(t, start, end, order) ==
    LET down == order = "desc" /\ start[1] # end[1]
        top == IF end[2] = 0 THEN end[1] - 1 ELSE end[1]
        cur == IF ~down THEN start
               ELSE IF end[2] = 0 /\ top = start[1] THEN start
               ELSE <<top, 0>>
        g == IF start[1] \in DOMAIN t.groups THEN t.groups[start[1]] ELSE NewGroup
        last == IF ~down THEN end
                ELSE IF g.eog /\ g.max < MaxObject THEN <<start[1], g.max + 1>>
                ELSE <<start[1], MaxObject>>
    IN  skipGaps(t, [min |-> start, max |-> end, order |-> order, cur |-> cur, end |-> last,
                     valid |-> TRUE, endMemo |-> 0])

invalidate(it) == [it EXCEPT !.cur = it.max, !.valid = FALSE]

(* How far the cursor goes in group g before it leaves it; -1: no group.   *)
findGroupEndMaybe(t, it, g, known) ==
    LET first == g = it.min[1]
        group == IF g \in DOMAIN t.groups THEN t.groups[g] ELSE NewGroup
        plus1 == Min({group.max + 1, MaxObject})
        plus2 == Min({plus1 + 1, MaxObject})
    IN  IF g = it.max[1] THEN (IF Desc(it) /\ ~first THEN it.max[2] - 1 ELSE it.max[2])
        ELSE IF ~known THEN -1
        ELSE IF first /\ Desc(it) THEN (IF group.eog THEN plus1 ELSE plus2)
        ELSE IF group.eog THEN group.max ELSE plus1

(* The current end, recomputed on each call as groups and the track end    *)
(* become known.                                                           *)
atEnd(t, it) ==
    LET known == IF it.endMemo = 0 THEN it.end[1] \in DOMAIN t.groups ELSE it.endMemo = 2
        o == findGroupEndMaybe(t, it, it.end[1], known)
    IN  IF (t.eot /\ Lt(t.largest, it.cur)) \/ ~it.valid THEN [it EXCEPT !.end = it.cur]
        ELSE IF ~Desc(it) THEN it
        ELSE [it EXCEPT !.end = IF o >= 0 THEN <<@[1], o>> ELSE @,
                        !.endMemo = IF it.end[1] = it.max[1] THEN @ ELSE IF known THEN 2 ELSE 1]

advanceOne(t, it) ==
    LET g == it.cur[1]
        e == findGroupEndMaybe(t, it, g, g \in DOMAIN t.groups)
    IN  IF ~it.valid \/ it.cur = it.end THEN it
        ELSE IF e >= 0 /\ it.cur[2] < e THEN [it EXCEPT !.cur = <<g, @[2] + 1>>]
        ELSE IF Desc(it)
        THEN IF g = 0 THEN [it EXCEPT !.valid = FALSE]
             ELSE [it EXCEPT !.cur = <<g - 1, IF g - 1 = it.min[1] THEN it.min[2] ELSE 0>>]
        ELSE IF g = it.max[1] THEN [it EXCEPT !.cur = it.end]
        ELSE [it EXCEPT !.cur = <<g + 1, 0>>]

nextPosition(t, it) == IF it.valid THEN skipGaps(t, advanceOne(t, it)) ELSE it

advanceTo(t, it, l) ==
    LET moved == [it EXCEPT !.cur = l]
    IN  IF (IF Desc(it) THEN Lt(l, it.min) ELSE Lt(it.max, l))
        THEN [moved EXCEPT !.valid = FALSE]
        ELSE skipGaps(t, moved)

(* Descending: the first cached position of the nearest lower group. The   *)
(* XCHECK on the interval found is the CHOOSE, which has no value if it    *)
(* fails.                                                                  *)
RunAtOrBefore(content, l) ==
    IF l \in content THEN RunOf(content, l) ELSE RunBefore(content, l)

firstCachedIn(content, g, from) ==
    IF from \in content THEN from
    ELSE CHOOSE l \in InGroup(g) : l = RunAfter(content, from)[1]

findPrevGroupCachedPosition(t, it) ==
    LET pge == prevGroupEnd(it.cur)
        found(run) == LET g == Min({run[2][1], pge[1]})
                      IN  IF run = NoRun \/ Lt(run[2], it.min) THEN None
                          ELSE firstCachedIn(t.content, g, MaxLoc(<<g, 0>>, it.min))
    IN  IF pge = None THEN None ELSE found(RunAtOrBefore(t.content, pge))

skipUncached(t, it) ==
    LET up(later) == IF later = None \/ Le(it.end, later) THEN it.end ELSE later
        down(lower) == IF lower = None THEN [it EXCEPT !.cur = <<0, 0>>, !.valid = FALSE]
                       ELSE [it EXCEPT !.cur = lower]
        later == RunAfter(t.content, it.cur)[1]
    IN  IF ~it.valid \/ it.cur = it.end \/ it.cur \in t.content THEN it
        ELSE IF ~Desc(it) THEN [it EXCEPT !.cur = up(later)]
        ELSE IF later # None /\ later[1] = it.cur[1] THEN [it EXCEPT !.cur = later]
        ELSE down(findPrevGroupCachedPosition(t, it))

-----------------------------------------------------------------------------
(* A run of misses from miss up to hit, as upstream ranges [first, end).   *)

getFetchIntervals(start, end, miss, hit, order, tail) ==
    LET mid == miss[1] - hit[1] - 1
        top == IF miss[1] = end[1] THEN end ELSE OrElse(nextGroup(miss), end)
        from == IF mid > 0 /\ miss[2] = 0 THEN MaxLoc(start, <<hit[1] + 1, 0>>) ELSE miss
        midFrom == <<hit[1] + 1, IF start[1] = hit[1] + 1 THEN start[2] ELSE 0>>
        lowFrom == IF start[1] = hit[1] THEN start ELSE <<hit[1], 0>>
    IN  IF order # "desc" THEN <<<<miss, IF tail THEN end ELSE hit>>>>
        ELSE IF miss[1] = hit[1]
        THEN <<<<miss, IF tail THEN OrElse(nextGroup(miss), end) ELSE hit>>>>
        ELSE <<<<from, top>>>>
             \o (IF mid > 0 /\ miss[2] # 0 THEN <<<<midFrom, <<miss[1], 0>>>>>> ELSE <<>>)
             \o (IF hit[2] # 0 /\ Lt(lowFrom, hit) THEN <<<<lowFrom, hit>>>> ELSE <<>>)

(* What a fetch that moved from start to end without an object proves      *)
(* missing, as inclusive ranges, inside [fetchStart, fetchEnd).            *)
getGapRanges(start, end, order, fetchStart, fetchEnd) ==
    LET empty == IF order # "desc" THEN Le(end, start)
                 ELSE start[1] < end[1] \/ (start[1] = end[1] /\ start[2] >= end[2])
        topEnd == IF start[1] = fetchEnd[1] THEN prevInGroup(fetchEnd)
                  ELSE <<start[1], MaxObject>>
        low == IF end[1] = fetchStart[1] THEN fetchStart ELSE <<end[1], 0>>
    IN  IF empty THEN {}
        ELSE IF start[1] = end[1]
        THEN (IF end[2] = 0 THEN {} ELSE {<<start, prevInGroup(end)>>})
        ELSE IF order # "desc" THEN {<<start, prev(end)>>}
        ELSE {<<start, topEnd>>}
             \cup (IF start[1] - 1 >= end[1] + 1
                   THEN {<<nextGroup(end), prevGroupEnd(start)>>} ELSE {})
             \cup (IF Lt(low, end) THEN {<<low, prevInGroup(end)>>} ELSE {})
=============================================================================
