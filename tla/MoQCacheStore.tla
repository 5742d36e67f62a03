--------------------------- MODULE MoQCacheStore ----------------------------
(***************************************************************************)
(* relay/MoQCache, the store: tracks, groups and objects, their LRU lists  *)
(* and pins, the byte total and eviction. Module MoQCache adds the         *)
(* writebacks and the fetches that use it.                                 *)
(*                                                                         *)
(* Every C++ function is an operator from cache record to cache record.    *)
(* The two LocationIntervalSets of a track are plain sets of locations     *)
(* (module LocationIntervalSet shows that this is what they are). A        *)
(* payload is two bytes; an object arrives whole or one byte at a time.    *)
(*                                                                         *)
(* Track instances are numbered: cache_ maps a name to an instance, and an *)
(* instance that was evicted lives on while a fetch still holds it.        *)
(***************************************************************************)
EXTENDS AbsoluteLocation, Sequences, SequencesExt, FiniteSetsExt, TLC

CONSTANTS Names,      \* track names
          Subs,       \* upstream subscriptions
          Streams,    \* subgroup streams of the subscriptions
          Fetches,    \* downstream FETCHes
          MaxTracks,  \* track instances alive at a time
          ByteWord,   \* size_t wraps here
          Scenarios   \* set of [script, tracks, groups, bytes, low, ttl, subs, reqs, may]

Tids == 1..MaxTracks
SC(d) == d.sc
May(d, what) == what \in SC(d).may
ObjectAt(d, l) == CHOOSE ob \in Range(SC(d).script) : ob.loc = l
Published(d) == {SC(d).script[i].loc : i \in 1..d.len}
LargestPublished(d) == IF d.len = 0 THEN None ELSE SC(d).script[d.len].loc

NoGroups == [g \in {} |-> 0]
NewGroup ==
    [objects |-> [o \in {} |-> 0], max |-> 0, eog |-> FALSE, prior |-> -1, bytes |-> 0,
     pins |-> 0]
NewTrack ==
    [groups |-> NoGroups, gaps |-> {}, content |-> {}, live |-> 0, eot |-> FALSE,
     largest |-> None, prog |-> {}, glru |-> <<>>, dur |-> FALSE, evicted |-> FALSE]

Listed(d, n) == n \in Range(d.lru)
SetTrack(d, tid, t) == [d EXCEPT !.trk[tid] = t]
Wrap(i) == i % ByteWord
Without(s, x) == SelectSeq(s, LAMBDA y : y # x)
Restricted(f, S) == [x \in (DOMAIN f) \cap S |-> f[x]]
Drop(f, x) == [y \in (DOMAIN f) \ {x} |-> f[y]]

-----------------------------------------------------------------------------
(* Track and group LRU lists (front is the newest) and pins.               *)

canEvict(t) == t.live = 0 /\ t.prog = {}

addTrackToLRU(d, n) == IF Listed(d, n) THEN d ELSE [d EXCEPT !.lru = <<n>> \o @]
removeTrackFromLRU(d, tid) ==
    [d EXCEPT !.lru = SelectSeq(@, LAMBDA n : d.cache[n] # tid)]
onTrackBecameEvictable(d, n) ==
    IF d.cache[n] # 0 /\ canEvict(d.trk[d.cache[n]]) THEN addTrackToLRU(d, n) ELSE d

addGroupToLRU(t, g) ==
    IF g \in Range(t.glru) \/ t.evicted \/ g \notin DOMAIN t.groups THEN t
    ELSE [t EXCEPT !.glru = <<g>> \o @]

pinGroup(t, g) == [t EXCEPT !.groups[g].pins = @ + 1, !.glru = Without(@, g)]

unpinGroup_Twice(t, g) == addGroupToLRU([t EXCEPT !.groups[g].pins = @ - 2], g)
unpinGroup(t, g) ==
    LET t1 == [t EXCEPT !.groups[g].pins = @ - 1]
    IN  IF t1.groups[g].pins = 0 THEN addGroupToLRU(t1, g) ELSE t1

-----------------------------------------------------------------------------
(* Eviction. check records a failed XCHECK_GE on the byte total.           *)

evictGroup(d, tid, g) ==
    LET t == d.trk[tid]
    IN  [d EXCEPT !.check = @ /\ d.total >= t.groups[g].bytes,
                  !.total = Wrap(@ - t.groups[g].bytes),
                  !.trk[tid].groups = Drop(@, g),
                  !.trk[tid].content = @ \ InGroup(g),
                  !.trk[tid].glru = Without(@, g)]

TrackBytes(t) == MapThenSumSet(LAMBDA g : t.groups[g].bytes, DOMAIN t.groups)

evictTrack(d, n) ==
    LET b == TrackBytes(d.trk[d.cache[n]])
    IN  [d EXCEPT !.lru = Without(@, n), !.cache[n] = 0,
                  !.check = @ /\ d.total >= b, !.total = Wrap(@ - b)]

CacheSize(d) == Cardinality({n \in Names : d.cache[n] # 0})

evictOldestTrackIfNeeded(d) ==
    IF SC(d).tracks = 0 \/ CacheSize(d) < SC(d).tracks \/ d.lru = <<>> THEN d
    ELSE evictTrack(d, Last(d.lru))

RECURSIVE evictOldestGroupsIfNeeded(_, _)
evictOldestGroupsIfNeeded(d, tid) ==
    LET t == d.trk[tid]
    IN  IF SC(d).groups = 0 \/ Cardinality(DOMAIN t.groups) <= SC(d).groups \/ t.glru = <<>>
        THEN d
        ELSE evictOldestGroupsIfNeeded(evictGroup(d, tid, Last(t.glru)), tid)

(* Down to the low watermark: the oldest group of the oldest track, the    *)
(* track with its last group. Gives up at a track with no listed group.    *)
RECURSIVE evictDownTo(_, _)
evictDownTo(d, target) ==
    IF d.total <= target \/ d.lru = <<>> THEN d
    ELSE LET n == Last(d.lru)
             tid == d.cache[n]
             t == d.trk[tid]
         IN  IF t.glru # <<>>
             THEN LET e == evictGroup(d, tid, Last(t.glru))
                  IN  evictDownTo(IF DOMAIN e.trk[tid].groups = {} THEN evictTrack(e, n) ELSE e,
                                  target)
             ELSE IF DOMAIN t.groups = {} THEN evictDownTo(evictTrack(d, n), target)
             ELSE [d EXCEPT !.gaveUp = TRUE]

evictForByteLimitIfNeeded(d) ==
    IF SC(d).bytes = 0 \/ d.total <= SC(d).bytes THEN d
    ELSE evictDownTo(d, Max({SC(d).bytes - SC(d).low, 0}))

-----------------------------------------------------------------------------
(* One track's contents.                                                   *)

insertGap(t, a, b) ==
    [t EXCEPT !.gaps = @ \cup Between(a, b), !.content = @ \cup Between(a, b)]

updateLargest(t, l, eot) ==
    IF t.largest = None \/ Lt(t.largest, l)
    THEN IF t.eot THEN [t |-> t, ok |-> FALSE]
         ELSE [t |-> [t EXCEPT !.eot = eot, !.largest = l], ok |-> TRUE]
    ELSE IF ~eot THEN [t |-> t, ok |-> TRUE]
    ELSE IF l # t.largest THEN [t |-> t, ok |-> FALSE]
    ELSE [t |-> [t EXCEPT !.eot = TRUE], ok |-> TRUE]

fetchOkEnd(t, start, end) ==
    LET trackEnd == OrElse(next(t.largest), kLocationMax)
    IN  IF t.largest = None \/ Lt(end, trackEnd) THEN [end |-> end, eot |-> FALSE]
        ELSE IF Le(trackEnd, start) THEN [end |-> start, eot |-> FALSE]
        ELSE IF ~t.eot /\ t.live = 0 THEN [end |-> end, eot |-> FALSE]
        ELSE [end |-> trackEnd, eot |-> t.eot]

getOrCreateGroupWithEviction(d, tid, g) ==
    IF g \in DOMAIN d.trk[tid].groups THEN d
    ELSE LET e == evictOldestGroupsIfNeeded(d, tid)
             t == [e.trk[tid] EXCEPT !.groups = @ @@ (g :> NewGroup)]
         IN  SetTrack(e, tid, addGroupToLRU(t, g))

(* Prior Group and Prior Object ID Gap extensions (-1: not present).       *)
processGapExtensions(t, ob) ==
    LET g == ob.loc[1]
        o == ob.loc[2]
        seen == t.groups[g].prior
        groupBad ==
            /\ ob.pg >= 0
            /\ \/ ob.pg > g
               \/ seen >= 0 /\ seen # ob.pg
               \/ /\ seen < 0
                  /\ \E x \in (g - ob.pg)..(g - 1) :
                         x \in DOMAIN t.groups /\ DOMAIN t.groups[x].objects # {}
        t1 == IF ob.pg < 0 \/ seen >= 0 THEN t
              ELSE LET m == [t EXCEPT !.groups[g].prior = ob.pg]
                   IN  IF ob.pg = 0 THEN m
                       ELSE insertGap(m, <<g - ob.pg, 0>>, <<g - 1, MaxObject>>)
        objectBad ==
            /\ ob.po >= 0
            /\ \/ ob.po > o
               \/ \E x \in (o - ob.po)..(o - 1) : x \in DOMAIN t.groups[g].objects
    IN  IF groupBad THEN [t |-> t, ok |-> FALSE]
        ELSE IF objectBad THEN [t |-> t1, ok |-> FALSE]
        ELSE [t |-> IF ob.po <= 0 THEN t1
                    ELSE insertGap(t1, <<g, o - ob.po>>, <<g, o - 1>>),
              ok |-> TRUE]

SizeOf(ob, whole) == IF ob.status # "N" THEN 0 ELSE IF whole THEN 2 ELSE 1

(* The markers end the group, or the track, with a gap.                    *)
afterMarker(t, ob) ==
    LET g == ob.loc[1]
        rest == nextInGroup(ob.loc)
        t1 == IF rest = None THEN t ELSE insertGap(t, rest, <<g, MaxObject>>)
        t2 == IF ob.status = "T" /\ g < MaxGroup
              THEN insertGap(t1, <<g + 1, 0>>, kLocationMax) ELSE t1
    IN  IF ob.status = "N" THEN t ELSE [t2 EXCEPT !.groups[g].eog = TRUE]

(* The CacheEntry, new or over the one already there.                      *)
putEntry(t, ob, whole) ==
    LET g == ob.loc[1]
        o == ob.loc[2]
        objects == t.groups[g].objects
        have == o \in DOMAIN objects
        old == IF have THEN objects[o].size ELSE 0
        entry == [status |-> ob.status, whole |-> whole, size |-> SizeOf(ob, whole), old |-> FALSE]
    IN  IF have /\ (\/ objects[o].status # ob.status
                    \/ /\ ob.status = "N" /\ whole /\ objects[o].whole
                       /\ objects[o].size # entry.size)
        THEN [t |-> t, ok |-> FALSE]
        ELSE [t |-> [t EXCEPT
                        !.groups[g].objects = (o :> entry) @@ @,
                        !.groups[g].bytes = @ - old + entry.size,
                        !.groups[g].max = Max({@, o}),
                        !.content = IF whole THEN @ \cup {ob.loc} ELSE @ \ {ob.loc}],
              ok |-> TRUE]

putAfterGaps(ext, ob, whole) == IF ext.ok THEN putEntry(afterMarker(ext.t, ob), ob, whole) ELSE ext

cacheObject(t, ob, whole) ==
    IF ob.loc \in t.gaps THEN [t |-> t, ok |-> FALSE]
    ELSE putAfterGaps(processGapExtensions(t, ob), ob, whole)

(* r is what became of an object of group g.                               *)
updateBytes(d, tid, g, r) ==
    LET e == SetTrack(d, tid, r.t)
        grown == r.t.groups[g].bytes - d.trk[tid].groups[g].bytes
    IN  [d |-> IF r.ok THEN evictForByteLimitIfNeeded([e EXCEPT !.total = Wrap(@ + grown)]) ELSE e,
         ok |-> r.ok]

cacheObjectAndUpdateBytes(d, tid, ob, whole) ==
    updateBytes(d, tid, ob.loc[1], cacheObject(d.trk[tid], ob, whole))

(* The rest of a payload: the object is whole and may be served.           *)
appendPayload(d, tid, l) ==
    LET g == l[1]
        o == l[2]
        e == [d EXCEPT !.trk[tid].groups[g].objects[o] = [@ EXCEPT !.whole = TRUE, !.size = @ + 1],
                       !.trk[tid].groups[g].bytes = @ + 1,
                       !.trk[tid].content = @ \cup {l},
                       !.total = Wrap(@ + 1)]
    IN  evictForByteLimitIfNeeded(e)

(* A lookup drops an object past its lifetime.                             *)
Expired(d, tid, l) ==
    /\ SC(d).ttl \/ d.trk[tid].dur
    /\ d.trk[tid].groups[l[1]].objects[l[2]].old

HasObject(t, l) == l[1] \in DOMAIN t.groups /\ l[2] \in DOMAIN t.groups[l[1]].objects

getCachedObjectMaybe(d, tid, l) ==
    LET t == d.trk[tid]
        b == t.groups[l[1]].objects[l[2]].size
    IN  IF ~HasObject(t, l) THEN [d |-> d, hit |-> FALSE]
        ELSE IF Expired(d, tid, l)
        THEN [d |-> [d EXCEPT !.total = Wrap(@ - b),
                              !.trk[tid].groups[l[1]].bytes = @ - b,
                              !.trk[tid].groups[l[1]].objects = Drop(@, l[2]),
                              !.trk[tid].content = @ \ {l}],
              hit |-> FALSE]
        ELSE [d |-> d, hit |-> t.groups[l[1]].objects[l[2]].whole]
=============================================================================
