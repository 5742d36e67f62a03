--------------------------- MODULE MoQGroupCache ----------------------------
(***************************************************************************)
(* proxy/MoQGroupCache and proxy/cache/*: the newest groups of one proxied *)
(* track, kept for joining FETCHes, within a byte budget that all tracks   *)
(* and all accepted replays share. Operators only; module MoQProxyTrack    *)
(* holds the state and calls them.                                         *)
(*                                                                         *)
(* A cache record c has                                                    *)
(*   groups    group id -> cached group      nonexist  proven absent groups *)
(*   retired   retiredThrough_ (-1: unset)   eot       endOfTrack_         *)
(*   down      shutdown_                     parked    waiters_            *)
(*   woken     waiters called since          used      the budget's used_  *)
(*   plans     replay plan of each FETCH being replayed                    *)
(* and a group [objects, gaps, end, subs, off] where end is -1 if unknown. *)
(* Interval sets are the sets they stand for. A payload length is 0..2.    *)
(***************************************************************************)
EXTENDS Integers, Sequences, FiniteSets, SequencesExt, FiniteSetsExt, TLC

CONSTANTS Joins,     \* joining FETCHes
          MaxGroup,  \* group ids are 0..MaxGroup
          MaxObject, \* object ids are 0..MaxObject
          Capacity,  \* MoQCacheBudget::capacity_
          MaxGroups  \* maxGroups_

None == <<-1, -1>>
Lt(a, b) == a[1] < b[1] \/ (a[1] = b[1] /\ a[2] < b[2])
Ids(f) == DOMAIN f
Empty == [x \in {} |-> 0]
NoPlan == [entries |-> <<>>, held |-> FALSE, charge |-> 0, end |-> None, eot |-> FALSE]
NewCache ==
    [groups |-> Empty, nonexist |-> {}, retired |-> -1, eot |-> None, down |-> FALSE,
     parked |-> {}, woken |-> {}, used |-> 0, plans |-> [j \in Joins |-> NoPlan]]
NewGroup == [objects |-> Empty, gaps |-> {}, end |-> -1, subs |-> Empty, off |-> FALSE]
NewSubgroup == [open |-> TRUE, last |-> FALSE, lastId |-> -1, partial |-> Empty]

-----------------------------------------------------------------------------
(* The budget. An object is charged once and released by its last holder:  *)
(* the cache or a plan that has not written it yet.                        *)

groupMetadataChargeBytes == 2
objectChargeBytes(length) == 1 + length
planChargeBytes(entryCount) == 1 + entryCount

tryReserve(c, bytes) == c.used + bytes <= Capacity

InPlans(c, except) ==
    UNION {Range(c.plans[j].entries) : j \in {k \in Joins \ {except} : c.plans[k].held}}
GroupObjects(g) == {g.objects[i] : i \in Ids(g.objects)}
InCache(c) == UNION {GroupObjects(c.groups[i]) : i \in Ids(c.groups)}
Charges(obs) == MapThenSumSet(LAMBDA ob : objectChargeBytes(ob.len), obs)
PartialCharges(g) ==
    MapThenSumSet(LAMBDA s : IF Ids(g.subs[s].partial) = {} THEN 0
                             ELSE objectChargeBytes(g.subs[s].partial.len), Ids(g.subs))

release(c, bytes) == [c EXCEPT !.used = @ - bytes]

(* The cache drops what group g records, partial objects included.         *)
dropContents(c, g) ==
    release(c, Charges(GroupObjects(g) \ InPlans(c, "")) + PartialCharges(g))
dropGroup(c, g) == release(dropContents(c, g), groupMetadataChargeBytes)

notifyWaiters(c) == [c EXCEPT !.parked = {}, !.woken = @ \cup c.parked]

-----------------------------------------------------------------------------
(* One cached group.                                                       *)

disableCaching(c, gid) ==
    IF gid \notin Ids(c.groups) THEN c
    ELSE [dropContents(c, c.groups[gid]) EXCEPT !.groups[gid] = [NewGroup EXCEPT !.off = TRUE]]

started(g) == Ids(g.objects) # {} \/ Ids(g.subs) # {} \/ g.gaps # {} \/ g.end # -1
IsOpen(g, s) == s \in Ids(g.subs) /\ g.subs[s].open
hasPartialObject(g, s) == IsOpen(g, s) /\ Ids(g.subs[s].partial) # {}
hasPartialObjectIn(g, range) ==
    \E s \in Ids(g.subs) : Ids(g.subs[s].partial) # {} /\ g.subs[s].partial.id \in range
LastObject(g) == IF Ids(g.objects) = {} THEN -1 ELSE Max(Ids(g.objects))
noteDelivered(g, s, id) == IF IsOpen(g, s) THEN [g EXCEPT !.subs[s].lastId = id] ELSE g

(* The answer to an object: new, a copy of one held, or a contradiction.   *)
validateObject(g, id, status, len) ==
    IF id \in Ids(g.objects)
    THEN IF g.objects[id].status = status /\ g.objects[id].len = len
         THEN "NotCached" ELSE "Malformed"
    ELSE IF \/ id \in g.gaps
            \/ g.end # -1 /\ id >= g.end
            \/ status # "NORMAL" /\ LastObject(g) > id
    THEN "Malformed" ELSE "Recorded"

addObjectGap(g, range) ==
    IF range \cap Ids(g.objects) # {} \/ hasPartialObjectIn(g, range)
    THEN [g |-> g, bad |-> TRUE]
    ELSE [g |-> [g EXCEPT !.gaps = @ \cup range], bad |-> FALSE]

setEnd(g, end) ==
    IF g.end # -1 THEN [g |-> g, bad |-> g.end # end]
    ELSE IF LastObject(g) >= end \/ hasPartialObjectIn(g, end..MaxObject)
    THEN [g |-> g, bad |-> TRUE]
    ELSE [g |-> [g EXCEPT !.end = end], bad |-> FALSE]

(* A clean FIN of the subgroup with the group's last object proves the end *)
(* of the group; a reset proves nothing.                                   *)
Ended(e) == [g |-> e.g, result |-> IF e.bad THEN "Malformed" ELSE "Recorded"]

endSubgroupOf(g, s, cleanFin) ==
    LET x == g.subs[s]
        shut == [g EXCEPT !.subs[s].open = FALSE, !.subs[s].partial = Empty]
    IN  IF cleanFin /\ Ids(x.partial) # {} THEN [g |-> g, result |-> "Malformed"]
        ELSE IF cleanFin /\ x.last /\ x.lastId # -1 THEN Ended(setEnd(shut, x.lastId + 1))
        ELSE [g |-> shut, result |-> "Recorded"]

insertObject(g, ob) ==
    LET g1 == [g EXCEPT !.objects = @ @@ (ob.id :> ob)]
    IN  IF ob.dg \/ ob.sg \notin Ids(g.subs) THEN g1
        ELSE [g1 EXCEPT !.subs[ob.sg].lastId = ob.id]

(* Ids only grow within a subgroup, so an open one may still deliver id if *)
(* it has not passed it.                                                   *)
nextPossible(x) == IF Ids(x.partial) # {} THEN x.partial.id ELSE x.lastId + 1
mayStillArrive(g, id) == \E s \in Ids(g.subs) : g.subs[s].open /\ nextPossible(g.subs[s]) <= id

(* A run of missing ids is judged by its first.                            *)
rangeCoverage(g, start, end) ==
    LET missing == {i \in start..(end - 1) : i \notin Ids(g.objects) /\ i \notin g.gaps}
        runs == {i \in missing : i = start \/ i - 1 \notin missing}
    IN  IF missing = {} THEN "Ready"
        ELSE IF \A i \in runs : mayStillArrive(g, i) THEN "AwaitIngress" ELSE "Miss"

(* end is -1 when the whole group is asked for.                            *)
coverage(g, start, end) ==
    LET known == Max({start, LastObject(g) + 1} \cup {i + 1 : i \in g.gaps})
    IN  IF g.off THEN "Miss"
        ELSE IF end # -1 THEN rangeCoverage(g, start, end)
        ELSE IF g.end # -1 THEN rangeCoverage(g, start, g.end)
        ELSE IF rangeCoverage(g, start, known) = "Miss" THEN "Miss"
        ELSE IF \E s \in Ids(g.subs) : g.subs[s].open THEN "AwaitIngress" ELSE "Miss"

-----------------------------------------------------------------------------
(* Admission and eviction. Under pressure a track gives up its own oldest  *)
(* groups; what is skipped is skipped for good.                            *)

retireGroup(c, gid) ==
    LET r == Max({c.retired, gid})
        d == dropGroup(c, c.groups[gid])
    IN  notifyWaiters([d EXCEPT !.groups = [i \in Ids(c.groups) \ {gid} |-> c.groups[i]],
                                !.retired = r,
                                !.nonexist = {i \in @ : \E k \in i..MaxGroup : k > r /\ i..k \subseteq @}])

RECURSIVE reserveForGroup(_, _, _)
reserveForGroup(c, gid, bytes) ==
    LET oldest == Min(Ids(c.groups))
    IN  IF tryReserve(c, bytes) THEN [c |-> [c EXCEPT !.used = @ + bytes], ok |-> TRUE]
        ELSE IF Ids(c.groups) = {} \/ oldest > gid
        THEN [c |-> [c EXCEPT !.retired = Max({@, gid})], ok |-> FALSE]
        ELSE IF oldest = gid THEN [c |-> retireGroup(c, gid), ok |-> FALSE]
        ELSE reserveForGroup(retireGroup(c, oldest), gid, bytes)

addGroup(r, gid) == IF r.ok THEN [r EXCEPT !.c.groups = @ @@ (gid :> NewGroup)] ELSE r

admitGroup(c, gid) ==
    LET full == Cardinality(Ids(c.groups)) >= MaxGroups
        smallest == Min(Ids(c.groups))
    IN  IF c.down \/ MaxGroups = 0 \/ gid <= c.retired \/ gid \in c.nonexist
        THEN [c |-> c, ok |-> FALSE]
        ELSE IF gid \in Ids(c.groups) THEN [c |-> c, ok |-> ~c.groups[gid].off]
        ELSE IF full /\ gid < smallest THEN [c |-> c, ok |-> FALSE]
        ELSE addGroup(reserveForGroup(IF full THEN retireGroup(c, smallest) ELSE c, gid,
                                      groupMetadataChargeBytes), gid)

isCaching(c, gid) == gid \in Ids(c.groups) /\ ~c.groups[gid].off

failMalformed(c, gid) == notifyWaiters(disableCaching(c, gid))

clear(c) ==
    LET d == FoldSet(LAMBDA gid, x : dropGroup(x, c.groups[gid]), c, Ids(c.groups))
    IN  notifyWaiters([d EXCEPT !.groups = Empty, !.nonexist = {}, !.retired = -1, !.eot = None])

shutdown(c) == [clear(c) EXCEPT !.down = TRUE]

-----------------------------------------------------------------------------
(* Ingress. Every operator returns the cache and MoQCacheResult. ob has    *)
(* [g, sg, id, status, len, po, pg, dg, src]; po and pg are the prior gap  *)
(* extensions (0: none).                                                   *)

Answer(c, result) == [c |-> c, result |-> result]

PartialCharge(x) == IF Ids(x.partial) = {} THEN 0 ELSE objectChargeBytes(x.partial.len)

beginSubgroupOf(c, gid, s, last) ==
    LET g == c.groups[gid]
        x == IF s \in Ids(g.subs) THEN g.subs[s] ELSE NewSubgroup
    IN  [release(c, PartialCharge(x)) EXCEPT
            !.groups[gid].subs = (s :> [x EXCEPT !.open = TRUE, !.last = last, !.partial = Empty]) @@ @]

opened(a, gid, s, last) == IF a.ok THEN [a EXCEPT !.c = beginSubgroupOf(@, gid, s, last)] ELSE a

openSubgroup(c, gid, s, last) == opened(admitGroup(c, gid), gid, s, last)

markGroupsNonexistent(c, range) ==
    LET known == range \cap Ids(c.groups)
    IN  IF \E i \in known : started(c.groups[i]) THEN Answer(c, "Malformed")
        ELSE Answer([FoldSet(LAMBDA i, x : disableCaching(x, i), c, known)
                       EXCEPT !.nonexist = @ \cup range], "Recorded")

afterGap(c, ob, gap) ==
    LET d == [c EXCEPT !.groups[ob.g] = gap.g]
    IN  IF gap.bad THEN Answer(c, "Malformed")
        ELSE IF ob.pg > 0 THEN markGroupsNonexistent(d, (ob.g - ob.pg)..(ob.g - 1))
        ELSE Answer(d, "Recorded")

applyPriorGapRanges(c, ob) ==
    IF ob.po > ob.id \/ ob.pg > ob.g THEN Answer(c, "Malformed")
    ELSE afterGap(c, ob, addObjectGap(c.groups[ob.g], (ob.id - ob.po)..(ob.id - 1)))

giveBack(c, ob) == release(c, objectChargeBytes(ob.len))

(* e is the group with the end a marker gives it.                          *)
insertAt(c, ob, e) ==
    IF e.bad THEN Answer(failMalformed(giveBack(c, ob), ob.g), "Malformed")
    ELSE Answer(notifyWaiters([c EXCEPT
                    !.groups[ob.g] = insertObject(e.g, ob),
                    !.eot = IF ob.status = "END_OF_TRACK" THEN <<ob.g, ob.id>> ELSE @]),
                "Recorded")

insertAfterGaps(a, ob) ==
    LET g == a.c.groups[ob.g]
    IN  IF a.result = "Malformed" THEN Answer(failMalformed(giveBack(a.c, ob), ob.g), "Malformed")
        ELSE insertAt(a.c, ob, IF ob.status = "NORMAL" THEN [g |-> g, bad |-> FALSE]
                               ELSE setEnd(g, ob.id + 1))

(* store() once its charge is taken. A refused object gives it back.       *)
store(c, ob) ==
    LET v == validateObject(c.groups[ob.g], ob.id, ob.status, ob.len)
    IN  IF ~isCaching(c, ob.g) THEN Answer(giveBack(c, ob), "NotCached")
        ELSE IF v = "Malformed" THEN Answer(failMalformed(giveBack(c, ob), ob.g), "Malformed")
        ELSE IF v = "NotCached" THEN Answer(giveBack(c, ob), "Recorded")
        ELSE insertAfterGaps(applyPriorGapRanges(c, ob), ob)

storeReserved(r, ob) == IF r.ok THEN store(r.c, ob) ELSE Answer(r.c, "NotCached")
reserveFor(c, ob) == reserveForGroup(c, ob.g, objectChargeBytes(ob.len))

subgroupObject(c, ob) ==
    LET g == c.groups[ob.g]
        v == validateObject(g, ob.id, ob.status, ob.len)
    IN  IF ~isCaching(c, ob.g) THEN Answer(c, "NotCached")
        ELSE IF ~IsOpen(g, ob.sg) THEN Answer(c, "NotCached")
        ELSE IF hasPartialObject(g, ob.sg) \/ v = "Malformed"
        THEN Answer(failMalformed(c, ob.g), "Malformed")
        ELSE IF v = "NotCached"
        THEN Answer([c EXCEPT !.groups[ob.g] = noteDelivered(g, ob.sg, ob.id)], "Recorded")
        ELSE storeReserved(reserveFor(c, ob), ob)

(* The first byte of an object whose payload arrives in pieces; the charge *)
(* for all of it is taken at once.                                         *)
begunReserved(r, ob) ==
    IF ~r.ok THEN Answer(r.c, "NotCached")
    ELSE IF ob.len = 1 THEN store(r.c, ob)
    ELSE Answer([r.c EXCEPT !.groups[ob.g].subs[ob.sg].partial = ob @@ [received |-> 1]], "Recorded")

beginObject(c, ob) ==
    LET g == c.groups[ob.g]
        v == validateObject(g, ob.id, "NORMAL", ob.len)
    IN  IF ~isCaching(c, ob.g) THEN Answer(c, "NotCached")
        ELSE IF ~IsOpen(g, ob.sg) THEN Answer(c, "NotCached")
        ELSE IF hasPartialObject(g, ob.sg) \/ ob.len < 1 \/ v = "Malformed"
        THEN Answer(failMalformed(c, ob.g), "Malformed")
        ELSE IF v = "NotCached"
        THEN Answer([c EXCEPT !.groups[ob.g] = noteDelivered(g, ob.sg, ob.id)], "Recorded")
        ELSE begunReserved(reserveFor(c, ob), ob)

(* One more byte.                                                          *)
objectPayload(c, gid, s) ==
    LET x == c.groups[gid].subs[s].partial
        ob == [f \in DOMAIN x \ {"received"} |-> x[f]]
    IN  IF ~isCaching(c, gid) THEN Answer(c, "NotCached")
        ELSE IF ~hasPartialObject(c.groups[gid], s) THEN Answer(c, "NotCached")
        ELSE IF x.received + 1 = x.len
        THEN store([c EXCEPT !.groups[gid].subs[s].partial = Empty], ob)
        ELSE Answer([c EXCEPT !.groups[gid].subs[s].partial.received = @ + 1], "Recorded")

(* e is the group after the end of its subgroup s.                         *)
subgroupEnded(c, gid, s, e) ==
    LET freed == PartialCharge(c.groups[gid].subs[s]) - PartialCharge(e.g.subs[s])
        d == [release(c, freed) EXCEPT !.groups[gid] = e.g]
    IN  IF e.result = "Malformed" THEN Answer(failMalformed(d, gid), "Malformed")
        ELSE Answer(notifyWaiters(d), "Recorded")

endSubgroup(c, gid, s, cleanFin) ==
    IF ~isCaching(c, gid) THEN Answer(c, "NotCached")
    ELSE IF ~IsOpen(c.groups[gid], s) THEN Answer(c, "NotCached")
    ELSE subgroupEnded(c, gid, s, endSubgroupOf(c.groups[gid], s, cleanFin))

(* A datagram or single-object stream; admits its group itself.            *)
storeAdmitted(a, ob) ==
    LET v == validateObject(a.c.groups[ob.g], ob.id, ob.status, ob.len)
    IN  IF ~a.ok THEN Answer(a.c, "NotCached")
        ELSE IF v = "Malformed" THEN Answer(failMalformed(a.c, ob.g), "Malformed")
        ELSE IF v = "NotCached" THEN Answer(a.c, "Recorded")
        ELSE storeReserved(reserveFor(a.c, ob), ob)

standaloneObject(c, ob) == storeAdmitted(admitGroup(c, ob.g), ob)

-----------------------------------------------------------------------------
(* Joining FETCH: coverage and snapshot of [start, end).                   *)

GroupCoverage(c, start, end, gid) ==
    IF gid <= c.retired THEN "Miss"
    ELSE IF gid \in c.nonexist THEN "Ready"
    ELSE IF gid \notin Ids(c.groups) THEN "Miss"
    ELSE coverage(c.groups[gid], IF gid = start[1] THEN start[2] ELSE 0,
                  IF gid = end[1] THEN end[2] ELSE -1)

inspect(c, start, end) ==
    LET lastGroup == IF end[2] = 0 THEN end[1] - 1 ELSE end[1]
        found == {GroupCoverage(c, start, end, gid) : gid \in start[1]..lastGroup}
    IN  IF c.down \/ MaxGroups = 0 THEN "Miss"
        ELSE IF ~Lt(start, end) THEN "Ready"
        ELSE IF "Miss" \in found THEN "Miss"
        ELSE IF "AwaitIngress" \in found THEN "AwaitIngress" ELSE "Ready"

InRange(c, start, end, gid) ==
    {ob \in GroupObjects(c.groups[gid]) : ~Lt(<<gid, ob.id>>, start) /\ Lt(<<gid, ob.id>>, end)}
ById(obs) == SetToSortSeq(obs, LAMBDA x, y : x.id < y.id)

snapshot_Ascending(c, j, start, end, order) ==
    LET gids == SetToSortSeq({i \in Ids(c.groups) : i >= start[1] /\ Lt(<<i, 0>>, end)}, <)
        entries == FlattenSeq([k \in DOMAIN gids |-> ById(InRange(c, start, end, gids[k]))])
        bytes == planChargeBytes(Len(entries))
    IN  IF inspect(c, start, end) # "Ready" \/ ~tryReserve(c, bytes) THEN [c |-> c, ok |-> FALSE]
        ELSE [c |-> [c EXCEPT !.used = @ + bytes,
                        !.plans[j] = [entries |-> entries, held |-> TRUE, charge |-> bytes, end |-> end,
                                      eot |-> c.eot # None /\ Lt(c.eot, end)]],
              ok |-> TRUE]

snapshot(c, j, start, end, order) ==
    LET asc == SetToSortSeq({i \in Ids(c.groups) : i >= start[1] /\ Lt(<<i, 0>>, end)}, <)
        gids == IF order = "NewestFirst" THEN Reverse(asc) ELSE asc
        entries == FlattenSeq([k \in DOMAIN gids |-> ById(InRange(c, start, end, gids[k]))])
        bytes == planChargeBytes(Len(entries))
    IN  IF inspect(c, start, end) # "Ready" \/ ~tryReserve(c, bytes) THEN [c |-> c, ok |-> FALSE]
        ELSE [c |-> [c EXCEPT !.used = @ + bytes,
                        !.plans[j] = [entries |-> entries, held |-> TRUE, charge |-> bytes, end |-> end,
                                      eot |-> c.eot # None /\ Lt(c.eot, end)]],
              ok |-> TRUE]

(* The replay lets go of the entry it has handed off, or of everything.    *)
releaseEntry(c, j) ==
    LET ob == Head(c.plans[j].entries)
        d == [c EXCEPT !.plans[j].entries = Tail(@)]
    IN  release(d, IF ob \in InCache(d) \cup InPlans(d, "") THEN 0 ELSE objectChargeBytes(ob.len))

releasePlan(c, j) ==
    LET alone == Range(c.plans[j].entries) \ (InCache(c) \cup InPlans(c, j))
    IN  [release(c, c.plans[j].charge + Charges(alone)) EXCEPT !.plans[j] = NoPlan]

addWaiter(c, j) ==
    IF c.down THEN [c EXCEPT !.woken = @ \cup {j}] ELSE [c EXCEPT !.parked = @ \cup {j}]
removeWaiter(c, j) == [c EXCEPT !.parked = @ \ {j}, !.woken = @ \ {j}]
=============================================================================
