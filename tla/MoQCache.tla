------------------------------ MODULE MoQCache ------------------------------
(***************************************************************************)
(* relay/MoQCache: the relay's object cache. Live subscriptions write into *)
(* it (SubscribeWriteback, SubgroupWriteback), FETCHes read from it and    *)
(* fetch what is missing upstream, writing the answer back (fetchImpl,     *)
(* fetchUpstream, FetchWriteback). Modules MoQCacheStore and               *)
(* FetchRangeIterator hold the store and the cursor.                       *)
(*                                                                         *)
(* fetchImpl is a coroutine on a single-threaded executor: an action runs  *)
(* it from one co_await to the next; everything else may run in between.   *)
(* A fetch f has at most one FetchWriteback at a time, c.wb[f].            *)
(*                                                                         *)
(* The publisher's track is a fixed script of objects, c.len of which are  *)
(* published. Upstream answers a FETCH with what was published in its      *)
(* range when it was asked, in group order. c.f[f].got is what the         *)
(* downstream consumer was given.                                          *)
(***************************************************************************)
EXTENDS FetchRangeIterator

VARIABLE c
vars == <<c>>

NoFetch == "none"
NoIt == [min |-> None, max |-> None, order |-> "asc", cur |-> None, end |-> None,
         valid |-> FALSE, endMemo |-> 0]
IdleFetch ==
    [pc |-> "idle", n |-> NoFetch, tid |-> 0, order |-> "asc", start |-> None, end |-> None,
     pre |-> FALSE, tok |-> FALSE, it |-> NoIt, fetchStart |-> None, todo |-> <<>>, tail |-> FALSE,
     hit |-> None, pin |-> FALSE, on |-> NoFetch, woken |-> FALSE, lastObject |-> FALSE,
     served |-> FALSE, ans |-> "none", okEnd |-> None, due |-> {}, got |-> <<>>, fin |-> "open",
     ends |-> 0, outside |-> FALSE]
NoWriteback ==
    [open |-> FALSE, tid |-> 0, proxyFin |-> FALSE, it |-> NoIt, key |-> None, pinned |-> -1,
     upEnd |-> None, pend |-> {}, complete |-> FALSE, wasReset |-> FALSE, fwd |-> FALSE,
     part |-> None, queue |-> <<>>, reply |-> "none", okEnd |-> None, okEot |-> FALSE,
     sess |-> FALSE, frame |-> FALSE]

InFrame(d, f) == d.f[f].pc \notin {"idle", "done"}
InUse(d) ==
    {d.cache[n] : n \in Names} \cup {d.live[s].tid : s \in Subs}
        \cup {d.f[f].tid : f \in {x \in Fetches : InFrame(d, x)}}
        \cup {d.wb[f].tid : f \in {x \in Fetches : d.wb[x].open}}
FreeTid(d) == CHOOSE i \in Tids : i \notin InUse(d)
Release(d) == [d EXCEPT !.trk = [i \in Tids |-> IF i \in InUse(d) THEN @[i] ELSE NewTrack]]

-----------------------------------------------------------------------------
(* The downstream FETCH consumer.                                          *)

give(d, f, l, whole, fin) ==
    [d EXCEPT !.f[f].got = IF d.f[f].fin = "open" THEN Append(@, <<l, whole>>) ELSE @,
              !.f[f].fin = IF fin /\ @ = "open" THEN "fin" ELSE @,
              !.f[f].ends = IF fin THEN @ + 1 ELSE @]
endOfFetch(d, f) ==
    [d EXCEPT !.f[f].fin = IF @ = "open" THEN "fin" ELSE @, !.f[f].ends = @ + 1]
resetConsumer(d, f) ==
    [d EXCEPT !.f[f].fin = IF @ = "open" THEN "reset" ELSE @, !.f[f].ends = @ + 1]

-----------------------------------------------------------------------------
(* FetchWriteback: its fetchesInProgress entry, its pin and its batons.    *)

findFetchInProgress(t, l) ==
    LET cover == {e \in t.prog : Lt(l, e.end) /\ Le(e.progress, l) /\ Le(e.key, l)}
    IN  IF cover = {} THEN NoFetch
        ELSE (CHOOSE e \in cover : \A x \in cover : Le(x.key, e.key)).wb

(* inProgress_.post() resumes whoever waits for this writeback.            *)
wake(d, f) ==
    [d EXCEPT !.f = [x \in Fetches |-> IF @[x].pc = "wait" /\ @[x].on = f
                                       THEN [@[x] EXCEPT !.woken = TRUE] ELSE @[x]]]

emplaceAndPinGroup(d, f, l, progress) ==
    LET w == d.wb[f]
        d1 == [d EXCEPT !.trk[w.tid].prog = @ \cup {[key |-> l, end |-> w.it.max,
                                                     progress |-> progress, wb |-> f]}]
        d2 == IF l[1] \in DOMAIN d1.trk[w.tid].groups THEN d1
              ELSE LET e == evictOldestGroupsIfNeeded(d1, w.tid)
                   IN  [e EXCEPT !.trk[w.tid].groups = @ @@ (l[1] :> NewGroup)]
    IN  [d2 EXCEPT !.trk[w.tid] = pinGroup(@, l[1]), !.wb[f].key = l, !.wb[f].pinned = l[1]]

eraseAndMakeGroupEvictable(d, f) ==
    LET w == d.wb[f]
        t == [d.trk[w.tid] EXCEPT !.prog = {e \in @ : e.wb # f}]
    IN  IF w.key = None THEN d
        ELSE [d EXCEPT !.trk[w.tid] = unpinGroup(t, w.pinned),
                       !.wb[f].key = None, !.wb[f].pinned = -1]

updateInProgress(d, f) ==
    LET w == d.wb[f]
        cur == w.it.cur
        e == wake(d, f)
        moved == [e EXCEPT !.trk[w.tid].prog =
                     {IF x.wb = f THEN [x EXCEPT !.progress = cur] ELSE x : x \in @}]
    IN  IF w.key = None THEN e
        ELSE IF ~w.it.valid THEN eraseAndMakeGroupEvictable(e, f)
        ELSE IF cur[1] <= w.key[1] THEN moved
        ELSE IF Lt(cur, w.it.max)
        THEN emplaceAndPinGroup(eraseAndMakeGroupEvictable(moved, f), f, cur, cur)
        ELSE eraseAndMakeGroupEvictable(moved, f)

newFetchWriteback(d, f, tid, start, end, order, proxyFin) ==
    LET l == {x \in Published(d) : Le(start, x) /\ Lt(x, end)}
        before(a, b) == IF order = "desc" /\ a[1] # b[1] THEN a[1] > b[1] ELSE Lt(a, b)
        found == d.len > 0 /\ Le(start, LargestPublished(d))
        w == [NoWriteback EXCEPT !.open = TRUE, !.tid = tid, !.proxyFin = proxyFin,
                  !.it = FetchRange(d.trk[tid], start, end, order), !.fwd = TRUE,
                  !.queue = SetToSortSeq(l, before), !.reply = "pending",
                  !.okEnd = IF found THEN MinLoc(end, next(LargestPublished(d))) ELSE None,
                  !.okEot = d.len = Len(SC(d).script) /\ Lt(LargestPublished(d), end),
                  !.sess = TRUE, !.frame = TRUE]
        e == [removeTrackFromLRU(d, tid) EXCEPT
                  !.wb[f] = w,
                  !.f[f].outside = @ \/ Lt(start, d.f[f].start) \/ Lt(d.f[f].end, end)]
    IN  emplaceAndPinGroup(e, f, start, start)

(* Mutant: those who wait for its data are not woken.                      *)
dropWriteback_Silent(d, f, holder) ==
    LET e == IF holder = "sess" THEN [d EXCEPT !.wb[f].sess = FALSE]
             ELSE [d EXCEPT !.wb[f].frame = FALSE]
    IN  IF ~e.wb[f].open \/ e.wb[f].sess \/ e.wb[f].frame THEN e
        ELSE onTrackBecameEvictable(
                 [eraseAndMakeGroupEvictable(e, f) EXCEPT !.wb[f] = NoWriteback], d.f[f].n)

(* Destroyed when neither the upstream session nor fetchUpstream holds it. *)
dropWriteback(d, f, holder) ==
    LET e == IF holder = "sess" THEN [d EXCEPT !.wb[f].sess = FALSE]
             ELSE [d EXCEPT !.wb[f].frame = FALSE]
        w == e.wb[f]
        gone == [eraseAndMakeGroupEvictable(wake(e, f), f) EXCEPT !.wb[f] = NoWriteback]
    IN  IF ~w.open \/ w.sess \/ w.frame THEN e
        ELSE onTrackBecameEvictable(gone, d.f[f].n)

(* Gaps are held until FETCH_OK and proved only below its End Location.    *)
insertGapBelow(t, upEnd, r) ==
    IF Le(upEnd, r[1]) THEN t ELSE insertGap(t, r[1], MinLoc(r[2], prev(upEnd)))

insertGaps(d, f, ranges) ==
    LET w == d.wb[f]
    IN  IF w.upEnd = None THEN [d EXCEPT !.wb[f].pend = @ \cup ranges]
        ELSE [d EXCEPT !.trk[w.tid] = FoldSet(LAMBDA r, t : insertGapBelow(t, w.upEnd, r), @, ranges)]

setUpstreamEnd(d, f) ==
    insertGaps([d EXCEPT !.wb[f].upEnd = d.wb[f].okEnd, !.wb[f].pend = {}], f, d.wb[f].pend)

markNonExistentTo(d, f, l) ==
    LET it == d.wb[f].it
        e == insertGaps(d, f, getGapRanges(it.cur, l, it.order, it.min, it.max))
    IN  IF it.cur = l THEN d
        ELSE [e EXCEPT !.wb[f].it = advanceTo(e.trk[e.wb[f].tid], @, l)]

finishRange(d, f) ==
    LET it == atEnd(d.trk[d.wb[f].tid], d.wb[f].it)
        e == markNonExistentTo([d EXCEPT !.wb[f].it = it], f, it.end)
    IN  [e EXCEPT !.wb[f].it = invalidate(@)]

cursorNext(d, f) == [d EXCEPT !.wb[f].it = nextPosition(d.trk[d.wb[f].tid], @)]

(* cacheImpl: cache, mark what was skipped, advance.                       *)
rangeDone(d, f) == [updateInProgress(finishRange(d, f), f) EXCEPT !.wb[f].complete = TRUE]

advance(d, f, fin) == IF fin THEN rangeDone(d, f) ELSE d

afterLargest(d, f, u, whole, fin) ==
    LET e == SetTrack(d, d.wb[f].tid, u.t)
    IN  [d |-> IF ~u.ok THEN updateInProgress(e, f)
               ELSE IF whole THEN advance(updateInProgress(cursorNext(e, f), f), f, fin)
               ELSE e,
         ok |-> u.ok]

afterCached(d, ok, f, ob, whole, fin) ==
    IF ~ok THEN [d |-> updateInProgress(d, f), ok |-> FALSE]
    ELSE afterLargest(d, f, updateLargest(d.trk[d.wb[f].tid], ob.loc, ob.status = "T"), whole, fin)

cacheImpl(d, f, ob, whole, fin) ==
    LET tid == d.wb[f].tid
        e == getOrCreateGroupWithEviction(d, tid, ob.loc[1])
        marked(r) == afterCached(markNonExistentTo(r.d, f, ob.loc), r.ok, f, ob, whole, fin)
    IN  marked(cacheObjectAndUpdateBytes(e, tid, ob, whole))

(* reset: forwarded once, unless the fetch was cancelled.                  *)
resetWriteback(d, f) ==
    LET e == IF d.wb[f].fwd THEN resetConsumer(d, f) ELSE d
    IN  updateInProgress([e EXCEPT !.wb[f].fwd = FALSE, !.wb[f].wasReset = TRUE,
                                   !.wb[f].complete = TRUE, !.wb[f].it = invalidate(@)], f)

-----------------------------------------------------------------------------
(* fetchImpl. o is what the consumer does during this run: from its o.at-th *)
(* object on it answers o.res ("blocked" or "error"). A piece of the loop  *)
(* ends at a co_await or return (Stop) or at a continue (Again).           *)

Stop(d) == [d |-> d, more |-> FALSE]
Again(d, o) == [d |-> d, more |-> TRUE, o |-> o]

Return(d, f, ans) ==
    LET F == d.f[f]
        e == IF F.pin THEN [d EXCEPT !.trk[F.tid] = unpinGroup(@, F.hit[1])] ELSE d
    IN  [e EXCEPT !.f[f] = [IdleFetch EXCEPT !.pc = "done", !.n = F.n, !.order = F.order,
                                !.start = F.start, !.end = F.end, !.pre = F.pre, !.due = F.due,
                                !.got = F.got, !.fin = F.fin, !.ends = F.ends,
                                !.outside = F.outside, !.okEnd = F.okEnd, !.tok = F.tok,
                                !.ans = IF F.pre THEN "ok" ELSE ans]]

Unpin(d, f) ==
    IF ~d.f[f].pin THEN [d EXCEPT !.f[f].hit = None]
    ELSE [d EXCEPT !.trk[d.f[f].tid] = unpinGroup(@, d.f[f].hit[1]),
                   !.f[f].pin = FALSE, !.f[f].hit = None]

Answer(d, f, end) == [d EXCEPT !.f[f].okEnd = IF d.f[f].pre THEN @ ELSE end]

(* A miss range goes upstream one interval at a time.                      *)
StartUpstream(d, f) ==
    LET F == d.f[f]
        iv == Head(F.todo)
        last == F.tail /\ Len(F.todo) = 1
        e == [d EXCEPT !.f[f].pc = "upstream", !.f[f].todo = Tail(@)]
    IN  IF F.tok THEN Return(d, f, "error")
        ELSE newFetchWriteback(e, f, F.tid, iv[1], iv[2], F.order, last)

FlushMiss(d, f, tail) ==
    LET F == d.f[f]
        ivs == getFetchIntervals(F.it.min, F.it.max, F.fetchStart, F.it.cur, F.order, tail)
    IN  StartUpstream([d EXCEPT !.f[f].todo = ivs, !.f[f].tail = tail], f)

(* The hit goes to the consumer; it is the cursor after it.                *)
Serve(d, f, it, o) ==
    LET t == d.trk[d.f[f].tid]
        l == d.f[f].hit
        last == it.cur = it.end
        whole == IF ~HasObject(t, l) THEN "stale"
                 ELSE IF t.groups[l[1]].objects[l[2]].whole THEN "whole" ELSE "partial"
        e == [give(d, f, l, whole, last) EXCEPT
                  !.f[f].it = it, !.f[f].lastObject = last, !.f[f].served = TRUE]
    IN  IF o.at > 1 THEN Again(Unpin(e, f), [o EXCEPT !.at = @ - 1])
        ELSE Stop(IF o.res = "blocked" THEN [e EXCEPT !.f[f].pc = "blocked"]
                  ELSE Return(resetConsumer(d, f), f, "error"))

(* Serve the hit found before the upstream fetch, or skip the gap.         *)
Boundary(d, f, o) ==
    LET t == d.trk[d.f[f].tid]
    IN  IF d.f[f].hit = None THEN Again([d EXCEPT !.f[f].it = skipGaps(t, @)], o)
        ELSE Serve(d, f, atEnd(t, nextPosition(t, d.f[f].it)), o)

FlushOrServe(d, f, o) ==
    IF d.f[f].fetchStart # None THEN Stop(FlushMiss(d, f, FALSE)) ELSE Boundary(d, f, o)

LookedUp(d, f, hit, o) ==
    LET tid == d.f[f].tid
        l == d.f[f].it.cur
    IN  IF hit
        THEN FlushOrServe([d EXCEPT !.trk[tid] = pinGroup(@, l[1]),
                                    !.f[f].hit = l, !.f[f].pin = TRUE], f, o)
        ELSE IF l \in d.trk[tid].gaps THEN FlushOrServe(d, f, o)
        ELSE Again([d EXCEPT !.f[f].fetchStart = OrElse(@, l),
                             !.f[f].it = skipUncached(d.trk[tid], @)], o)

Looked(r, f, o) == LookedUp(r.d, f, r.hit, o)

Visit(d, f, o) == Looked(getCachedObjectMaybe(d, d.f[f].tid, d.f[f].it.cur), f, o)

AfterWait(d, f, o) ==
    IF d.f[f].it.valid /\ d.f[f].it.cur \in d.trk[d.f[f].tid].gaps
    THEN Again([d EXCEPT !.f[f].it = skipGaps(d.trk[d.f[f].tid], @)], o)
    ELSE Visit(d, f, o)

waits(w, l) == Lt(l, w.it.max) /\ w.it.valid /\ Le(w.it.cur, l)

Finish_NoTail(d, f) == Return(Answer(endOfFetch(d, f), f, d.f[f].end), f, "ok")
Finish(d, f) ==
    LET F == d.f[f]
        okEnd == fetchOkEnd(d.trk[F.tid], F.start, F.end).end
        e == IF F.lastObject /\ F.served THEN d ELSE endOfFetch(d, f)
    IN  IF F.tok THEN Return(d, f, "error")
        ELSE IF F.fetchStart # None THEN FlushMiss(d, f, TRUE)
        ELSE Return(Answer(e, f, okEnd), f, "ok")

AtCursor(d, f, o) ==
    LET it == d.f[f].it
        b == findFetchInProgress(d.trk[d.f[f].tid], it.cur)
    IN  IF d.f[f].tok \/ it.cur = it.end THEN Stop(Finish(d, f))
        ELSE IF b # NoFetch /\ waits(d.wb[b], it.cur)
        THEN Stop([d EXCEPT !.f[f].pc = "wait", !.f[f].on = b, !.f[f].woken = FALSE])
        ELSE IF b # NoFetch THEN AfterWait(d, f, o)
        ELSE Visit(d, f, o)

RECURSIVE Continue(_, _)
Continue(r, f) ==
    IF ~r.more THEN r.d
    ELSE Continue(AtCursor([r.d EXCEPT !.f[f].it = atEnd(r.d.trk[r.d.f[f].tid], @)], f, r.o), f)

fetchImpl(d, f, o) ==
    LET F == d.f[f]
        it == FetchRange(d.trk[F.tid], F.start, F.end, F.order)
    IN  Continue(Again([d EXCEPT !.f[f].it = it], o), f)

-----------------------------------------------------------------------------
(* The resumptions of fetchImpl and fetchUpstream.                         *)

recordUpstreamEndOfTrack(t, w) ==
    IF w.okEot THEN updateLargest(t, prev(w.okEnd), TRUE).t ELSE t

resumeWait(d, f, o) ==
    LET F == d.f[f]
        e == [d EXCEPT !.f[f].on = NoFetch, !.f[f].woken = FALSE]
        w == d.wb[F.on]
    IN  IF w.open /\ w.tid = F.tid /\ waits(w, F.it.cur)
        THEN [d EXCEPT !.f[f].woken = FALSE]
        ELSE Continue(AfterWait([e EXCEPT !.f[f].pc = "run"], f, o), f)

upstreamOk(d, f) ==
    LET w == d.wb[f]
        e == setUpstreamEnd(d, f)
    IN  [e EXCEPT !.trk[w.tid] = recordUpstreamEndOfTrack(@, w)]

resumeUpstream(d, f) ==
    LET F == d.f[f]
        w == d.wb[f]
        e == upstreamOk(d, f)
        okEnd == IF F.order = "desc" THEN fetchOkEnd(e.trk[F.tid], F.start, F.end).end ELSE w.okEnd
    IN  IF w.reply = "error"
        THEN Return(resetConsumer(dropWriteback(d, f, "frame"), f), f, "error")
        ELSE IF w.proxyFin
        THEN Return(dropWriteback(Answer(e, f, okEnd), f, "frame"), f, "ok")
        ELSE [e EXCEPT !.f[f].pc = "complete"]

(* A track that was not cached is fetched upstream as a whole.             *)
resumeNewTrack(d, f) ==
    LET w == d.wb[f]
    IN  IF w.reply = "error" THEN Return(dropWriteback(d, f, "frame"), f, "error")
        ELSE Return(dropWriteback(Answer(upstreamOk(d, f), f, w.okEnd), f, "frame"), f, "ok")

resumeComplete(d, f, o) ==
    LET e == dropWriteback(d, f, "frame")
    IN  IF d.wb[f].wasReset THEN Return(e, f, "error")
        ELSE IF e.f[f].todo # <<>> THEN StartUpstream(e, f)
        ELSE Continue(Boundary([e EXCEPT !.f[f].pc = "run", !.f[f].fetchStart = None], f, o), f)

-----------------------------------------------------------------------------
(* Live subscriptions.                                                     *)

NotLive == [n |-> NoFetch, tid |-> 0, ok |-> FALSE, pos |-> 0]
NoStream == [s |-> NoFetch, g |-> -1, part |-> None]

getOrCreateTrack(d, n) ==
    IF d.cache[n] # 0 THEN d
    ELSE LET i == FreeTid(d)
         IN  addTrackToLRU([d EXCEPT !.cache[n] = i, !.trk[i] = NewTrack], n)

HasRoom(d) == Cardinality(InUse(d) \ {0}) < MaxTracks

getSubscribeWriteback(s, n) ==
    LET i == FreeTid(c)
        new == [evictOldestTrackIfNeeded(c) EXCEPT !.cache[n] = i, !.trk[i] = NewTrack]
        d == IF c.cache[n] # 0 THEN c ELSE new
        tid == d.cache[n]
        e == [removeTrackFromLRU(d, tid) EXCEPT !.trk[tid].live = @ + 1,
                 !.live[s] = [NotLive EXCEPT !.n = n, !.tid = tid]]
    IN  /\ c.live[s].tid = 0 /\ May(c, "subscribe")
        /\ c.cache[n] # 0 \/ HasRoom(c)
        /\ c' = Release(e)

(* SUBSCRIBE_OK reports the Largest Object; live objects follow it.        *)
setTrackState(s) ==
    LET L == c.live[s]
        d == getOrCreateTrack(c, L.n)
        tid == d.cache[L.n]
        t == IF c.len = 0 THEN d.trk[tid]
             ELSE updateLargest(d.trk[tid], LargestPublished(c), FALSE).t
    IN  /\ L.tid # 0 /\ ~L.ok
        /\ c.cache[L.n] # 0 \/ HasRoom(c)
        /\ c' = [SetTrack(d, tid, t) EXCEPT !.live[s].ok = TRUE, !.live[s].pos = c.len]

(* The SubscribeWriteback and its subgroups are destroyed with the         *)
(* subscription.                                                           *)
closeStream(d, x) ==
    LET S == d.st[x]
        e == [d EXCEPT !.st[x] = NoStream]
    IN  IF S.g < 0 THEN e ELSE [e EXCEPT !.trk[d.live[S.s].tid] = unpinGroup(@, S.g)]

unsubscribe(s) ==
    LET L == c.live[s]
        d == FoldSet(LAMBDA x, e : closeStream(e, x), c, {x \in Streams : c.st[x].s = s})
        e == [d EXCEPT !.trk[L.tid].live = @ - 1, !.live[s] = NotLive]
    IN  /\ L.tid # 0
        /\ May(c, "unsubscribe")
        /\ c' = Release(onTrackBecameEvictable(e, L.n))

publish ==
    /\ May(c, "publish")
    /\ c.len < Len(SC(c).script)
    /\ c' = [c EXCEPT !.len = @ + 1]

NextLive(d, s) == SC(d).script[d.live[s].pos + 1]
HasLive(d, s) == d.live[s].ok /\ d.live[s].pos < d.len

groupNonExistent(t, g) == InGroup(g) \subseteq t.gaps

beginSubgroup(s, x) ==
    LET tid == c.live[s].tid
        g == NextLive(c, s).loc[1]
        d == getOrCreateGroupWithEviction(c, tid, g)
        opened == [s |-> s, g |-> IF c.trk[tid].evicted THEN -1 ELSE g, part |-> None]
    IN  /\ HasLive(c, s)
        /\ c.st[x].s = NoFetch
        /\ IF groupNonExistent(c.trk[tid], g) THEN c' = [c EXCEPT !.rejected = TRUE]
           ELSE IF c.trk[tid].evicted THEN c' = [c EXCEPT !.st[x] = opened]
           ELSE c' = [d EXCEPT !.trk[tid] = pinGroup(@, g), !.st[x] = opened]

(* The whole object or its first byte; a rejected object resets the        *)
(* consumer and is recorded.                                               *)
liveObject(d, s, ob, whole) ==
    LET tid == d.live[s].tid
        u == updateLargest(d.trk[tid], ob.loc, ob.status = "T")
        r == cacheObjectAndUpdateBytes(SetTrack(d, tid, u.t), tid, ob, whole)
        moved == [d EXCEPT !.live[s].pos = @ + 1]
    IN  IF d.trk[tid].evicted THEN moved
        ELSE IF ~u.ok THEN [moved EXCEPT !.rejected = TRUE]
        ELSE [r.d EXCEPT !.live[s].pos = @ + 1, !.rejected = @ \/ ~r.ok]

object(s, x) ==
    /\ HasLive(c, s)
    /\ c.st[x].s = s /\ c.st[x].part = None
    /\ c.st[x].g = NextLive(c, s).loc[1] \/ c.trk[c.live[s].tid].evicted
    /\ c' = liveObject(c, s, NextLive(c, s), TRUE)

beginObject(s, x) ==
    LET ob == NextLive(c, s)
    IN  /\ HasLive(c, s) /\ ob.status = "N" /\ May(c, "begin")
        /\ c.st[x].s = s /\ c.st[x].part = None
        /\ c.st[x].g = ob.loc[1]
        /\ ~c.trk[c.live[s].tid].evicted
        /\ c' = [liveObject(c, s, ob, FALSE) EXCEPT !.st[x].part = ob.loc]

objectPayload(s, x) ==
    LET tid == c.live[s].tid
        l == c.st[x].part
        d == [c EXCEPT !.st[x].part = None]
    IN  /\ c.st[x].s = s /\ l # None
        /\ c' = IF c.trk[tid].evicted \/ ~HasObject(c.trk[tid], l) THEN d
                ELSE appendPayload(d, tid, l)

(* endOfSubgroup or reset, and the SubgroupWriteback's destructor.         *)
endSubgroup(s, x) ==
    /\ c.st[x].s = s
    /\ c' = closeStream(c, x)

(* An object on a stream of its own, or in a datagram.                     *)
objectStream(s) ==
    LET g == NextLive(c, s).loc[1]
        tid == c.live[s].tid
    IN  /\ HasLive(c, s) /\ May(c, "datagram")
        /\ c' = liveObject(IF c.trk[tid].evicted THEN c ELSE getOrCreateGroupWithEviction(c, tid, g),
                           s, NextLive(c, s), TRUE)

(* The subscription does not deliver an object (a lost datagram, a stream  *)
(* that was reset).                                                        *)
missLive(s) ==
    /\ HasLive(c, s) /\ May(c, "lose")
    /\ c' = [c EXCEPT !.live[s].pos = @ + 1]

-----------------------------------------------------------------------------
(* FETCH.                                                                  *)

Outcomes(d) ==
    {[at |-> 99, res |-> "ok"]}
        \cup {[at |-> i, res |-> r] : i \in 1..2, r \in {"blocked", "error"} \cap SC(d).may}

fetch(f, q, o) ==
    LET i == FreeTid(c)
        due == {l \in Published(c) : Le(q.start, l) /\ Lt(l, toExclusiveEnd(q.end))}
        F == [IdleFetch EXCEPT !.n = q.n, !.order = q.order, !.start = q.start,
                 !.end = toExclusiveEnd(q.end), !.due = due]
        isNew == c.cache[q.n] = 0
        tid == IF isNew THEN i ELSE c.cache[q.n]
        t == c.trk[tid]
        d == [c EXCEPT !.cache[q.n] = i, !.trk[i] = NewTrack,
                 !.f[f] = [F EXCEPT !.pc = "newup", !.tid = i]]
        pre == t.largest # None /\ (t.live > 0 \/ Le(prev(F.end), t.largest))
        okEnd == fetchOkEnd(t, F.start, F.end).end
        started == [c EXCEPT !.f[f] = [F EXCEPT !.pc = "start", !.tid = tid, !.pre = TRUE,
                                          !.ans = "ok", !.end = okEnd, !.okEnd = okEnd]]
        running == [c EXCEPT !.f[f] = [F EXCEPT !.pc = "run", !.tid = tid]]
    IN  /\ c.f[f].pc = "idle"
        /\ q \in SC(c).reqs[f]
        /\ ~isNew \/ HasRoom(c)
        /\ IF isNew
           THEN c' = Release(newFetchWriteback(
                         addTrackToLRU(evictOldestTrackIfNeeded(d), q.n), f, i,
                         F.start, F.end, q.order, TRUE))
           ELSE IF pre THEN c' = started
           ELSE c' = Release(fetchImpl(running, f, o))

run(f, o) ==
    LET F == c.f[f]
        d == [c EXCEPT !.f[f].pc = "run"]
    IN  \/ F.pc = "start" /\ c' = Release(fetchImpl(d, f, o))
        \/ F.pc = "wait" /\ F.woken /\ c' = Release(resumeWait(c, f, o))
        \/ F.pc = "upstream" /\ c.wb[f].reply # "pending" /\ c' = Release(resumeUpstream(c, f))
        \/ F.pc = "newup" /\ c.wb[f].reply # "pending" /\ c' = Release(resumeNewTrack(c, f))
        \/ F.pc = "complete" /\ c.wb[f].complete /\ c' = Release(resumeComplete(c, f, o))
        \/ F.pc = "blocked" /\ c' = Release(Continue(Again(Unpin(d, f), o), f))

(* FetchHandle::fetchCancel. The token resets the consumer, and stops the  *)
(* writeback from doing it again; upstream's handle cancels the upstream   *)
(* FETCH, whose session resets the writeback. A FETCH still waiting for    *)
(* upstream's answer is unwound.                                           *)
fetchCancel(f) ==
    LET F == c.f[f]
        d == [resetConsumer(c, f) EXCEPT !.f[f].tok = TRUE, !.wb[f].fwd = FALSE]
    IN  /\ F.ans = "ok" /\ ~F.tok /\ F.fin = "open" /\ May(c, "cancel")
        /\ c' = Release(
               IF F.pc = "done"
               THEN dropWriteback(resetWriteback([c EXCEPT !.f[f].tok = TRUE], f), f, "sess")
               ELSE IF F.pc = "upstream"
               THEN Return(dropWriteback(dropWriteback(d, f, "sess"), f, "frame"), f, "error")
               ELSE IF F.pc = "complete" /\ c.wb[f].sess
               THEN dropWriteback(resetWriteback(d, f), f, "sess")
               ELSE d)

-----------------------------------------------------------------------------
(* The upstream session's side of a writeback.                             *)

upstreamReply(f, r) ==
    LET w == c.wb[f]
    IN  /\ w.open /\ w.reply = "pending"
        /\ \/ r = "ok" /\ w.okEnd # None
           \/ r = "error" /\ w.okEnd = None
           \/ r = "error" /\ May(c, "refuse") /\ ~w.wasReset /\ w.sess
           \/ r = "error" /\ May(c, "close") /\ w.wasReset
        /\ c' = LET d == [c EXCEPT !.wb[f].reply = r]
                IN  IF r = "error" THEN dropWriteback(d, f, "sess") ELSE d

(* checkInRange: upstream's objects lie in the range asked for.            *)
checkInRange(w, l) == Le(w.it.min, l) /\ Lt(l, w.it.max)

giveUp(d, f) == dropWriteback(resetWriteback(d, f), f, "sess")

(* To the downstream consumer; with the FIN the session lets go of it.     *)
passOn(d, f, l, fin) ==
    LET e == give(d, f, l, "whole", fin /\ d.wb[f].proxyFin)
    IN  IF fin THEN dropWriteback(e, f, "sess") ELSE e

fromUpstream(f, ob, whole, fin) ==
    LET w == c.wb[f]
        d == [c EXCEPT !.wb[f].queue = Tail(@)]
        cached(r) == IF ~r.ok THEN giveUp([r.d EXCEPT !.rejected = TRUE], f)
                     ELSE IF ~whole THEN [r.d EXCEPT !.wb[f].part = ob.loc]
                     ELSE passOn(r.d, f, ob.loc, fin)
    IN  /\ w.sess /\ w.part = None /\ w.okEnd # None
        /\ checkInRange(w, ob.loc)
        /\ fin => whole /\ Len(w.queue) = 1
        /\ c' = Release(IF c.trk[w.tid].evicted THEN passOn(d, f, ob.loc, fin)
                        ELSE cached(cacheImpl(d, f, ob, whole, fin)))

upstreamObject(f, whole, fin) ==
    LET ob == ObjectAt(c, Head(c.wb[f].queue))
    IN  /\ c.wb[f].queue # <<>>
        /\ ob.status = "N" /\ (~whole => May(c, "begin"))
        /\ fromUpstream(f, ob, whole, fin)

upstreamEndOfGroup(f, fin) ==
    LET ob == ObjectAt(c, Head(c.wb[f].queue))
    IN  /\ c.wb[f].queue # <<>>
        /\ ob.status = "G"
        /\ fromUpstream(f, ob, TRUE, fin)

upstreamPayload(f) ==
    LET w == c.wb[f]
        l == w.part
        e == [c EXCEPT !.wb[f].part = None]
        d == updateInProgress(cursorNext(appendPayload(e, w.tid, l), f), f)
    IN  /\ w.sess /\ l # None
        /\ IF c.trk[w.tid].evicted THEN c' = give(e, f, l, "whole", FALSE)
           ELSE IF ~HasObject(c.trk[w.tid], l)
           THEN c' = Release(giveUp([e EXCEPT !.rejected = TRUE], f))
           ELSE c' = give(d, f, l, "whole", FALSE)

(* Upstream does not know whether an object exists.                        *)
upstreamUnknown(f) ==
    LET w == c.wb[f]
        l == Head(w.queue)
        d == [c EXCEPT !.wb[f].queue = Tail(@), !.wb[f].it = advanceTo(c.trk[w.tid], @, l)]
    IN  /\ w.sess /\ w.queue # <<>> /\ w.part = None /\ w.okEnd # None /\ May(c, "unknown")
        /\ c' = give(updateInProgress(cursorNext(d, f), f), f, l, "unknown", FALSE)

upstreamFin(f) ==
    LET w == c.wb[f]
        d == rangeDone(c, f)
    IN  /\ w.sess /\ w.queue = <<>> /\ w.part = None /\ w.okEnd # None
        /\ c' = Release(dropWriteback(IF w.proxyFin THEN endOfFetch(d, f) ELSE d, f, "sess"))

upstreamReset(f) ==
    /\ c.wb[f].sess /\ c.wb[f].okEnd # None
    /\ May(c, "reset")
    /\ c' = Release(giveUp(c, f))

-----------------------------------------------------------------------------
(* Time passes: everything cached so far is past its lifetime.             *)
age ==
    /\ May(c, "age")
    /\ c' = [c EXCEPT !.trk = [i \in Tids |-> [@[i] EXCEPT !.groups =
                [g \in DOMAIN @ |-> [@[g] EXCEPT !.objects =
                    [x \in DOMAIN @ |-> [@[x] EXCEPT !.old = TRUE]]]]]]]

(* MoQCache::clear: writebacks of the tracks dropped skip caching.         *)
clear ==
    /\ May(c, "clear")
    /\ c' = Release([c EXCEPT
                !.trk = [i \in Tids |-> [@[i] EXCEPT
                            !.evicted = @ \/ i \in {c.cache[n] : n \in Names}]],
                !.cache = [n \in Names |-> 0], !.lru = <<>>, !.total = 0])

setMaxCacheDuration(n) ==
    /\ May(c, "duration") /\ n \in Range(SC(c).subs)
    /\ c.cache[n] # 0 \/ HasRoom(c)
    /\ LET d == getOrCreateTrack(c, n)
       IN  c' = [d EXCEPT !.trk[d.cache[n]].dur = TRUE]

clearMaxCacheDuration(n) ==
    /\ May(c, "duration") /\ c.cache[n] # 0
    /\ c' = [c EXCEPT !.trk[c.cache[n]].dur = FALSE]

Init ==
    \E sc \in Scenarios :
        c = [sc |-> sc, len |-> sc.len, cache |-> [n \in Names |-> 0],
             trk |-> [j \in Tids |-> NewTrack], lru |-> <<>>, total |-> 0,
             live |-> [s \in Subs |-> NotLive], st |-> [x \in Streams |-> NoStream],
             f |-> [g \in Fetches |-> IdleFetch], wb |-> [g \in Fetches |-> NoWriteback],
             check |-> TRUE, gaveUp |-> FALSE, rejected |-> FALSE]

Next ==
    \/ publish \/ age \/ clear
    \/ \E n \in Names : setMaxCacheDuration(n) \/ clearMaxCacheDuration(n)
    \/ \E s \in Subs : getSubscribeWriteback(s, SC(c).subs[s]) \/ setTrackState(s) \/ unsubscribe(s)
    \/ \E s \in Subs : objectStream(s) \/ missLive(s)
    \/ \E s \in Subs, x \in Streams :
           beginSubgroup(s, x) \/ object(s, x) \/ beginObject(s, x) \/ objectPayload(s, x)
               \/ endSubgroup(s, x)
    \/ \E f \in Fetches, o \in Outcomes(c) : run(f, o) \/ \E q \in SC(c).reqs[f] : fetch(f, q, o)
    \/ \E f \in Fetches : fetchCancel(f) \/ upstreamPayload(f) \/ upstreamUnknown(f)
                              \/ upstreamFin(f) \/ upstreamReset(f)
    \/ \E f \in Fetches, r \in {"ok", "error"} : upstreamReply(f, r)
    \/ \E f \in Fetches, whole, fin \in BOOLEAN : upstreamObject(f, whole, fin)
    \/ \E f \in Fetches, fin \in BOOLEAN : upstreamEndOfGroup(f, fin)

Spec == Init /\ [][Next]_vars

-----------------------------------------------------------------------------
CachedTids == {c.cache[n] : n \in Names} \ {0}
ScriptLocs == {ob.loc : ob \in Range(SC(c).script)}
Whole(t) == {l \in Loc : HasObject(t, l) /\ t.groups[l[1]].objects[l[2]].whole}

(* Byte total, track and group counters stay in range.                     *)
TypeOK ==
    /\ c.total \in 0..(ByteWord - 1)
    /\ \A n \in Names : c.cache[n] \in 0..MaxTracks
    /\ \A i \in Tids : /\ c.trk[i].live \in 0..Cardinality(Subs)
                       /\ c.trk[i].gaps \subseteq Loc /\ c.trk[i].content \subseteq Loc
                       /\ \A g \in DOMAIN c.trk[i].groups : c.trk[i].groups[g].pins \in Nat
    /\ \A f \in Fetches : c.f[f].fin \in {"open", "fin", "reset"}

(* totalCachedBytes_ is what the cached tracks hold, and a group's count   *)
(* is what its objects hold, whatever was evicted, replaced or expired.    *)
AccountingExact ==
    /\ c.total = MapThenSumSet(LAMBDA i : TrackBytes(c.trk[i]), CachedTids)
    /\ \A i \in Tids : \A g \in DOMAIN c.trk[i].groups :
           LET G == c.trk[i].groups[g]
           IN  G.bytes = MapThenSumSet(LAMBDA x : G.objects[x].size, DOMAIN G.objects)

(* cachedContent is exactly what a fetch can get past without upstream:    *)
(* skipUncached stops nowhere else, so a stale member would make fetchImpl *)
(* loop on it and a missing one would fetch it again.                      *)
ContentHonest ==
    \A i \in Tids : c.trk[i].content \subseteq c.trk[i].gaps \cup Whole(c.trk[i])

(* The cache never claims that an object does not exist when the publisher *)
(* has published it, or publishes it later.                                *)
GapsAreTrue == \A i \in Tids : c.trk[i].gaps \cap ScriptLocs = {}

(* A FETCH is given objects of its range, in its group order, each once    *)
(* and whole.                                                              *)
ServedInOrder ==
    \A f \in Fetches :
        LET F == c.f[f]
            before(a, b) == IF F.order = "desc" /\ a[1] # b[1] THEN a[1] > b[1] ELSE Lt(a, b)
        IN  /\ \A j \in 1..Len(F.got) :
                   /\ F.got[j][2] \in {"whole", "unknown"}
                   /\ Le(F.start, F.got[j][1])
            /\ \A j \in 1..(Len(F.got) - 1) : before(F.got[j][1], F.got[j + 1][1])

(* A FETCH that ends with a FIN was given every object of the range        *)
(* FETCH_OK announced that was published when it was made, wherever each   *)
(* came from: the cache, another fetch's upstream answer, or its own.      *)
ServedDue ==
    \A f \in Fetches :
        LET F == c.f[f]
        IN  F.fin = "fin" /\ F.pc = "done" =>
                {l \in F.due : Lt(l, F.okEnd)} \subseteq {F.got[j][1] : j \in 1..Len(F.got)}

(* The consumer of an accepted FETCH is finished or reset once, and has    *)
(* been when neither fetchImpl nor upstream has hold of it any more.       *)
EndsOnce ==
    \A f \in Fetches :
        LET F == c.f[f]
        IN  /\ ~F.tok => F.ends <= 1
            /\ F.pc = "done" /\ F.ans = "ok" /\ ~c.wb[f].open => F.fin # "open"

Holders(i, g) ==
    {<<"sub", x>> : x \in {y \in Streams : c.st[y].g = g /\ c.live[c.st[y].s].tid = i}}
        \cup {<<"wb", f>> : f \in {x \in Fetches : c.wb[x].open /\ c.wb[x].tid = i /\ c.wb[x].pinned = g}}
        \cup {<<"hit", f>> : f \in {x \in Fetches : c.f[x].pin /\ c.f[x].tid = i /\ c.f[x].hit[1] = g}}

(* A group in use (an open subgroup, a fetch writing into it, a fetch      *)
(* about to serve an object of it) is pinned and out of the LRU list, and  *)
(* every other group of the track is in the list, or it could never be     *)
(* evicted.                                                                *)
PinsMatchUse ==
    \A i \in Tids :
        LET t == c.trk[i]
        IN  /\ \A g \in 0..MaxGroup : Holders(i, g) # {} => g \in DOMAIN t.groups
            /\ \A g \in DOMAIN t.groups :
                   /\ t.groups[g].pins = Cardinality(Holders(i, g))
                   /\ t.evicted \/ (g \in Range(t.glru) <=> t.groups[g].pins = 0)

(* A track in the LRU list has no subscription writing into it and no      *)
(* fetch in progress; an idle track whose writebacks are gone is listed,   *)
(* or it could never be evicted.                                           *)
TrackListedWhenIdle ==
    \A n \in Names :
        LET i == c.cache[n]
            idle == i # 0 /\ canEvict(c.trk[i])
        IN  /\ Listed(c, n) => idle
            /\ idle /\ ~(\E f \in Fetches : c.wb[f].open /\ c.wb[f].tid = i) => Listed(c, n)

(* A fetch waiting for another's writeback is woken when it goes away.     *)
NoStuckWaiter ==
    \A f \in Fetches : c.f[f].pc = "wait" /\ ~c.f[f].woken =>
        LET w == c.wb[c.f[f].on]
        IN  w.open /\ w.tid = c.f[f].tid /\ w.it.valid

(* A miss is fetched upstream inside the range asked for downstream.       *)
RequestsInRange == \A f \in Fetches : ~c.f[f].outside

(* No object of a well-formed track is refused as malformed.               *)
HonestTrackAccepted == ~c.rejected

(* evictGroup and evictTrack never subtract more than totalCachedBytes_:   *)
(* XCHECK_GE(totalCachedBytes_, group->totalBytes) holds.                  *)
EvictedBytesWereCounted == c.check

(* What the cache counts, pins and waits for is what is there.             *)
CacheAccounts ==
  AccountingExact /\ PinsMatchUse /\ TrackListedWhenIdle /\ NoStuckWaiter /\ EndsOnce

(* What the cache serves or claims absent is the track as published.       *)
CacheServes ==
  /\ ContentHonest /\ GapsAreTrue /\ HonestTrackAccepted
  /\ ServedInOrder /\ ServedDue /\ RequestsInRange
=============================================================================
