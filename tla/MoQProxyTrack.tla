--------------------------- MODULE MoQProxyTrack ----------------------------
(***************************************************************************)
(* proxy/MoQProxyTrack, the parts of proxy/MoQProxy that own tracks and    *)
(* joining FETCHes, and proxy/MoQJoinReplay: one upstream subscription     *)
(* shared by the viewers of a track, recorded into the group cache on its  *)
(* way to the forwarder.                                                   *)
(*                                                                         *)
(* Everything runs on one event loop. A coroutine is cut at each co_await, *)
(* so an action is what runs between two of them, with every callback it   *)
(* makes: the forwarder's onEmpty and onPublishDone, the track's           *)
(* onNoSubscribers, the cache's waiters.                                   *)
(*                                                                         *)
(* The forwarder (module MoQForwarder) is here the set of its viewers, the *)
(* subgroups it has registered and who takes which; location filters are   *)
(* left out. Track instances are numbered, and attempt a is the one of     *)
(* instance (a + 1) \div 2 with its provider 1 or 2. Upstream data comes   *)
(* from the scripts of the chosen scenario, stream by stream.              *)
(***************************************************************************)
EXTENDS MoQGroupCache

CONSTANTS Viewers,   \* downstream sessions
          Streams,   \* upstream subgroup streams and datagrams
          Scenarios  \* set of [track, largest, honest, replaces, streams, joins, may]

Tids == 1..2
Attempts == 1..4
TidOf(a) == (a + 1) \div 2
FirstAttempt(tid) == 2 * tid - 1

VARIABLE px

SC(d) == d.sc
May(d, what) == what \in SC(d).may

NewTrack ==
    [state |-> "IDLE", att |-> 0, phase |-> "none", cancelled |-> FALSE, handle |-> FALSE,
     session |-> FALSE, recorder |-> 0, watch |-> FALSE, resolved |-> FALSE, failure |-> FALSE,
     notified |-> FALSE, viewersEnded |-> FALSE, first |-> "", largest |-> None,
     subs |-> Empty, legs |-> {}, draining |-> FALSE]
NewStream == [st |-> "none", pos |-> 1, caching |-> FALSE, leg |-> FALSE, interest |-> FALSE]
NewJoin == [st |-> "idle", tid |-> 0, start |-> None, end |-> None, got |-> <<>>,
            waited |-> FALSE, eot |-> FALSE]

Init ==
    \E sc \in Scenarios :
        px = [sc |-> sc, closed |-> FALSE, map |-> 0, next |-> 1,
              trk |-> [tid \in Tids |-> NewTrack],
              c |-> NewCache,
              rec |-> [a \in Attempts |-> "none"],       \* Recorder: "none", "active", "disabled"
              up |-> [a \in Attempts |-> "none"],        \* the SUBSCRIBE, as upstream sees it
              st |-> [s \in Streams |-> NewStream],
              viewer |-> [v \in Viewers |-> [st |-> "idle", tid |-> 0]],
              told |-> [v \in Viewers |-> 0],            \* history: PUBLISH_DONEs of the track to v
              join |-> [j \in Joins |-> NewJoin]]

-----------------------------------------------------------------------------
(* The end of a track instance.                                            *)

Is(d, tid, field, value) == d.trk[tid][field] = value

disable(d, a) ==
    IF a = 0 THEN d ELSE [d EXCEPT !.rec[a] = "disabled"]

(* The cache of the model is that of the newest instance; an older one is  *)
(* shut down for good.                                                     *)
stopCaching(d, tid) ==
    LET e == [disable(d, d.trk[tid].recorder) EXCEPT !.trk[tid].recorder = 0]
    IN  IF d.next = tid + 1 THEN [e EXCEPT !.c = shutdown(@)] ELSE e

completeUpstreamEstablishment(d, tid, failure) ==
    IF d.trk[tid].resolved THEN d
    ELSE [d EXCEPT !.trk[tid].resolved = TRUE, !.trk[tid].failure = failure]

releaseUpstream(d, tid) ==
    LET t == d.trk[tid]
    IN  [d EXCEPT !.up[t.att] = IF t.handle /\ @ = "ok" THEN "unsub" ELSE @,
                  !.trk[tid].handle = FALSE, !.trk[tid].watch = FALSE, !.trk[tid].session = FALSE]

(* MoQProxy::onNoSubscribers; close() clears the callback first.           *)
notifyNoSubscribers(d, tid) ==
    IF d.trk[tid].notified THEN d
    ELSE [d EXCEPT !.trk[tid].notified = TRUE, !.map = IF @ = tid THEN 0 ELSE @]

onForwarderEmpty_NoResolve(d, tid) ==
    LET f == [d EXCEPT !.trk[tid].state = "CLOSED", !.trk[tid].cancelled = TRUE]
    IN  notifyNoSubscribers(releaseUpstream(stopCaching(f, tid), tid), tid)

onForwarderEmpty(d, tid) ==
    LET e == IF Is(d, tid, "state", "CONNECTING") THEN completeUpstreamEstablishment(d, tid, TRUE) ELSE d
        f == [e EXCEPT !.trk[tid].state = "CLOSED", !.trk[tid].cancelled = TRUE]
    IN  notifyNoSubscribers(releaseUpstream(stopCaching(f, tid), tid), tid)

onUpstreamPublishDone(d, tid) ==
    LET t == d.trk[tid]
        connecting == t.state = "CONNECTING"
        e == [d EXCEPT !.trk[tid].viewersEnded = TRUE, !.trk[tid].handle = FALSE,
                       !.trk[tid].watch = FALSE,
                       !.trk[tid].cancelled = @ \/ connecting]
        f == IF connecting THEN completeUpstreamEstablishment(e, tid, TRUE) ELSE e
    IN  IF t.state = "CLOSED" THEN f ELSE [f EXCEPT !.trk[tid].state = "DRAINING"]

-----------------------------------------------------------------------------
(* The forwarder, as far as the track sees it.                             *)

checkAndFireOnEmpty(d, tid) ==
    IF Ids(d.trk[tid].subs) = {} /\ d.trk[tid].legs = {} THEN onForwarderEmpty(d, tid) ELSE d

WithoutSubs(f, S) == [v \in DOMAIN f \ S |-> f[v]]

removeSubscribers(d, tid, S) ==
    LET gone == S \cap Ids(d.trk[tid].subs)
        e == [d EXCEPT !.trk[tid].subs = WithoutSubs(@, gone)]
    IN  IF gone = {} THEN d ELSE checkAndFireOnEmpty(e, tid)

(* publishDone of a forwarder that does not defer it.                      *)
forwarderPublishDone(d, tid) ==
    LET e == onUpstreamPublishDone([d EXCEPT !.trk[tid].draining = TRUE], tid)
        subs == e.trk[tid].subs
        idle == {v \in Ids(subs) : subs[v].open = {}}
        f == [e EXCEPT !.trk[tid].subs = [v \in Ids(subs) |-> [subs[v] EXCEPT !.done = TRUE]],
                       !.told = [v \in Viewers |-> @[v] + IF v \in Ids(subs) THEN 1 ELSE 0]]
    IN  removeSubscribers(f, tid, idle)

SameSubgroup(d, s, x) ==
    SC(d).streams[s].g = SC(d).streams[x].g /\ SC(d).streams[s].sg = SC(d).streams[x].sg

(* The subgroup of stream s is over for every viewer.                      *)
closeLeg(d, tid, s) ==
    LET subs == d.trk[tid].subs
        left == [v \in Ids(subs) |-> [subs[v] EXCEPT !.open = @ \ {s}]]
        drained == {v \in Ids(subs) : left[v].done /\ left[v].open = {}}
        e == [d EXCEPT !.trk[tid].legs = @ \ {s}, !.trk[tid].subs = WithoutSubs(left, drained)]
    IN  IF s \in d.trk[tid].legs THEN checkAndFireOnEmpty(e, tid) ELSE d

(* A write to the subgroup: viewers that joined since attach to it. With   *)
(* nobody to take it and no cache interest it is refused, which ends it.   *)
writeLeg(d, tid, s) ==
    LET subs == d.trk[tid].subs
        taken == [v \in Ids(subs) |->
                    IF subs[v].done THEN subs[v] ELSE [subs[v] EXCEPT !.open = @ \cup {s}]]
        e == [d EXCEPT !.trk[tid].subs = taken]
    IN  IF s \notin d.trk[tid].legs THEN [d |-> d, ok |-> FALSE]
        ELSE IF (\E v \in Ids(subs) : s \in taken[v].open) \/ d.st[s].interest THEN [d |-> e, ok |-> TRUE]
        ELSE [d |-> closeLeg(d, tid, s), ok |-> FALSE]

Higher(a, b) == IF Lt(a, b) THEN b ELSE a
updateLargest(d, tid, loc) == [d EXCEPT !.trk[tid].largest = Higher(@, loc)]

(* beginSubgroupImpl: a second stream of a subgroup replaces the first.    *)
openLeg(d, tid, s) ==
    LET subs == d.trk[tid].subs
    IN  [d EXCEPT !.trk[tid].legs = @ \cup {s},
                  !.trk[tid].subs = [v \in Ids(subs) |-> IF subs[v].done THEN subs[v]
                                                         ELSE [subs[v] EXCEPT !.open = @ \cup {s}]]]

replaceLeg(d, tid, s, interest) ==
    LET subs == d.trk[tid].subs
        old == {x \in d.trk[tid].legs : SameSubgroup(d, s, x)}
        anyReset == \E v \in Ids(subs) : subs[v].open \cap old # {}
        reopen == \E v \in Ids(subs) : ~subs[v].done /\ subs[v].open \cap old = {}
        left == [v \in Ids(subs) |-> [subs[v] EXCEPT !.open = @ \ old]]
        drained == {v \in Ids(subs) : left[v].done /\ left[v].open = {} /\ subs[v].open # {}}
        e == [d EXCEPT !.trk[tid].legs = @ \ old, !.trk[tid].subs = WithoutSubs(left, drained)]
        refused == \/ old # {} /\ ~anyReset /\ ~reopen /\ ~interest
                   \/ old # {} /\ Ids(e.trk[tid].subs) = {}
                   \/ d.trk[tid].draining /\ ~interest
    IN  IF refused THEN [d |-> checkAndFireOnEmpty(e, tid), ok |-> FALSE]
        ELSE [d |-> openLeg(e, tid, s), ok |-> TRUE]

beginLeg(d, tid, s, interest) ==
    replaceLeg(updateLargest(d, tid, <<SC(d).streams[s].g, 0>>), tid, s, interest)

-----------------------------------------------------------------------------
(* Recorder and SubgroupRecorder: record, then forward.                    *)

(* The cache of an older instance is shut down and empty.                  *)
Newest(d, s) == d.next = TidOf(SC(d).streams[s].att) + 1

Over(d, s) == [d EXCEPT !.st[s].st = "over"]
Next1(d, s) == [d EXCEPT !.st[s].pos = @ + 1]

stopCachingStream(d, s) == [d EXCEPT !.st[s].caching = FALSE, !.st[s].interest = FALSE]

(* Recorder::beginSubgroup.                                                *)
afterLeg(l, s, cached) ==
    LET x == SC(l.d).streams[s]
    IN  IF l.ok
        THEN Next1([l.d EXCEPT !.st[s].st = "open", !.st[s].leg = TRUE, !.st[s].caching = cached,
                               !.st[s].interest = cached], s)
        ELSE Over(IF cached THEN [l.d EXCEPT !.c = endSubgroup(@, x.g, x.sg, FALSE).c] ELSE l.d, s)

afterOpen(d, s, o) ==
    afterLeg(beginLeg([d EXCEPT !.c = o.c], TidOf(SC(d).streams[s].att), s, o.ok), s, o.ok)

beginSubgroup(d, s) ==
    LET x == SC(d).streams[s]
    IN  IF d.rec[x.att] = "disabled" THEN Over(d, s)
        ELSE afterOpen(d, s, IF Newest(d, s) THEN openSubgroup(d.c, x.g, x.sg, x.last)
                             ELSE [c |-> d.c, ok |-> FALSE])

Object(d, s) ==
    LET x == SC(d).streams[s]
        e == x.ev[d.st[s].pos]
    IN  [g |-> x.g, sg |-> x.sg, id |-> e.id, status |-> e.status, len |-> e.len, po |-> e.po,
         pg |-> e.pg, dg |-> e.op = "datagram", src |-> x.att]

(* abandoned(): the first callback after the attempt was disabled ends the *)
(* leg.                                                                    *)
abandoned(d, s) ==
    LET e == stopCachingStream(d, s)
        f == [closeLeg(e, TidOf(SC(d).streams[s].att), s) EXCEPT !.st[s].leg = FALSE]
    IN  IF d.st[s].leg THEN Over(f, s) ELSE Over(d, s)

(* record() for what the event puts in the cache: the cache's answer.      *)
RecordEvent(c, x, e, ob) ==
    CASE e.op = "object" -> subgroupObject(c, ob)
      [] e.op = "begin" -> beginObject(c, ob)
      [] e.op = "payload" -> objectPayload(c, x.g, x.sg)
      [] e.op = "reset" -> endSubgroup(c, x.g, x.sg, FALSE)
      [] OTHER -> Answer(c, "Recorded")

Ends(e) == e.op = "reset" \/ e.fin

(* record() and recordEnd(): the last object of a stream ends its subgroup. *)
RecordEnd(r, x, e) ==
    IF r.result # "Malformed" /\ e.op # "reset" /\ e.fin THEN endSubgroup(r.c, x.g, x.sg, TRUE) ELSE r

RecordBoth(d, s) ==
    LET x == SC(d).streams[s]
        e == x.ev[d.st[s].pos]
    IN  IF ~d.st[s].caching THEN Answer(d.c, "Recorded")
        ELSE IF ~Newest(d, s) THEN Answer(d.c, "NotCached")
        ELSE RecordEnd(RecordEvent(d.c, x, e, Object(d, s)), x, e)

record(d, s, r) ==
    LET e == [d EXCEPT !.c = r.c]
    IN  IF r.result = "Malformed" THEN stopCachingStream(e, s)
        ELSE IF r.result = "NotCached" /\ ~(Newest(d, s) /\ isCaching(r.c, SC(d).streams[s].g))
        THEN stopCachingStream(e, s)
        ELSE e

(* The session ends a stream whose consumer failed with a reset.           *)
resetAfterError(d, s) ==
    LET x == SC(d).streams[s]
        r == IF ~d.st[s].caching THEN Answer(d.c, "Recorded")
             ELSE IF Newest(d, s) THEN endSubgroup(d.c, x.g, x.sg, FALSE) ELSE Answer(d.c, "NotCached")
    IN  Over(closeLeg(record(d, s, r), TidOf(x.att), s), s)

(* One callback of the upstream stream.                                    *)
afterWrite(w, s, e) ==
    IF ~w.ok THEN IF e.fin THEN Over(w.d, s) ELSE resetAfterError(w.d, s)
    ELSE IF e.fin THEN Over(closeLeg(w.d, TidOf(SC(w.d).streams[s].att), s), s)
    ELSE Next1(w.d, s)

forward(d, s, malformed) ==
    LET x == SC(d).streams[s]
        tid == TidOf(x.att)
        e == x.ev[d.st[s].pos]
        named == e.op \in {"object", "begin"}
    IN  IF malformed \/ e.op = "reset" THEN Over(closeLeg(d, tid, s), s)
        ELSE afterWrite(writeLeg(IF named THEN updateLargest(d, tid, <<x.g, e.id>>) ELSE d, tid, s), s, e)

recordAndForward(d, s, r) == forward(record(d, s, r), s, r.result = "Malformed")

SubgroupEvent(d, s) ==
    IF d.rec[SC(d).streams[s].att] = "disabled" THEN abandoned(d, s)
    ELSE recordAndForward(d, s, RecordBoth(d, s))

(* Recorder::datagram and Recorder::objectStream.                          *)
datagramRecorded(d, s, r) ==
    LET x == SC(d).streams[s]
        e == [d EXCEPT !.c = r.c]
    IN  Over(IF r.result = "Malformed" THEN e ELSE updateLargest(e, TidOf(x.att), <<x.g, x.ev[1].id>>), s)

datagram(d, s) ==
    IF d.rec[SC(d).streams[s].att] = "disabled" THEN Over(d, s)
    ELSE datagramRecorded(d, s, IF Newest(d, s) THEN standaloneObject(d.c, Object(d, s))
                                ELSE Answer(d.c, "NotCached"))

(* Upstream data arrives once the session has seen SUBSCRIBE_OK, and may   *)
(* still arrive after the track has lost interest in it.                   *)
StreamStep(s) ==
    LET x == SC(px).streams[s]
        isDatagram == x.ev[1].op = "datagram"
    IN  /\ px.st[s].st \in {"none", "open"}
        /\ px.up[x.att] \in {"ok", "unsub", "dropped", "ended"}
        /\ px' = IF isDatagram THEN datagram(px, s)
                 ELSE IF px.st[s].st = "none" THEN beginSubgroup([px EXCEPT !.st[s].pos = 0], s)
                 ELSE SubgroupEvent(px, s)

(* A viewer's consumer fails a write and the forwarder removes it.         *)
ConsumerFails(v, tid) ==
    /\ May(px, "fail")
    /\ v \in Ids(px.trk[tid].subs)
    /\ px.trk[tid].subs[v].open # {}
    /\ px' = removeSubscribers(px, tid, {v})

(* PUBLISH_DONE from upstream. A lost upstream is only counted.            *)
UpstreamDone(a) ==
    LET tid == TidOf(a)
        d == [px EXCEPT !.up[a] = "ended"]
    IN  /\ May(px, "done")
        /\ px.up[a] = "ok"
        /\ px' = IF px.rec[a] = "disabled" THEN d ELSE forwarderPublishDone(d, tid)

-----------------------------------------------------------------------------
(* Viewers and the establishment of the upstream subscription.             *)

addSubscriber(d, tid, v) ==
    LET t == d.trk[tid]
    IN  IF t.draining \/ v \in Ids(t.subs) THEN [d |-> d, ok |-> FALSE]
        ELSE [d |-> [d EXCEPT !.trk[tid].subs = @ @@ (v :> [open |-> {}, done |-> FALSE,
                                                              saved |-> t.largest])],
              ok |-> TRUE]

Viewer(d, v, st) == [d EXCEPT !.viewer[v].st = st]

getOrCreateTrack(d) ==
    IF d.map # 0 THEN d
    ELSE [d EXCEPT !.map = d.next, !.next = @ + 1,
                   !.c = [NewCache EXCEPT !.used = d.c.used, !.plans = d.c.plans,
                                          !.woken = d.c.woken]]

(* The rest of MoQProxyTrack::subscribe for a track that is not IDLE.      *)
subscribeTo(d, tid, v) ==
    LET t == d.trk[tid]
        a == addSubscriber(d, tid, v)
    IN  IF t.failure \/ t.state # "READY" \/ ~a.ok THEN Viewer(d, v, "refused")
        ELSE Viewer(a.d, v, "subscribed")

(* MoQProxy::subscribe up to its first suspension.                         *)
Subscribe(v) ==
    LET d == getOrCreateTrack(px)
        e == [d EXCEPT !.viewer[v].tid = d.map]
        f == [e EXCEPT !.trk[d.map].state = "CONNECTING", !.trk[d.map].first = v,
                       !.trk[d.map].att = FirstAttempt(d.map), !.trk[d.map].phase = "session"]
    IN  /\ px.viewer[v].st \in {"idle"}
        /\ px.map # 0 \/ px.next \in Tids \/ px.closed
        /\ px' = IF px.closed THEN Viewer(px, v, "refused")
                 ELSE IF d.trk[d.map].state = "IDLE"
                 THEN Viewer(addSubscriber(f, d.map, v).d, v, "first")
                 ELSE IF d.trk[d.map].state = "CONNECTING" THEN Viewer(e, v, "waiting")
                 ELSE subscribeTo(e, d.map, v)

(* upstreamSubscriptionReadyPromise_ resumes the others.                   *)
ResumeWaiting(v) ==
    /\ px.viewer[v].st = "waiting"
    /\ px.trk[px.viewer[v].tid].resolved
    /\ px' = subscribeTo(px, px.viewer[v].tid, v)

(* handleFirstSubscription after establishUpstream failed.                 *)
establishFailed(d, tid) ==
    LET e == completeUpstreamEstablishment([d EXCEPT !.trk[tid].phase = "none"], tid, TRUE)
    IN  Viewer(removeSubscribers(e, tid, {e.trk[tid].first}), e.trk[tid].first, "refused")

(* One provider failed: the next one, unless the track stopped waiting.    *)
providerFailed(d, tid) ==
    LET t == d.trk[tid]
    IN  IF t.cancelled \/ t.att # FirstAttempt(tid) THEN establishFailed(d, tid)
        ELSE [d EXCEPT !.trk[tid].att = @ + 1, !.trk[tid].phase = "session"]

(* getSession resumes establishWithProvider; the watch is set before the   *)
(* SUBSCRIBE.                                                              *)
SessionReady(tid) ==
    LET t == px.trk[tid]
        d == [px EXCEPT !.trk[tid].phase = "asked", !.rec[t.att] = "active", !.up[t.att] = "asked"]
    IN  /\ t.phase = "session"
        /\ \/ px' = IF t.cancelled THEN providerFailed(px, tid) ELSE d
           \/ /\ May(px, "unavailable")
              /\ px' = providerFailed(px, tid)

(* The upstream session processes the answer to the SUBSCRIBE.             *)
UpstreamAnswers(tid) ==
    LET t == px.trk[tid]
    IN  /\ t.phase = "asked"
        /\ px.up[t.att] = "asked"
        /\ \/ px' = [px EXCEPT !.up[t.att] = "ok"]
           \/ /\ May(px, "refuse")
              /\ px' = [px EXCEPT !.up[t.att] = "refused"]

abandonAttempt(d, a) ==
    LET e == disable(d, a)
    IN  IF d.next = TidOf(a) + 1 THEN [e EXCEPT !.c = clear(@)] ELSE e

(* A handle that is not used is unsubscribed.                              *)
dropHandle(d, a) == [d EXCEPT !.up[a] = IF @ = "ok" THEN "unsub" ELSE @]

adoptFirstUpstream(d, tid) ==
    LET a == d.trk[tid].att
        e == IF SC(d).largest = None THEN d ELSE updateLargest(d, tid, SC(d).largest)
    IN  [e EXCEPT !.trk[tid].handle = TRUE, !.trk[tid].session = TRUE, !.trk[tid].watch = TRUE,
                  !.trk[tid].recorder = a]

(* anchorTo: the first viewer's Joining Location is the upstream Largest.  *)
anchorTo(d, tid) ==
    LET v == d.trk[tid].first
    IN  IF v \notin Ids(d.trk[tid].subs) \/ SC(d).largest = None THEN d
        ELSE [d EXCEPT !.trk[tid].subs[v].saved = SC(d).largest]

(* The SUBSCRIBE's answer resumes establishWithProvider.                   *)
SubscribeResumed(tid) ==
    LET t == px.trk[tid]
        d == anchorTo(adoptFirstUpstream([px EXCEPT !.trk[tid].phase = "none"], tid), tid)
        e == completeUpstreamEstablishment([d EXCEPT !.trk[tid].state = "READY"], tid, FALSE)
        ok == px.up[t.att] \in {"ok", "ended"}
    IN  /\ t.phase = "asked"
        /\ px.up[t.att] # "asked"
        /\ \/ px' = IF t.cancelled THEN providerFailed(abandonAttempt(dropHandle(px, t.att), t.att), tid)
                    ELSE IF ok THEN Viewer(e, t.first, "subscribed")
                    ELSE providerFailed(abandonAttempt(px, t.att), tid)
           \/ \* the awaited subscribe throws, or returns no usable handle
              /\ May(px, "throw") /\ ~t.cancelled
              /\ px' = providerFailed(abandonAttempt([px EXCEPT !.up[t.att] = "dropped"], t.att), tid)

(* unsubscribe() of the handle a viewer was given.                         *)
Unsubscribe(v) ==
    /\ May(px, "leave")
    /\ px.viewer[v].st = "subscribed"
    /\ px' = removeSubscribers(Viewer(px, v, "gone"), px.viewer[v].tid, {v})

-----------------------------------------------------------------------------
(* MoQProxyTrack::close and MoQProxy::close.                               *)

closeTrack(d, tid) ==
    LET e == IF Is(d, tid, "state", "CONNECTING") THEN completeUpstreamEstablishment(d, tid, TRUE) ELSE d
        f == [e EXCEPT !.trk[tid].state = "DRAINING", !.trk[tid].cancelled = TRUE]
        g == releaseUpstream(stopCaching(f, tid), tid)
    IN  IF Is(d, tid, "state", "CLOSED") THEN d
        ELSE IF Ids(g.trk[tid].subs) = {}
        THEN notifyNoSubscribers([g EXCEPT !.trk[tid].state = "CLOSED"], tid)
        ELSE IF g.trk[tid].viewersEnded THEN g
        ELSE forwarderPublishDone([g EXCEPT !.trk[tid].viewersEnded = TRUE], tid)

Close ==
    /\ May(px, "close") /\ ~px.closed
    /\ px' = LET d == [px EXCEPT !.closed = TRUE, !.map = 0]
             IN  IF px.map = 0 THEN d ELSE closeTrack(d, px.map)

-----------------------------------------------------------------------------
(* Joining FETCH.                                                          *)

Join(d, j, st) == [d EXCEPT !.join[j].st = st]

(* resolveJoiningFetch: from its start through the saved Joining Location. *)
resolveJoiningFetch(saved, req) ==
    LET startGroup == IF req.kind = "absolute" THEN req.start
                      ELSE IF req.start > saved[1] THEN 0 ELSE saved[1] - req.start
    IN  [start |-> <<startGroup, 0>>, end |-> <<saved[1], saved[2] + 1>>,
         ok |-> saved # None /\ ~(req.kind = "absolute" /\ Lt(saved, <<req.start, 0>>))]

(* History comes from the established upstream only.                       *)
upstreamJoiningFetch(d, j) ==
    IF d.trk[d.join[j].tid].session THEN Join(d, j, "upstream") ELSE Join(d, j, "refused")

CacheOf(d, j) == IF d.next = d.join[j].tid + 1 THEN d.c ELSE [d.c EXCEPT !.down = TRUE]
Coverage(d, j) == inspect(CacheOf(d, j), d.join[j].start, d.join[j].end)

(* What the coverage found, at once or after the wait, leads to.           *)
replayJoin(d, j, s) ==
    IF s.ok THEN [Join([d EXCEPT !.c = s.c], j, "replay") EXCEPT !.join[j].eot = s.c.plans[j].eot]
    ELSE upstreamJoiningFetch(d, j)

serveJoin(d, j, cov) ==
    LET x == d.join[j]
    IN  IF cov = "Ready"
        THEN replayJoin(d, j, snapshot(CacheOf(d, j), j, x.start, x.end, SC(d).joins[j].order))
        ELSE upstreamJoiningFetch(d, j)

(* MoQProxy::joiningFetch up to its first suspension.                      *)
FetchJoining(j) ==
    LET req == SC(px).joins[j]
        t == px.trk[px.map]
        range == resolveJoiningFetch(t.subs[req.v].saved, req)
        d == [px EXCEPT !.join[j].tid = px.map, !.join[j].start = range.start,
                        !.join[j].end = range.end]
        cov == Coverage(d, j)
    IN  /\ req.v # "" /\ px.join[j].st = "idle"
        /\ px.viewer[req.v].st = "subscribed"
        /\ px' = IF px.closed \/ px.map = 0 THEN Join(px, j, "refused")
                 ELSE IF req.v \notin Ids(t.subs) THEN Join(px, j, "refused")
                 ELSE IF ~range.ok THEN Join(px, j, "refused")
                 ELSE IF cov = "AwaitIngress"
                 THEN [Join(d, j, "waiting") EXCEPT !.c = addWaiter(@, j), !.join[j].waited = TRUE]
                 ELSE serveJoin(d, j, cov)

Unpark(d, j) == [d EXCEPT !.c = removeWaiter(@, j)]

(* waitForCoverage is signalled.                                           *)
Wake(j) ==
    LET d == Unpark(px, j)
        cov == Coverage(d, j)
    IN  /\ px.join[j].st = "waiting"
        /\ j \in px.c.woken
        /\ px' = IF px.closed THEN Join(d, j, "refused")
                 ELSE IF cov = "AwaitIngress" THEN [d EXCEPT !.c = addWaiter(@, j)]
                 ELSE serveJoin(d, j, cov)

(* cacheCompletionWait expires, or the wait is cancelled.                  *)
WaitExpires(j) ==
    LET d == Unpark(px, j)
    IN  /\ px.join[j].st = "waiting"
        /\ px' = IF px.closed THEN Join(d, j, "refused") ELSE serveJoin(d, j, Coverage(d, j))

CancelJoin(j) ==
    /\ May(px, "cancel")
    /\ px.join[j].st \in {"waiting", "upstream"}
    /\ px' = Join(Unpark(px, j), j, "refused")

UpstreamFetchAnswers(j) ==
    /\ px.join[j].st = "upstream"
    /\ \E st \in {"fetched", "refused"} : px' = Join(px, j, st)

finishReplay(d, j, st) == Join([d EXCEPT !.c = releasePlan(@, j)], j, st)

(* An END_OF_TRACK that is not the last entry is passed over.              *)
nextEntry(d, j) ==
    LET plan == d.c.plans[j]
        ob == Head(plan.entries)
        skip == ob.status = "END_OF_TRACK" /\ Len(plan.entries) > 1
        e == [d EXCEPT !.c = releaseEntry(@, j)]
    IN  IF skip THEN e ELSE [e EXCEPT !.join[j].got = Append(@, <<ob.g, ob.id>>)]

EndsTrack(d, j) ==
    /\ Len(d.c.plans[j].entries) = 1
    /\ Head(d.c.plans[j].entries).status = "END_OF_TRACK"

(* runReplay, one write at a time: the consumer is waited for before each, *)
(* may never become ready, may refuse, and may have cancelled.             *)
ReplayWrite(j) ==
    /\ px.join[j].st = "replay"
    /\ \/ px' = IF px.closed THEN finishReplay(px, j, "reset")
                ELSE IF px.c.plans[j].entries = <<>> THEN finishReplay(px, j, "served")
                ELSE IF EndsTrack(px, j) THEN finishReplay(nextEntry(px, j), j, "served")
                ELSE nextEntry(px, j)
       \/ /\ May(px, "stall")
          /\ px' = finishReplay(px, j, "reset")

-----------------------------------------------------------------------------
Next ==
    \/ \E s \in Streams : StreamStep(s)
    \/ \E a \in Attempts : UpstreamDone(a)
    \/ \E tid \in Tids : SessionReady(tid) \/ UpstreamAnswers(tid) \/ SubscribeResumed(tid)
    \/ \E v \in Viewers, tid \in Tids : ConsumerFails(v, tid)
    \/ \E v \in Viewers : Subscribe(v) \/ ResumeWaiting(v) \/ Unsubscribe(v)
    \/ Close
    \/ \E j \in Joins : \/ FetchJoining(j) \/ Wake(j) \/ WaitExpires(j) \/ CancelJoin(j)
                        \/ UpstreamFetchAnswers(j) \/ ReplayWrite(j)

Spec == Init /\ [][Next]_px

-----------------------------------------------------------------------------
States == {"IDLE", "CONNECTING", "READY", "DRAINING", "CLOSED"}

TypeOK ==
    /\ px.map \in {0} \cup Tids
    /\ \A tid \in Tids : /\ px.trk[tid].state \in States
                         /\ px.trk[tid].legs \subseteq Streams
                         /\ Ids(px.trk[tid].subs) \subseteq Viewers
    /\ px.c.used \in 0..Capacity
    /\ px.c.parked \cup px.c.woken \subseteq Joins
    /\ \A v \in Viewers : px.told[v] \in 0..2

(* What a FETCH of the range owes: the track's objects in it, groups in    *)
(* the asked order, END_OF_TRACK only as the last one.                     *)
Before(order, x, y) ==
    IF x.g # y.g THEN (x.g < y.g) = (order = "OldestFirst") ELSE x.id < y.id
Owed(j) ==
    LET x == px.join[j]
        objs == {o \in SC(px).track : ~Lt(<<o.g, o.id>>, x.start) /\ Lt(<<o.g, o.id>>, x.end)}
        sorted == SetToSortSeq(objs, LAMBDA a, b : Before(SC(px).joins[j].order, a, b))
        final == IF sorted = <<>> THEN sorted
                 ELSE SelectSeq(sorted, LAMBDA o : o.status # "END_OF_TRACK" \/ o = Last(sorted))
    IN  [i \in DOMAIN final |-> <<final[i].g, final[i].id>>]

(* A joining FETCH served from the group cache delivers exactly what the   *)
(* upstream published in its range, whatever was evicted, superseded or    *)
(* still arriving while it was replayed (inspect, snapshot, runReplay).    *)
ReplayFaithful ==
    \A j \in Joins : px.join[j].st = "served" /\ SC(px).honest => px.join[j].got = Owed(j)

(* Everything the budget has lent is held by a cached group, a cached or   *)
(* partial object, or a replay still running, an object shared by the      *)
(* cache and several replays only once; and it never lends more than it    *)
(* has (MoQCacheBudget and its Reservations).                              *)
BudgetExact ==
    LET c == px.c
        groups == Ids(c.groups)
        running == {j \in Joins : c.plans[j].held}
    IN  /\ c.used = groupMetadataChargeBytes * Cardinality(groups)
                    + Charges(InCache(c) \cup InPlans(c, ""))
                    + MapThenSumSet(LAMBDA i : PartialCharges(c.groups[i]), groups)
                    + MapThenSumSet(LAMBDA j : c.plans[j].charge, running)
        /\ \A j \in running : px.join[j].st = "replay"

(* The cache holds data of the live upstream attempt only: an abandoned    *)
(* attempt's objects went with it and its late callbacks add none, also    *)
(* not to the cache of a later instance of the track (Recorder::disable).  *)
OneGeneration ==
    \A ob \in InCache(px.c) : px.rec[ob.src] = "active" /\ TidOf(ob.src) = px.next - 1

(* No joining FETCH sleeps on data that is all there: every change that    *)
(* completes a range wakes the waiters (notifyWaiters).                    *)
NoReadyWaiter ==
    \A j \in Joins : px.join[j].st = "waiting" /\ j \notin px.c.woken => Coverage(px, j) # "Ready"

(* A subgroup the cache waits for has a stream that can still deliver it:  *)
(* whatever ends the stream, a refusing forwarder included, is recorded    *)
(* (recordEnd, Recorder::beginSubgroup).                                   *)
OpenHasStream ==
    \A i \in Ids(px.c.groups) : \A sg \in Ids(px.c.groups[i].subs) :
        px.c.groups[i].subs[sg].open =>
            \E s \in Streams : /\ px.st[s].st = "open" /\ px.st[s].caching
                               /\ SC(px).streams[s].g = i /\ SC(px).streams[s].sg = sg

(* waitForCoverage returns "as soon as the cache knows" that what is       *)
(* missing will not come: a parked FETCH still has something to wait for.  *)
ParkedStillWaits ==
    \A j \in Joins : px.join[j].st = "waiting" /\ j \notin px.c.woken => Coverage(px, j) = "AwaitIngress"

(* A viewer whose subscription was accepted is told of its end once,       *)
(* whichever of the upstream's PUBLISH_DONE and close() comes first        *)
(* (viewersEnded_).                                                        *)
EndToldOnce ==
    \A v \in Viewers : px.viewer[v].st \in {"subscribed", "gone"} => px.told[v] <= 1

(* "another publishDone would send it to them again": the same for every   *)
(* viewer, the one whose SUBSCRIBE is still unanswered included.           *)
NoViewerToldTwice == \A v \in Viewers : px.told[v] <= 1

(* The proxy never hands a new subscriber to a track instance that has     *)
(* ended, and has none once closed (onNoSubscribers, MoQProxy::close).     *)
TrackMapLive ==
    px.map # 0 => ~px.closed /\ px.trk[px.map].state # "CLOSED"

(* No viewer waits for an upstream nobody is establishing: on each way out *)
(* of CONNECTING the promise is fulfilled                                  *)
(* (completeUpstreamEstablishment).                                        *)
WaitersReleased ==
    \A v \in Viewers : px.viewer[v].st = "waiting" =>
        LET t == px.trk[px.viewer[v].tid]
        IN  t.resolved \/ (t.state = "CONNECTING" /\ t.phase # "none")

(* An upstream that accepted a SUBSCRIBE is in use, about to be, or was    *)
(* told; and an instance that ended keeps nothing of its upstream.         *)
UpstreamReleased ==
    /\ \A a \in Attempts : px.up[a] = "ok" =>
          LET t == px.trk[TidOf(a)]
          IN  t.att = a /\ (t.handle \/ t.phase = "asked")
    /\ \A tid \in Tids : px.trk[tid].state = "CLOSED" =>
          LET t == px.trk[tid]
          IN  ~t.handle /\ ~t.watch /\ ~t.session /\ t.recorder = 0

(* A publisher that keeps its word, with one stream at a time for each     *)
(* subgroup, is never found to contradict itself: a group stops being      *)
(* cached for that reason only when it lied (validateObject, setEnd,       *)
(* addObjectGap, markGroupsNonexistent).                                   *)
HonestAccepted ==
    SC(px).honest /\ ~SC(px).replaces =>
        \A i \in Ids(px.c.groups) : px.c.groups[i].off => i \in px.c.nonexist

(* Viewers get what one upstream published, and an honest upstream's data  *)
(* stays cached.                                                           *)
ProxyServes == ReplayFaithful /\ OneGeneration /\ HonestAccepted

(* Budgets, waits, viewers and upstreams are released by whoever is last.  *)
ProxyReleases ==
  /\ BudgetExact /\ NoReadyWaiter /\ OpenHasStream /\ EndToldOnce
  /\ TrackMapLive /\ WaitersReleased /\ UpstreamReleased
=============================================================================
