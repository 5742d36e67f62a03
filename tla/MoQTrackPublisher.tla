------------------------- MODULE MoQTrackPublisher -------------------------
(***************************************************************************)
(* The publishing side of one subscription in MoQSession.cpp:              *)
(* TrackPublisherImpl, the StreamPublisherImpls it opens for subgroups and *)
(* fills, the FETCH publishers beside it, and the part of MoQSession that  *)
(* retires them (sendPublishDone, publisherDrained, fetchComplete).        *)
(*                                                                         *)
(* One handler calls many others before it returns (a write can overflow   *)
(* the buffer limit, which terminates the subscription, which resets every *)
(* stream, which drains the publisher), so the state is one record that    *)
(* each C++ function maps to the next record.                              *)
(*                                                                         *)
(* Data: a stream header, an object written whole, and each half of an     *)
(* object written in two parts count one byte.  Only byte counts and       *)
(* offsets are kept of what is written.                                    *)
(***************************************************************************)
EXTENDS Integers, Sequences, FiniteSets, FiniteSetsExt, SequencesExt

CONSTANTS
  Subgroups,    \* subgroup streams the application may open, each once
  Fills,        \* fill ranges the subscriber asked for
  Fetches,      \* FETCH requests served by the same session
  MaxObject,    \* object ids are 1 .. MaxObject; 0 is "none yet"
  Threshold,    \* bytesBufferedThreshold_ of a subscription; 0 is "no limit"
  MaxPending,   \* moqSettings_.maxPendingUniStreams
  ErrorCodes,   \* RequestErrorCode values an update can fail with
  Scenarios,    \* what may happen: sets of streams and of events, one chosen
  None

VARIABLE pub

Streams == Subgroups \cup Fills \cup Fetches
Owners == {"track"} \cup Fills \cup Fetches

(* The PublisherImpl whose bytesBuffered_ a stream charges. *)
Owner(s) == IF s \in Subgroups THEN "track" ELSE s

NoStream ==
  [exists |-> FALSE, handle |-> FALSE, waiting |-> FALSE, ready |-> "none",
   complete |-> FALSE, pendingFin |-> FALSE, pendingReset |-> FALSE,
   buf |-> 0, held |-> 0, written |-> 0, settled |-> 0, produced |-> 0,
   id |-> 0, open |-> FALSE, deliveries |-> <<>>, timers |-> {},
   events |-> <<>>, onWire |-> "no", broken |-> FALSE, rejected |-> FALSE,
   finSaid |-> FALSE]

TypeOK ==
  /\ pub.session \in BOOLEAN /\ pub.wt \in BOOLEAN /\ pub.registered \in BOOLEAN
  /\ pub.state \in {"PENDING", "ESTABLISHED", "DONE"}
  /\ pub.handle \in {"none", "set", "gone"}
  /\ pub.streamCount \in Nat /\ pub.credit \in {0, 1}
  /\ pub.subgroups \subseteq Subgroups /\ pub.fills \subseteq Fills
  /\ pub.requestedFills \subseteq Fills /\ pub.fetches \subseteq Fetches
  /\ pub.buffered \in [Owners -> Nat]
  /\ \A s \in Streams :
       /\ pub.str[s].ready \in {"none", "pending", "ok", "failed"}
       /\ pub.str[s].onWire \in {"no", "open", "fin", "reset"}
       /\ pub.str[s].timers \subseteq 1 .. MaxObject

(* The events a scenario may leave out. *)
Events == {"goaway", "forward", "break", "update", "parts", "timeout", "refuse", "misuse",
           "ends", "late"}

May(e) == e \in pub.scenario

Init ==
  \E sc \in Scenarios :
  pub = [scenario |-> sc, session |-> TRUE, wt |-> TRUE, registered |-> TRUE, state |-> "PENDING",
         handle |-> "none", forward |-> TRUE, heldPublishDone |-> None,
         streamCount |-> 0, sent |-> None, retired |-> [o \in Owners |-> 0],
         goaway |-> "no", subgroups |-> {}, fills |-> {}, requestedFills |-> Fills \cap sc,
         fetches |-> Fetches \cap sc, buffered |-> [o \in Owners |-> 0],
         credit |-> IF "late" \in sc THEN 0 ELSE 1,
         opened |-> 0, str |-> [s \in Streams |-> NoStream]]

-----------------------------------------------------------------------------
(* Session bookkeeping *)

waitingStreams(p) == {s \in Streams : p.str[s].waiting}
hasWaitingSubgroups(p) == \E s \in p.subgroups : p.str[s].waiting
hasOpenDataStreams(p) == p.subgroups # {} \/ p.fills # {}
publishEnded(p) == p.state = "DONE" \/ p.heldPublishDone # None

retireRequestID(p, o) == [p EXCEPT !.retired[o] = @ + 1]

(* Erases the entry and clears the publisher's session_, with its timer. *)
publisherDrained(p) ==
  IF p.registered
  THEN [p EXCEPT !.registered = FALSE, !.session = FALSE,
                 !.goaway = IF @ = "armed" THEN "cancelled" ELSE @]
  ELSE p

sendPublishDone(p, code, count) ==
  IF ~p.registered THEN p
  ELSE LET q == retireRequestID(
                  [p EXCEPT !.state = "DONE", !.sent = [code |-> code, count |-> count],
                            !.goaway = IF @ = "armed" THEN "cancelled" ELSE @], "track")
       IN IF hasOpenDataStreams(q) THEN q ELSE publisherDrained(q)

(* Mutant: PUBLISH_DONE does not wait for the subgroups that wait. *)
maybeSendHeldPublishDone_NoWait(p) ==
  IF p.heldPublishDone = None \/ ~p.session \/ p.handle # "set"
  THEN p
  ELSE sendPublishDone([p EXCEPT !.heldPublishDone = None, !.handle = "gone"],
                       p.heldPublishDone, p.streamCount)

(* PUBLISH_DONE goes out after SUBSCRIBE_OK, once no subgroup waits. *)
maybeSendHeldPublishDone(p) ==
  IF \/ p.heldPublishDone = None \/ ~p.session \/ p.handle # "set"
     \/ hasWaitingSubgroups(p)
  THEN p
  ELSE sendPublishDone([p EXCEPT !.heldPublishDone = None, !.handle = "gone"],
                       p.heldPublishDone, p.streamCount)

maybeDrain(p) ==
  IF p.session /\ p.state = "DONE" /\ ~hasOpenDataStreams(p)
  THEN publisherDrained(p) ELSE p

-----------------------------------------------------------------------------
(* StreamPublisherImpl *)

(* onStreamComplete of the stream and of its publisher: a subgroup leaves  *)
(* the track, a fill leaves its subscription, a FETCH is erased and        *)
(* retired.                                                                *)
onStreamComplete(p, s) ==
  LET q == [p EXCEPT !.str[s].complete = TRUE]
  IN CASE s \in Subgroups ->
            maybeDrain(maybeSendHeldPublishDone([q EXCEPT !.subgroups = @ \ {s}]))
       [] s \in Fills -> maybeDrain([q EXCEPT !.fills = @ \ {s}])
       [] OTHER -> IF s \in q.fetches
                   THEN retireRequestID([q EXCEPT !.fetches = @ \ {s}], s) ELSE q

(* setWriteHandle, and TrackPublisherImpl::onStreamCreated for a subgroup. *)
setWriteHandle(p, s) ==
  LET q == [p EXCEPT !.str[s].handle = TRUE, !.str[s].onWire = "open", !.credit = 0]
  IN IF s \in Subgroups
     THEN maybeSendHeldPublishDone([q EXCEPT !.streamCount = @ + 1, !.opened = @ + 1])
     ELSE q

cancelStreamRequest(p, s) ==
  [p EXCEPT !.str[s].waiting = FALSE,
            !.str[s].ready = IF p.str[s].waiting /\ @ = "pending" THEN "failed" ELSE @]

(* Mutant: a FETCH may take the credit while others wait for it. *)
ensureWriteHandle_Jumps(p, s) ==
  IF p.str[s].handle \/ p.str[s].waiting THEN p
  ELSE IF p.credit > 0
       THEN setWriteHandle(p, s)
       ELSE [p EXCEPT !.str[s].waiting = TRUE, !.str[s].ready = "none"]

(* Streams already waiting for credit go first. *)
ensureWriteHandle(p, s) ==
  IF p.str[s].handle \/ p.str[s].waiting THEN p
  ELSE IF waitingStreams(p) = {} /\ p.credit > 0
       THEN setWriteHandle(p, s)
       ELSE [p EXCEPT !.str[s].waiting = TRUE, !.str[s].ready = "none"]

(* The early returns of ensureWriteHandle(): the write is refused. *)
writeRefused(p, s) ==
  LET r == p.str[s]
  IN /\ ~r.handle
     /\ \/ r.complete \/ r.pendingReset \/ r.pendingFin
        \/ ~p.wt \/ (s \in Subgroups /\ ~p.session)

(* Mutant: every event returns all bytes below it again. *)
onByteEventCommon_Twice(p, s, offset) ==
  [p EXCEPT !.buffered[Owner(s)] = @ - Min({offset + 1, p.str[s].written}),
            !.str[s].settled = Min({offset + 1, p.str[s].written})]

(* onByteEventCommon: bytes leave the buffer up to the highest offset      *)
(* reported so far; the FIN has an offset of its own that was not buffered. *)
onByteEventCommon(p, s, offset) ==
  LET upTo == Max({p.str[s].settled, Min({offset + 1, p.str[s].written})})
  IN [p EXCEPT !.buffered[Owner(s)] = @ - (upTo - p.str[s].settled),
               !.str[s].settled = upTo]

deliveredIds(ds) == {ds[i].id : i \in DOMAIN ds}

(* cancelDeliveriesFrom: from the back, every object that ends there or later. *)
cancelDeliveriesFrom(p, s, offset) ==
  LET gone == SelectSeq(p.str[s].deliveries, LAMBDA d : d.end >= offset)
  IN [p EXCEPT !.str[s].deliveries = SelectSeq(@, LAMBDA d : d.end < offset),
               !.str[s].timers = @ \ deliveredIds(gone)]

(* Mutant: held bytes stay counted when the stream never opened. *)
dropStream_KeepsHeld(p, s) ==
  LET r == p.str[s]
      q == IF r.handle
           THEN [p EXCEPT !.str[s].handle = FALSE, !.str[s].onWire = "reset"]
           ELSE IF r.written = 0
           THEN [cancelDeliveriesFrom(p, s, 0) EXCEPT !.str[s].buf = 0, !.str[s].held = 0]
           ELSE p
  IN onStreamComplete(q, s)

(* The end of reset(): the transport stream is reset, or what never        *)
(* reached the transport is cancelled and given back.                      *)
dropStream(p, s) ==
  LET r == p.str[s]
      q == IF r.handle
           THEN [p EXCEPT !.str[s].handle = FALSE, !.str[s].onWire = "reset"]
           ELSE IF r.written = 0
           THEN [cancelDeliveriesFrom(p, s, 0)
                   EXCEPT !.buffered[Owner(s)] = @ - r.held,
                          !.str[s].buf = 0, !.str[s].held = 0]
           ELSE p
  IN onStreamComplete(q, s)

(* The fill's FETCH_HEADER (and what was held with it) goes out before the reset. *)
writeFillHeader(p, s) ==
  LET r == p.str[s]
  IN [p EXCEPT !.buffered[s] = @ + (r.buf - r.held),
               !.str[s].buf = 0, !.str[s].held = 0, !.str[s].written = @ + r.buf,
               !.str[s].events = Append(@, r.written + r.buf - 1)]

reset(p, s) ==
  IF p.str[s].complete \/ ~p.str[s].exists THEN p
  ELSE LET q == [cancelStreamRequest(p, s) EXCEPT !.str[s].timers = {},
                                                  !.str[s].pendingFin = FALSE]
       IN IF s \in Fills /\ ~q.str[s].handle /\ ~writeRefused(q, s)
          THEN LET e == ensureWriteHandle(q, s)
               IN IF e.str[s].waiting
                  THEN [e EXCEPT !.str[s].pendingReset = TRUE]
                  ELSE dropStream(writeFillHeader(e, s), s)
          ELSE dropStream(q, s)

resetWaitingSubgroups(p) ==
  FoldSet(LAMBDA s, q : reset(q, s), p, {s \in p.subgroups : p.str[s].waiting})

(* The fills are taken off the list before they are reset. *)
resetAllSubgroups(p) ==
  LET q == FoldSet(LAMBDA s, r : reset(r, s), p, p.subgroups)
  IN FoldSet(LAMBDA s, r : reset(r, s), [q EXCEPT !.fills = {}], q.fills)

(* MoQSession::subscribeError *)
subscribeError(p) ==
  LET q == IF p.registered THEN resetAllSubgroups(p) ELSE p
  IN publisherDrained(retireRequestID([q EXCEPT !.handle = "gone"], "track"))

terminatePublish(p, code, count) ==
  LET q == resetAllSubgroups([p EXCEPT !.heldPublishDone = None,
                                       !.goaway = IF @ = "armed" THEN "cancelled" ELSE @])
      r == [q EXCEPT !.session = FALSE, !.handle = "gone"]
  IN IF q.sent # None \/ ~q.session THEN r
     ELSE IF q.handle = "none" THEN subscribeError(r)
     ELSE sendPublishDone(r, code, count)

-----------------------------------------------------------------------------
(* Writing *)

canBufferBytes(p, n) == Threshold = 0 \/ p.buffered["track"] + n <= Threshold

(* A write with the stream's handle, after the bytes were counted. *)
transportWrite(p, s, fin) ==
  LET r == p.str[s]
      q == [p EXCEPT !.str[s].buf = 0, !.str[s].held = 0,
                     !.str[s].written = @ + r.buf,
                     !.str[s].handle = ~fin,
                     !.buffered[Owner(s)] = @ + (r.buf - r.held)]
      end == IF fin THEN q.str[s].written ELSE q.str[s].written - 1
  IN IF r.broken
     THEN reset(onByteEventCommon([q EXCEPT !.str[s].rejected = TRUE], s, q.str[s].written), s)
     ELSE LET w == [q EXCEPT !.str[s].events = Append(@, end),
                             !.str[s].onWire = IF fin THEN "fin" ELSE @]
          IN IF fin THEN onStreamComplete(w, s) ELSE w

writeToStream(p, s, fin, endObject) ==
  LET r == p.str[s]
      q == IF endObject
           THEN [p EXCEPT !.str[s].deliveries =
                            Append(@, [id |-> r.id, end |-> r.written + r.buf - 1])]
           ELSE p
  IN IF s \in Subgroups /\ ~canBufferBytes(p, r.buf - r.held)
     THEN terminatePublish(p, "TOO_FAR_BEHIND", p.streamCount)
     ELSE IF ~r.handle /\ ~r.waiting THEN p
     ELSE IF r.handle THEN transportWrite(q, s, fin)
     ELSE [q EXCEPT !.str[s].pendingFin = @ \/ fin, !.str[s].finSaid = @ \/ fin,
                    !.buffered[Owner(s)] = @ + (r.buf - r.held),
                    !.str[s].held = r.buf]

(* One more byte in writeBuf_. *)
append(p, s) == [p EXCEPT !.str[s].buf = @ + 1, !.str[s].produced = @ + 1]

mayForward(p, s) == s \notin Subgroups \/ p.forward

(* validatePublish: `misuse' is an object with extensions on a subgroup    *)
(* opened without them.                                                    *)
badPublish(p, s, id, misuse) ==
  misuse \/ p.str[s].open \/ (p.str[s].id # 0 /\ id <= p.str[s].id)

-----------------------------------------------------------------------------
(* Application calls on a stream it holds *)

(* A call on a stream that is over returns an error and changes nothing. *)
Holds(s) == pub.str[s].exists /\ ~pub.str[s].complete

(* object(): a whole object, perhaps the last of the stream. *)
object(s, id, fin, misuse) ==
  /\ Holds(s) /\ (misuse => s \in Subgroups /\ May("misuse"))
  /\ pub' = IF ~mayForward(pub, s) \/ badPublish(pub, s, id, misuse) THEN reset(pub, s)
            ELSE IF writeRefused(pub, s) THEN pub
            ELSE LET p == append(ensureWriteHandle(pub, s), s)
                 IN writeToStream([p EXCEPT !.str[s].id = id,
                                            !.str[s].timers = @ \cup {id}],
                                  s, fin, TRUE)

(* beginObject(): the first of the two parts of an object. *)
beginObject(s, id) ==
  /\ Holds(s) /\ May("parts")
  /\ pub' = IF ~mayForward(pub, s) \/ badPublish(pub, s, id, FALSE) THEN reset(pub, s)
            ELSE IF writeRefused(pub, s) THEN pub
            ELSE LET p == append(ensureWriteHandle(pub, s), s)
                 IN writeToStream([p EXCEPT !.str[s].id = id, !.str[s].open = TRUE,
                                            !.str[s].timers = @ \cup {id}],
                                  s, FALSE, FALSE)

(* objectPayload() with the second part, or with more than is left. *)
objectPayload(s, fin, tooLong) ==
  /\ Holds(s)
  /\ LET r == pub.str[s]
     IN pub' = IF ~mayForward(pub, s) THEN reset(pub, s)
               ELSE IF ~r.handle /\ (~r.waiting \/ r.pendingFin \/ writeRefused(pub, s))
                    THEN pub
               ELSE IF ~r.open THEN pub
               ELSE IF tooLong THEN reset(pub, s)
               ELSE writeToStream([append(pub, s) EXCEPT !.str[s].open = FALSE],
                                  s, fin, TRUE)

(* endOfGroup() / endOfTrackAndGroup(): a status object that ends the      *)
(* stream.  A FETCH stream carries no status object, only its FIN, and     *)
(* may go on after the end of a group.                                     *)
publishStatus(s, id, fin) ==
  /\ Holds(s) /\ (s \in Subgroups => fin)
  /\ pub' = IF ~mayForward(pub, s) \/ badPublish(pub, s, id, FALSE) THEN reset(pub, s)
            ELSE IF writeRefused(pub, s) THEN pub
            ELSE LET p == ensureWriteHandle(pub, s)
                 IN IF s \in Subgroups
                    THEN writeToStream([append(p, s) EXCEPT !.str[s].id = id],
                                       s, TRUE, TRUE)
                    ELSE IF ~fin THEN [p EXCEPT !.str[s].id = id]
                    ELSE writeToStream([p EXCEPT !.str[s].id = id], s, TRUE, FALSE)

(* endOfSubgroup() and, for a FETCH or a fill, endOfFetch(). *)
endOfSubgroup(s) ==
  /\ Holds(s)
  /\ pub' = IF ~mayForward(pub, s) THEN reset(pub, s)
            ELSE IF s \notin Subgroups /\ writeRefused(pub, s) THEN pub
            ELSE LET p == IF s \in Subgroups THEN pub ELSE ensureWriteHandle(pub, s)
                 IN IF p.str[s].open THEN reset(p, s)
                    ELSE writeToStream(p, s, TRUE, FALSE)

appReset(s) ==
  /\ Holds(s)
  /\ pub' = reset(pub, s)

(* awaitReadyToConsume() while the stream waits: one readiness promise. *)
awaitReadyToConsume(s) ==
  /\ pub.str[s].waiting /\ pub.str[s].ready = "none" /\ ~pub.str[s].pendingReset
  /\ pub.wt
  /\ pub' = [pub EXCEPT !.str[s].ready = "pending"]

-----------------------------------------------------------------------------
(* Application calls on the track *)

newStream(p, s) == [p EXCEPT !.str[s] = [NoStream EXCEPT !.exists = TRUE, !.buf = 1,
                                                         !.produced = 1]]

(* beginSubgroup(): with credit the stream opens at once; otherwise it     *)
(* waits, unless too many streams wait already.                            *)
beginSubgroup(s) ==
  /\ s \in pub.scenario /\ ~pub.str[s].exists
  /\ pub.forward /\ pub.wt /\ pub.session /\ ~publishEnded(pub)
  /\ LET p == newStream(pub, s)
         direct == waitingStreams(pub) = {} /\ pub.credit > 0
     IN /\ direct \/ Cardinality(waitingStreams(pub)) < MaxPending
        /\ pub' = IF direct
                  THEN [setWriteHandle(p, s) EXCEPT !.subgroups = @ \cup {s}]
                  ELSE [p EXCEPT !.subgroups = @ \cup {s}, !.str[s].waiting = TRUE]

(* beginFill(): a paused or ended subscription opens no fill stream. *)
beginFill(s) ==
  /\ s \in pub.requestedFills
  /\ LET p == [pub EXCEPT !.requestedFills = @ \ {s}]
     IN pub' = IF ~pub.session \/ ~pub.forward \/ publishEnded(pub) THEN p
               ELSE maybeSendHeldPublishDone(
                      [newStream(p, s) EXCEPT !.fills = @ \cup {s},
                                              !.streamCount = @ + 1,
                                              !.opened = @ + 1])

(* onFetch's FetchPublisherImpl::initialize(): the stream opens with the first write. *)
beginFetch(s) ==
  /\ s \in pub.fetches /\ ~pub.str[s].exists /\ pub.wt
  /\ pub' = newStream(pub, s)

(* publishDone(): waiting subgroups still deliver after a graceful end. *)
publishDone(code) ==
  /\ May("ends") /\ ~publishEnded(pub) /\ pub.session
  /\ LET p == IF code = "TRACK_ENDED" THEN pub ELSE resetWaitingSubgroups(pub)
     IN pub' = maybeSendHeldPublishDone([p EXCEPT !.heldPublishDone = code])

(* SUBSCRIBE_OK went out: subscribeOkSent and setSubscriptionHandle. *)
setSubscriptionHandle ==
  /\ pub.registered /\ pub.session /\ pub.handle = "none"
  /\ pub' = maybeSendHeldPublishDone(
              [pub EXCEPT !.handle = "set",
                          !.state = IF @ = "PENDING" THEN "ESTABLISHED" ELSE @])

(* The subscribe handler refuses, perhaps after it opened subgroups. *)
rejectSubscribe ==
  /\ May("ends") /\ pub.registered /\ pub.handle = "none"
  /\ pub' = subscribeError(pub)

setForward(f) ==
  /\ May("forward") /\ pub.registered /\ pub.forward # f
  /\ pub' = [pub EXCEPT !.forward = f]

-----------------------------------------------------------------------------
(* The peer, the transport and the session *)

(* onUnsubscribe *)
unsubscribe ==
  /\ May("ends") /\ pub.registered
  /\ LET p == [resetAllSubgroups([pub EXCEPT !.goaway = IF @ = "armed" THEN "cancelled"
                                                         ELSE @])
                 EXCEPT !.handle = "gone"]
     IN pub' = IF p.sent # None THEN p
               ELSE publisherDrained(retireRequestID([p EXCEPT !.state = "DONE"], "track"))

(* A REQUEST_UPDATE failed: terminateExistingRequest ends the subscription.   *)
(* The third field of the PublishDone it builds, streamCount, is the error    *)
(* code of the failed update.                                                 *)
terminateExistingRequest(errorCode) ==
  /\ May("update") /\ pub.registered
  /\ pub' = terminatePublish(pub, "UPDATE_FAILED", errorCode)

(* requestStreamGoaway with a timeout. *)
requestStreamGoaway ==
  /\ May("goaway") /\ pub.registered /\ pub.goaway = "no"
  /\ pub' = [pub EXCEPT !.goaway = "armed"]

(* onGoawayResetTimerExpired and TrackPublisherImpl::resetForGoaway. *)
resetForGoaway ==
  /\ pub.goaway = "armed"
  /\ LET p == [pub EXCEPT !.goaway = "cancelled"]
         q == resetAllSubgroups(p)
     IN pub' = IF p.handle = "set"
               THEN terminatePublish(p, "GOING_AWAY", p.streamCount)
               ELSE IF ~q.session THEN q
               ELSE publisherDrained(
                      IF q.sent # None THEN [q EXCEPT !.session = FALSE]
                      ELSE retireRequestID([q EXCEPT !.state = "DONE", !.session = FALSE],
                                           "track"))

(* onFetchCancel *)
fetchCancel(s) ==
  /\ s \in pub.fetches /\ pub.str[s].exists
  /\ pub' = reset(pub, s)

(* cleanup(): the publishers leave pubTracks_ first and then reset their   *)
(* streams, whose publisher_ no longer reaches a transport; the queue then *)
(* fails the requests the resets left behind.                              *)
sessionClosed ==
  /\ pub.wt
  /\ LET p == [pub EXCEPT !.wt = FALSE, !.registered = FALSE, !.fetches = {},
                          !.handle = IF @ = "none" THEN @ ELSE "gone"]
         q == IF pub.registered
              THEN [resetAllSubgroups([p EXCEPT !.heldPublishDone = None, !.state = "DONE"])
                      EXCEPT !.session = FALSE,
                             !.goaway = IF @ = "armed" THEN "cancelled" ELSE @]
              ELSE p
         r == FoldSet(LAMBDA s, t : reset(t, s), q, {s \in pub.fetches : pub.str[s].exists})
     IN pub' = FoldSet(LAMBDA s, t : reset(cancelStreamRequest(t, s), s), r,
                       waitingStreams(r))

(* The peer's STOP_SENDING, or a delivery timeout: the same reset. *)
peerStops(s) ==
  /\ pub.str[s].handle
  /\ pub' = reset(pub, s)

deliveryTimeout(s) ==
  \E id \in pub.str[s].timers :
    /\ May("timeout")
    /\ pub' = IF pub.str[s].handle \/ pub.str[s].waiting THEN reset(pub, s)
              ELSE [pub EXCEPT !.str[s].timers = @ \ {id}]

creditArrives ==
  /\ pub.wt /\ pub.credit = 0
  /\ pub' = [pub EXCEPT !.credit = 1]

(* onStreamGranted: what was held is written, then a fill's reset. *)
onStreamGranted(s) ==
  /\ pub.str[s].waiting /\ pub.credit > 0 /\ pub.wt
  /\ LET p == setWriteHandle([pub EXCEPT !.str[s].waiting = FALSE], s)
         q == writeToStream([p EXCEPT !.str[s].pendingFin = FALSE], s,
                            pub.str[s].pendingFin, FALSE)
         wrote == q.str[s].written > pub.str[s].written /\ ~q.str[s].rejected
         r == [q EXCEPT !.str[s].ready =
                           IF @ # "pending" THEN @ ELSE IF wrote THEN "ok" ELSE "failed"]
     IN pub' = IF r.str[s].pendingReset THEN reset(r, s) ELSE r

(* The queue failed: onStreamGranted(nullptr). *)
streamRefused(s) ==
  /\ May("refuse") /\ pub.str[s].waiting /\ pub.wt
  /\ pub' = reset([cancelStreamRequest(pub, s) EXCEPT !.str[s].rejected = TRUE], s)

(* External: the transport will reject the next write on the stream. *)
breakStream(s) ==
  /\ May("break") /\ pub.str[s].handle /\ ~pub.str[s].broken
  /\ pub' = [pub EXCEPT !.str[s].broken = TRUE]

(* onByteEvent: the oldest write not yet reported is acknowledged. *)
onByteEvent(s) ==
  /\ pub.str[s].events # <<>>
  /\ LET offset == Head(pub.str[s].events)
         done == SelectSeq(pub.str[s].deliveries, LAMBDA d : d.end <= offset)
         p == [pub EXCEPT !.str[s].events = Tail(@),
                          !.str[s].deliveries = SelectSeq(@, LAMBDA d : d.end > offset),
                          !.str[s].timers = @ \ deliveredIds(done)]
     IN pub' = onByteEventCommon(p, s, offset)

(* onByteEventCanceled: the stream was reset or the connection is gone. *)
onByteEventCanceled(s) ==
  /\ pub.str[s].events # <<>>
  /\ pub.str[s].onWire = "reset" \/ ~pub.wt
  /\ LET offset == Head(pub.str[s].events)
         p == cancelDeliveriesFrom([pub EXCEPT !.str[s].events = Tail(@)], s, offset)
     IN pub' = onByteEventCommon(p, s, offset)

-----------------------------------------------------------------------------
Codes == {"TRACK_ENDED", "INTERNAL_ERROR"}

AppStep(s) ==
  \/ \E id \in 1 .. MaxObject, fin, misuse \in BOOLEAN : object(s, id, fin, misuse)
  \/ \E id \in 1 .. MaxObject : beginObject(s, id)
  \/ \E id \in 1 .. MaxObject, fin \in BOOLEAN : publishStatus(s, id, fin)
  \/ \E fin, tooLong \in BOOLEAN : objectPayload(s, fin, tooLong)
  \/ endOfSubgroup(s) \/ appReset(s) \/ awaitReadyToConsume(s)

TransportStep(s) ==
  \/ peerStops(s) \/ deliveryTimeout(s) \/ onStreamGranted(s) \/ streamRefused(s)
  \/ breakStream(s) \/ onByteEvent(s) \/ onByteEventCanceled(s)

TrackStep ==
  \/ \E s \in Subgroups : beginSubgroup(s)
  \/ \E s \in Fills : beginFill(s)
  \/ \E s \in Fetches : beginFetch(s) \/ fetchCancel(s)
  \/ \E code \in Codes : publishDone(code)
  \/ setSubscriptionHandle \/ rejectSubscribe \/ unsubscribe
  \/ \E f \in BOOLEAN : setForward(f)
  \/ \E e \in ErrorCodes : terminateExistingRequest(e)
  \/ requestStreamGoaway \/ resetForGoaway \/ sessionClosed \/ creditArrives

Next == TrackStep \/ \E s \in Streams : AppStep(s) \/ TransportStep(s)

Spec == Init /\ [][Next]_pub
-----------------------------------------------------------------------------
(* Properties *)

(* bytesBuffered_ is what the streams of the publisher hold or have handed *)
(* to the transport without hearing of it: no path through writes, byte    *)
(* events, write errors and resets counts a byte twice or forgets one.     *)
BytesBalance ==
  \A o \in Owners :
    pub.buffered[o] =
      MapThenSumSet(LAMBDA s : pub.str[s].written - pub.str[s].settled + pub.str[s].held,
                    {s \in Streams : Owner(s) = o})

(* Once a stream is over and its byte events have come, nothing of it is   *)
(* left: no buffered byte, no armed delivery timer, and no object that was *)
(* neither delivered nor cancelled.  A write the transport rejected leaves *)
(* its object unreported, and so does a FIN whose byte event is cancelled  *)
(* with the connection: the FIN's offset is past the end of the object.    *)
NothingLeft ==
  \A s \in Streams :
    LET r == pub.str[s]
    IN r.complete /\ r.events = <<>> =>
         /\ r.written = r.settled /\ r.held = 0
         /\ pub.wt => r.timers = {} /\ (r.rejected \/ r.deliveries = <<>>)

(* Every byte the application handed over is written or still held, in     *)
(* order, as long as the stream lives; a FIN it asked for while the stream *)
(* waited is remembered.                                                   *)
NothingLost ==
  \A s \in Streams :
    LET r == pub.str[s]
    IN r.exists /\ ~r.complete =>
         /\ r.written + r.buf = r.produced
         /\ r.finSaid => r.waiting /\ (r.pendingFin \/ r.pendingReset)

(* The stream count of a PUBLISH_DONE covers every stream that opened or   *)
(* ever will: the subscriber waits for exactly that many (held done,       *)
(* TOO_FAR_BEHIND, GOAWAY timeout).                                        *)
DoneCountsStreams ==
  pub.sent # None /\ pub.sent.code # "UPDATE_FAILED" => pub.sent.count = pub.opened

(* The same for every PUBLISH_DONE, the one after a failed update too. *)
EveryDoneCountsStreams == pub.sent # None => pub.sent.count = pub.opened

(* A publisher stays in pubTracks_, with its session, while a subgroup is  *)
(* open: the subgroup still reports through it.                            *)
OpenKeepsEntry ==
  \A s \in Subgroups :
    pub.str[s].exists /\ ~pub.str[s].complete =>
      s \in pub.subgroups /\ pub.registered /\ pub.session

(* Each request id is retired once, however the request ends, and no later *)
(* than its entry goes (the closing of the session excepted).              *)
RetiredOnce ==
  /\ \A o \in Owners : pub.retired[o] <= 1
  /\ pub.wt /\ ~pub.registered => pub.retired["track"] = 1
  /\ pub.wt => \A s \in (Fetches \cap pub.scenario) \ pub.fetches : pub.retired[s] = 1

(* A fill that is over has put its FETCH_HEADER on the wire, because the   *)
(* subscriber counts its stream.  Two exceptions: the transport refused    *)
(* the stream, or the fill was reset again while its first reset waited.   *)
FillAnswered ==
  \A s \in Fills :
    pub.str[s].complete /\ pub.wt =>
      pub.str[s].onWire # "no" \/ pub.str[s].rejected \/ pub.str[s].pendingReset

(* A producer that waits for readiness waits on a stream that is queued:   *)
(* a grant or a reset settles the promise.                                 *)
ReadinessSettled == \A s \in Streams : pub.str[s].ready = "pending" => pub.str[s].waiting

(* No step lets a stream take the peer's credit ahead of one that goes on  *)
(* waiting.                                                                *)
WaitersFirst ==
  \A s \in Streams :
    pub'.str[s].handle /\ ~pub.str[s].handle /\ ~pub.str[s].waiting =>
      ~\E t \in Streams : pub.str[t].waiting /\ pub'.str[t].waiting

(* A PUBLISH_DONE is held back only for a subgroup that waits for a        *)
(* stream: whatever ends that wait (a grant, a reset, a refusal) sends it. *)
HeldHasReason ==
  pub.heldPublishDone # None /\ pub.handle = "set" /\ pub.session =>
    \E s \in pub.subgroups : pub.str[s].waiting

(* Every byte and object the application handed over is accounted for.     *)
BytesAccounted == BytesBalance /\ NothingLeft /\ NothingLost

(* A subscription, its streams, fills and FETCHes end once, and only when  *)
(* what they hold back or owe has been said.                               *)
PublisherEnds ==
  /\ DoneCountsStreams /\ HeldHasReason /\ OpenKeepsEntry
  /\ RetiredOnce /\ FillAnswered /\ ReadinessSettled
=============================================================================
