-------------------------- MODULE MoQTrackReceiver --------------------------
(* The receiving side of MoQSession: one subscription (a SUBSCRIBE this end *)
(* sent, or a PUBLISH the peer sent), the data streams that arrive for it,  *)
(* possibly before its track alias is known, one fill that counts against   *)
(* it, and one FETCH. Everything runs on the session's executor; the read   *)
(* loops, the caller of subscribe()/fetch() and the handler of an inbound   *)
(* PUBLISH are coroutines that resume in any order.                         *)
EXTENDS Integers, FiniteSets, TLC

CONSTANTS
  Streams,     \* the subgroup streams the peer may open
  Scenarios    \* each a set of optional events: only they happen

\* The optional events a scenario may allow.
Events == {"publish", "fill", "update", "fetch", "callerCancel", "peerCloses",
           "unsubscribe", "consumerFails", "close"}

VARIABLE rx

May(e) == e \in rx.may

-----------------------------------------------------------------------------
(* State. sub: SubscribeTrackReceiveState and the maps that hold it.        *)
(* stream[s]: the dataStreamReadLoop of s and its ObjectStreamCallback.     *)
(* fill, fetch: FetchTrackReceiveState with its read loop.                  *)

NoStream == [at |-> "none", began |-> FALSE, consumer |-> FALSE, ends |-> 0]
NoFetch == [asked |-> FALSE, entry |-> FALSE, callback |-> FALSE,
            established |-> FALSE, opened |-> FALSE, cancelled |-> FALSE,
            promise |-> "open", pending |-> FALSE, stall |-> "none",
            blocked |-> FALSE, at |-> "none", ends |-> 0]
NoSub == [entry |-> FALSE, callback |-> FALSE, cancelled |-> FALSE,
          done |-> "none", need |-> 0, seen |-> 0, timer |-> FALSE, told |-> 0]

\* subscribe() up to its first suspension: the request is registered before the
\* reply can arrive, and a fill's receive state with it.
subscribe(fill) ==
  [sub |-> [NoSub EXCEPT !.callback = TRUE], pending |-> TRUE, promise |-> "open",
   caller |-> "waiting", handler |-> "none", ready |-> FALSE,
   fill |-> IF fill
            THEN [NoFetch EXCEPT !.asked = TRUE, !.entry = TRUE,
                                 !.callback = TRUE, !.established = TRUE]
            ELSE NoFetch]

\* An inbound PUBLISH: its handler has been spawned, nothing is installed yet.
onPublish ==
  [sub |-> NoSub, pending |-> FALSE, promise |-> "ok", caller |-> "none",
   handler |-> "spawned", ready |-> FALSE, fill |-> NoFetch]

Base(may, opened) ==
  [may |-> may, opened |-> opened, stream |-> [s \in Streams |-> NoStream],
   fetch |-> NoFetch, closed |-> FALSE, left |-> FALSE, sentDone |-> FALSE,
   publish |-> "publish" \in may]

\* Start, with the streams the publisher opened before its PUBLISH_DONE; a
\* stream it opened may still never arrive.
Init ==
  \E may \in Scenarios :
    \E opened \in SUBSET (Streams \cup (IF "fill" \in may THEN {"fill"} ELSE {})) :
      rx = Base(may, opened) @@ (IF "publish" \in may THEN onPublish
                                 ELSE subscribe("fill" \in may))

-----------------------------------------------------------------------------
(* FetchTrackReceiveState, used by a FETCH and by a fill.                   *)

\* fetchOkAndAllDataReceived(), with isFill_.
allDataReceived(f, isFill) == (isFill \/ f.promise # "open") /\ ~f.callback

\* resetFetchCallback(): the data is over; the entry leaves fetches_ when the
\* reply has come too.
resetFetchCallback(f, isFill) ==
  LET g == [f EXCEPT !.callback = FALSE,
                     !.stall = IF f.stall = "running" THEN "idle" ELSE f.stall]
  IN IF allDataReceived(g, isFill) THEN [g EXCEPT !.entry = FALSE] ELSE g

\* A terminal callback to the consumer, if it is still attached.
Terminal(f) == [f EXCEPT !.ends = @ + IF f.callback THEN 1 ELSE 0]

\* ObjectStreamCallback::reset() or endOfSubgroup() on a fetch stream.
endFetch(f, isFill) == resetFetchCallback(Terminal(f), isFill)

\* cancel(): the caller, the stall timer or the guard of the call.
cancelFetch(f, isFill) ==
  endFetch([f EXCEPT !.cancelled = TRUE,
                     !.promise = IF isFill \/ @ # "open" THEN @ ELSE "error"],
           isFill)

\* sessionClosed(), called after the entry has left fetches_.
fetchSessionClosed(f) ==
  LET g == [f EXCEPT !.entry = FALSE,
                     !.stall = IF f.stall = "running" THEN "idle" ELSE f.stall]
  IN IF ~f.entry \/ ~f.established THEN g
     ELSE [Terminal(g) EXCEPT !.callback = FALSE, !.cancelled = TRUE]

\* fillNeverOpened(): the reset is the fill's only answer.
fillNeverOpened(f) ==
  [Terminal(f) EXCEPT !.callback = FALSE, !.entry = FALSE]

\* endUnopenedFill(): a fill of the subscription without a stream ends with it.
endUnopenedFill(r) ==
  IF r.fill.entry /\ ~r.fill.opened
  THEN [r EXCEPT !.fill = fillNeverOpened(@)] ELSE r

-----------------------------------------------------------------------------
(* SubscribeTrackReceiveState and the maps around it.                       *)

\* removeSubscriptionState(): both maps, then the fills that wait for a stream.
removeSubscriptionState(r) ==
  endUnopenedFill([r EXCEPT !.sub.entry = FALSE])

cancelSub_KeepsTimer(r) ==
  [r EXCEPT !.sub.callback = FALSE, !.sub.cancelled = TRUE, !.sub.done = "none"]

\* SubscribeTrackReceiveState::cancel().
cancelSub(r) ==
  [r EXCEPT !.sub.callback = FALSE, !.sub.cancelled = TRUE,
            !.sub.timer = FALSE, !.sub.done = "none"]

\* unsubscribe(): before the reply of an inbound PUBLISH it cancels the handler;
\* otherwise the state is cancelled and forgotten.
unsubscribe(r) ==
  IF ~r.sub.entry
  THEN IF r.handler \in {"spawned", "replying"}
       THEN [r EXCEPT !.handler = "cancelled", !.left = TRUE] ELSE r
  ELSE [cancelSub(r) EXCEPT !.sub.entry = FALSE, !.left = TRUE]

\* cleanup() first closes the fetches.
closeFetches(r) ==
  [r EXCEPT !.closed = TRUE, !.fetch = fetchSessionClosed(@),
            !.fill = fetchSessionClosed(@)]

\* It then runs subscribeError() on every installed subscription, which leaves
\* told of closeFetches(r), and cancels it; requests without a reply fail last.
cleanup(r, told) ==
  LET r2 == IF r.sub.entry THEN cancelSub(told) ELSE closeFetches(r)
      r3 == [r2 EXCEPT !.sub.entry = FALSE,
                       !.promise = IF r.pending /\ @ = "open" THEN "error" ELSE @,
                       !.pending = FALSE]
  IN [r3 EXCEPT !.fetch.promise =
                   IF r.fetch.pending /\ @ = "open" THEN "error" ELSE @,
                !.fetch.pending = FALSE,
                !.handler = IF @ \in {"spawned", "replying"} THEN "cancelled"
                            ELSE @]

\* subscribeError() while the application's publishDone() is on the stack: the
\* callback has been taken, only a PUBLISH_DONE of the peer is left to drop.
subscribeErrorInCallback(r) ==
  IF r.sub.done = "real"
  THEN removeSubscriptionState([r EXCEPT !.sub.timer = FALSE, !.sub.done = "none"])
  ELSE r

\* What the application does inside publishDone().
React(r, react) ==
  IF react = "unsubscribe" THEN unsubscribe(r)
  ELSE IF react = "close" THEN cleanup(r, subscribeErrorInCallback(closeFetches(r)))
  ELSE r

\* deliverPublishDoneAndRemove(): the callback may unsubscribe or close, which
\* has then already removed the state.
deliverPublishDoneAndRemove(r, react) ==
  LET r1 == [r EXCEPT !.sub.timer = FALSE]
      r2 == React([r1 EXCEPT !.sub.callback = FALSE, !.sub.told = @ + 1], react)
  IN IF r.sub.done # "none" /\ r.sub.callback /\ r2.sub.cancelled THEN r2
     ELSE removeSubscriptionState(
            [IF r.sub.done # "none" /\ r.sub.callback THEN r2 ELSE r1
              EXCEPT !.sub.done = "none"])

\* processPublishDone(): wait for the counted streams under a timer.
processPublishDone(r, kind, need, react) ==
  IF ~r.sub.callback THEN removeSubscriptionState(r)
  ELSE LET r1 == [r EXCEPT !.sub.done = kind, !.sub.need = need]
       IN IF need > r.sub.seen THEN [r1 EXCEPT !.sub.timer = TRUE]
          ELSE deliverPublishDoneAndRemove(r1, react)

\* subscribeError(), from cleanup().
subscribeError(r, react) ==
  IF ~r.publish /\ r.promise = "open" THEN [r EXCEPT !.promise = "error"]
  ELSE IF r.sub.done = "real" THEN deliverPublishDoneAndRemove(r, react)
  ELSE IF r.sub.callback
       THEN processPublishDone([r EXCEPT !.sub.done = "none"], "synth", 0, react)
       ELSE r

\* countStream(): the stream that completes the count delivers the PUBLISH_DONE.
countStream(r, react) ==
  LET r1 == [r EXCEPT !.sub.seen = @ + 1]
  IN IF r1.sub.done # "none" /\ r1.sub.seen >= r1.sub.need
     THEN deliverPublishDoneAndRemove(r1, react) ELSE r1

\* deliverBufferedData(): every stream parked on the alias is signalled.
deliverBufferedData(r) ==
  [r EXCEPT !.stream = [s \in Streams |->
     IF r.stream[s].at = "parked" THEN [r.stream[s] EXCEPT !.at = "signalled"]
     ELSE r.stream[s]]]

Reactions == {"none"} \cup (IF May("unsubscribe") THEN {"unsubscribe"} ELSE {})
                      \cup (IF May("close") THEN {"close"} ELSE {})

-----------------------------------------------------------------------------
(* Replies, and the caller of subscribe().                                  *)

\* onSubscribeOk(): a call that was cancelled keeps its request; its guard ends it.
onSubscribeOk ==
  /\ ~rx.closed /\ rx.pending /\ rx.promise = "open"
  /\ rx' = deliverBufferedData([rx EXCEPT !.promise = "ok", !.pending = FALSE,
                                          !.sub.entry = TRUE])

\* onRequestError(), or the request stream closed before the reply
\* (failPendingRequestOnEarlyClose()).
onSubscribeError ==
  /\ ~rx.closed /\ rx.pending /\ rx.promise = "open"
  /\ rx' = [rx EXCEPT !.promise = "error", !.pending = FALSE]

\* The caller's coroutine is cancelled, or its reply times out.
callerCancels ==
  /\ May("callerCancel") /\ rx.caller = "waiting" /\ rx.promise = "open"
  /\ \E how \in {"cancelled", "timeout"} : rx' = [rx EXCEPT !.promise = how]

\* cancelLocalRequest() for a SUBSCRIBE, from the guard of subscribe().
cancelLocalRequest(r) ==
  IF r.pending THEN cancelSub([r EXCEPT !.pending = FALSE, !.left = TRUE]) ELSE r

\* subscribe() resumes with its result.
subscribeReturns ==
  /\ rx.caller = "waiting" /\ rx.promise # "open"
  /\ LET r == [rx EXCEPT !.caller = "returned"]
         r1 == IF r.promise \in {"error", "timeout"} THEN endUnopenedFill(r) ELSE r
     IN rx' = IF r.promise \in {"cancelled", "timeout"}
              THEN cancelLocalRequest(r1) ELSE r1

-----------------------------------------------------------------------------
(* An inbound PUBLISH.                                                      *)

\* installPublishReceiveState().
installPublishReceiveState(r) ==
  deliverBufferedData([r EXCEPT !.sub.entry = TRUE, !.sub.callback = TRUE])

\* publishError(): state that was installed before the reply is withdrawn.
publishError(r) ==
  LET r1 == [r EXCEPT !.handler = "done"]
  IN IF r.sub.entry
     THEN removeSubscriptionState(cancelSub([r1 EXCEPT !.left = TRUE]))
     ELSE [r1 EXCEPT !.left = TRUE]

\* handlePublish() up to the reply: a ready consumer takes objects at once.
handlePublish ==
  /\ rx.handler = "spawned"
  /\ \/ rx' = publishError(rx)
     \/ rx' = installPublishReceiveState(
                [rx EXCEPT !.handler = "replying", !.ready = TRUE])
     \/ rx' = [rx EXCEPT !.handler = "replying"]

\* handlePublish() resumes with the application's reply.
handlePublishReplied ==
  /\ rx.handler = "replying"
  /\ \/ rx' = publishError(rx)
     \/ rx' = IF rx.ready THEN [rx EXCEPT !.handler = "done"]
              ELSE installPublishReceiveState([rx EXCEPT !.handler = "done"])

-----------------------------------------------------------------------------
(* The end of the subscription.                                             *)

\* onPublishDone(), once, with the number of streams the publisher opened. One
\* for a request that has no alias is ignored.
onPublishDone ==
  /\ ~rx.closed /\ ~rx.sentDone /\ ~rx.pending
  /\ \E react \in Reactions :
       LET r == [rx EXCEPT !.sentDone = TRUE]
       IN rx' = IF r.sub.entry
                THEN processPublishDone(r, "real", Cardinality(r.opened), react)
                ELSE r

\* The peer closes the request stream of an established SUBSCRIBE without a
\* PUBLISH_DONE: one is made up that only the timer or a close delivers.
peerClosesRequestStream ==
  /\ May("peerCloses") /\ ~rx.closed /\ ~rx.publish /\ ~rx.sentDone /\ rx.sub.entry
  /\ rx' = processPublishDone([rx EXCEPT !.sentDone = TRUE], "synth",
                              Cardinality(Streams) + 2, "none")

\* streamCountTimeoutExpired().
streamCountTimeoutExpired ==
  /\ rx.sub.timer
  /\ \E react \in Reactions : rx' = deliverPublishDoneAndRemove(rx, react)

\* The application unsubscribes, through the handle it got.
appUnsubscribes ==
  /\ May("unsubscribe") /\ ~rx.closed /\ ~rx.left
  /\ rx.caller = "returned" \/ rx.publish
  /\ unsubscribe(rx) # rx /\ rx' = unsubscribe(rx)

\* close(): the application's publishDone() may unsubscribe while it runs.
close ==
  /\ May("close") /\ ~rx.closed
  /\ \E react \in Reactions \ {"close"} :
       rx' = cleanup(rx, subscribeError(closeFetches(rx), react))

-----------------------------------------------------------------------------
(* Subgroup streams.                                                        *)

\* dcb.reset() as the read loop leaves: a consumer still open gets its terminal
\* callback.
leaveLoop(r, s) ==
  [r EXCEPT !.stream[s] = [@ EXCEPT !.at = "over", !.consumer = FALSE,
      !.ends = @ + IF r.stream[s].consumer THEN 1 ELSE 0]]

\* onSubgroup() for a known alias: the consumer may refuse the subgroup, or
\* unsubscribe while it accepts it.
onSubgroupKnown(r, s, begin, react) ==
  IF ~r.sub.callback \/ begin = "refuse" THEN leaveLoop(r, s)
  ELSE LET r1 == IF begin = "unsubscribe" THEN unsubscribe(r) ELSE r
       IN countStream([r1 EXCEPT !.stream[s].at = "reading",
               !.stream[s].began = TRUE, !.stream[s].consumer = TRUE], react)

Answers == {"accept"} \cup (IF May("consumerFails") THEN {"refuse"} ELSE {})
                      \cup (IF May("unsubscribe") THEN {"unsubscribe"} ELSE {})

\* The SUBGROUP_HEADER is read: without an alias the loop parks.
onSubgroup(s) ==
  /\ ~rx.closed /\ s \in rx.opened /\ rx.stream[s].at = "none"
  /\ IF ~rx.sub.entry THEN rx' = [rx EXCEPT !.stream[s].at = "parked"]
     ELSE \E begin \in Answers, react \in Reactions :
            rx' = onSubgroupKnown(rx, s, begin, react)

\* A signalled waiter resumes; the state may have gone in between.
resumeBlocked(s) ==
  /\ rx.stream[s].at = "signalled"
  /\ IF ~rx.sub.entry THEN rx' = leaveLoop(rx, s)
     ELSE \E begin \in Answers, react \in Reactions :
            rx' = onSubgroupKnown(rx, s, begin, react)

\* The wait for the alias ends: unknownAliasTimeout, the session or the stream.
unknownAliasTimeout(s) ==
  /\ rx.stream[s].at = "parked"
  /\ rx' = leaveLoop(rx, s)

\* A reading loop: an object or status that completes the subgroup (the stream
\* stays open), or the end of the loop: FIN, read error, a consumer's error,
\* the cancelled token.
readSubgroup(s) ==
  /\ rx.stream[s].at = "reading"
  /\ \/ /\ rx.stream[s].consumer /\ ~rx.sub.cancelled
        /\ rx' = [rx EXCEPT !.stream[s].consumer = FALSE, !.stream[s].ends = @ + 1]
     \/ rx' = leaveLoop(rx, s)

-----------------------------------------------------------------------------
(* Fill streams.                                                            *)

\* registerUpdateFill(): a REQUEST_UPDATE asks for a fill of the subscription.
registerUpdateFill ==
  /\ May("update") /\ ~rx.closed /\ rx.sub.entry /\ rx.sub.callback
  /\ ~rx.sub.cancelled /\ ~rx.fill.asked
  /\ rx' = [rx EXCEPT !.fill = [NoFetch EXCEPT !.asked = TRUE, !.entry = TRUE,
              !.callback = TRUE, !.established = TRUE],
            !.opened = IF rx.sentDone THEN @ ELSE @ \cup {"fill"}]

\* openFetchTrackReceiveState() for a registered fill: counting it can complete
\* the subscription, which must not take this fill for an unopened one.
openFill(r, react) ==
  LET r1 == [r EXCEPT !.fill.opened = TRUE, !.fill.at = "reading"]
  IN IF r1.sub.entry \/ r1.pending THEN countStream(r1, react) ELSE r1

\* onFetchHeader() of a fill. One nobody registered, or whose entry is gone, is
\* offered to the subscription if it still has its callback.
onFillHeader ==
  /\ ~rx.closed /\ "fill" \in rx.opened /\ rx.fill.at = "none"
  /\ \E react \in Reactions :
       IF rx.fill.entry THEN rx' = openFill(rx, react)
       ELSE IF (rx.sub.entry \/ rx.pending) /\ rx.sub.callback /\ ~rx.sub.cancelled
       THEN rx' = openFill([rx EXCEPT !.fill = [NoFetch EXCEPT !.asked = TRUE,
               !.entry = TRUE, !.callback = TRUE, !.established = TRUE]], react)
       ELSE rx' = [rx EXCEPT !.fill.at = "over"]

\* The fill's read loop ends, or its data does.
readFill ==
  /\ rx.fill.at = "reading"
  /\ \/ rx.fill.callback /\ rx' = [rx EXCEPT !.fill = endFetch(@, TRUE)]
     \/ rx' = [rx EXCEPT !.fill = [endFetch(@, TRUE) EXCEPT !.at = "over"]]

\* cancelFill() of the subscription's handle.
cancelFill ==
  /\ May("unsubscribe") /\ ~rx.closed /\ ~rx.left /\ rx.fill.entry
  /\ rx.caller = "returned"
  /\ rx' = [rx EXCEPT !.fill = cancelFetch(@, TRUE)]

-----------------------------------------------------------------------------
(* FETCH.                                                                   *)

\* fetch() up to its suspension.
fetch ==
  /\ May("fetch") /\ ~rx.closed /\ ~rx.fetch.asked
  /\ rx' = [rx EXCEPT !.fetch = [NoFetch EXCEPT !.asked = TRUE, !.entry = TRUE,
                                  !.callback = TRUE, !.pending = TRUE]]

\* fetchOK() and what onFetchOk() does next: the entry goes if all data has come
\* before the reply, else the stall timer is armed.
fetchOk(f) ==
  LET g == [f EXCEPT !.promise = "ok", !.established = TRUE, !.pending = FALSE]
  IN IF allDataReceived(g, FALSE) THEN [g EXCEPT !.entry = FALSE]
     ELSE [g EXCEPT !.stall = IF g.blocked THEN "idle" ELSE "running"]

onFetchOk ==
  /\ ~rx.closed /\ rx.fetch.entry /\ rx.fetch.pending /\ rx.fetch.promise = "open"
  /\ rx' = [rx EXCEPT !.fetch = fetchOk(@)]

\* FETCH_ERROR, or the request stream closed early.
onFetchError ==
  /\ ~rx.closed /\ rx.fetch.pending /\ rx.fetch.promise = "open"
  /\ rx' = [rx EXCEPT !.fetch.promise = "error", !.fetch.pending = FALSE,
                      !.fetch.entry = FALSE]

\* fetch() times out or is cancelled; its guard cancels the request.
fetchCallerLeaves ==
  /\ May("callerCancel") /\ rx.fetch.pending /\ rx.fetch.promise = "open"
  /\ \E how \in {"cancelled", "timeout"} :
       LET f == [rx.fetch EXCEPT !.promise = how, !.pending = FALSE,
                                 !.callback = @ /\ how = "cancelled"]
       IN rx' = [rx EXCEPT !.fetch = IF f.entry THEN cancelFetch(f, FALSE) ELSE f]

\* onFetchHeader(): the data stream may come before FETCH_OK.
onFetchHeader ==
  /\ ~rx.closed /\ rx.fetch.asked /\ rx.fetch.at = "none"
  /\ rx' = [rx EXCEPT !.fetch.at = IF rx.fetch.entry THEN "reading" ELSE "over",
                      !.fetch.opened = rx.fetch.entry]

\* BLOCKED from the consumer: the loop waits and the stall timer with it.
pauseStallTimeout ==
  /\ rx.fetch.at = "reading" /\ rx.fetch.callback /\ ~rx.fetch.blocked
  /\ rx' = [rx EXCEPT !.fetch.blocked = TRUE,
              !.fetch.stall = IF @ = "running" THEN "idle" ELSE @]

\* The consumer is ready: the timer restarts unless the fetch has ended.
resumeStall(f) ==
  [f EXCEPT !.blocked = FALSE,
            !.stall = IF @ = "idle" /\ f.callback THEN "running" ELSE @]
resumeStallTimeout ==
  /\ rx.fetch.blocked
  /\ rx' = [rx EXCEPT !.fetch = resumeStall(@)]

\* The loop ends: FIN, error, cancelled token (seen only when not waiting for
\* the consumer).
readFetch ==
  /\ rx.fetch.at = "reading" /\ ~rx.fetch.blocked
  /\ \/ rx.fetch.callback /\ rx' = [rx EXCEPT !.fetch = endFetch(@, FALSE)]
     \/ rx' = [rx EXCEPT !.fetch = [endFetch(@, FALSE) EXCEPT !.at = "over"]]

\* The stall timer fires; its task is queued.
stallTimeoutExpired ==
  /\ rx.fetch.stall = "running"
  /\ rx' = [rx EXCEPT !.fetch.stall = "queued"]

\* onFetchStalled(), by request ID; and fetchCancel() of the application's handle.
onFetchStalled ==
  /\ rx.fetch.stall = "queued"
  /\ LET f == [rx.fetch EXCEPT !.stall = "idle"]
     IN rx' = [rx EXCEPT !.fetch = IF f.entry THEN cancelFetch(f, FALSE) ELSE f]
fetchCancel ==
  /\ May("unsubscribe") /\ ~rx.closed /\ rx.fetch.entry /\ rx.fetch.promise = "ok"
  /\ rx' = [rx EXCEPT !.fetch = cancelFetch(@, FALSE)]

-----------------------------------------------------------------------------

Next ==
  \/ onSubscribeOk \/ onSubscribeError \/ callerCancels \/ subscribeReturns
  \/ handlePublish \/ handlePublishReplied
  \/ onPublishDone \/ peerClosesRequestStream \/ streamCountTimeoutExpired
  \/ appUnsubscribes \/ close
  \/ \E s \in Streams : \/ onSubgroup(s) \/ resumeBlocked(s)
                        \/ unknownAliasTimeout(s) \/ readSubgroup(s)
  \/ registerUpdateFill \/ onFillHeader \/ readFill \/ cancelFill
  \/ fetch \/ onFetchOk \/ onFetchError \/ fetchCallerLeaves \/ onFetchHeader
  \/ pauseStallTimeout \/ resumeStallTimeout \/ readFetch
  \/ stallTimeoutExpired \/ onFetchStalled \/ fetchCancel

Spec == Init /\ [][Next]_rx

-----------------------------------------------------------------------------
(* Properties.                                                              *)

Bit(b) == IF b THEN 1 ELSE 0

FetchState ==
  [asked : BOOLEAN, entry : BOOLEAN, callback : BOOLEAN, established : BOOLEAN,
   opened : BOOLEAN, cancelled : BOOLEAN, pending : BOOLEAN, blocked : BOOLEAN,
   promise : {"open", "ok", "error", "cancelled", "timeout"},
   stall : {"none", "running", "idle", "queued"},
   at : {"none", "reading", "over"}, ends : Nat]

\* The state of a subscription, its streams, its fill and a FETCH; the stream
\* count never passes the number of streams the peer opened.
TypeOK ==
  /\ rx.sub.seen \in 0 .. Cardinality(rx.opened) /\ rx.sub.told \in Nat
  /\ rx.sub.done \in {"none", "real", "synth"}
  /\ rx.promise \in {"open", "ok", "error", "cancelled", "timeout"}
  /\ rx.handler \in {"none", "spawned", "replying", "cancelled", "done"}
  /\ rx.caller \in {"none", "waiting", "returned"}
  /\ rx.stream \in [Streams -> [at : {"none", "parked", "signalled", "reading", "over"},
                                 began : BOOLEAN, consumer : BOOLEAN, ends : Nat]]
  /\ rx.fill \in FetchState /\ rx.fetch \in FetchState

\* publishDone() reaches the application once: never twice, also when it
\* unsubscribes or closes the session inside the callback, and never zero times
\* for a subscription that ended without the application leaving it
\* (deliverPublishDoneAndRemove(), subscribeError(), cleanup()).
DoneOnce ==
  /\ rx.sub.told <= 1
  /\ (/\ ~rx.sub.entry /\ ~rx.left /\ rx.promise = "ok"
      /\ rx.publish => rx.ready \/ rx.handler = "done") => rx.sub.told = 1

\* "no more callbacks after unsubscribe" (MoQSession::unsubscribe()): publishDone()
\* is not called, in any step, once the application has left.
NoDoneAfterUnsubscribe == rx'.sub.told > rx.sub.told => ~rx.left

\* A PUBLISH_DONE that waits for streams waits under its timer, and the timer
\* never fires without one: the XCHECK of streamCountTimeoutExpired().
WaitHasTimer == rx.sub.timer <=> rx.sub.done # "none"

\* A step that delivers a PUBLISH_DONE by the count, and not by the timer or a close, comes
\* after the consumer has seen every stream it counts, a fill's included
\* (countStream(), openFetchTrackReceiveState()).
DoneAfterStreams ==
  (rx'.sub.told > rx.sub.told /\ ~rx.closed /\ ~close /\ ~streamCountTimeoutExpired)
    => /\ \A s \in Streams \cap rx.opened : rx'.stream[s].began
       /\ "fill" \in rx.opened => rx'.fill.opened

\* Every subgroup consumer gets exactly one terminal callback, whatever ends the
\* read loop: "the MoQConsumers contract requires exactly one terminal callback"
\* (ObjectStreamCallback::reset()).
OneTerminalCallback ==
  \A s \in Streams :
    LET st == rx.stream[s]
    IN /\ st.ends + Bit(st.consumer) = Bit(st.began)
       /\ st.at = "over" => ~st.consumer

\* The consumer of a FETCH or a fill is attached or has had its one terminal
\* callback; only a FETCH that timed out is dropped without one
\* (resetFetchCallback(), cancel(), sessionClosed(), fillNeverOpened()).
FetchEndsOnce ==
  /\ rx.fill.asked => rx.fill.ends + Bit(rx.fill.callback) = 1
  /\ (rx.fetch.asked /\ rx.fetch.promise # "timeout")
        => rx.fetch.ends + Bit(rx.fetch.callback) = 1

\* fetches_ keeps an entry only while a reply or data is due, in whatever order
\* FETCH_OK and the end of the data come; a leftover would hold a draining
\* session open (onFetchOk(), resetFetchCallback()).
FetchEntryIsDue ==
  /\ rx.fetch.entry => ~allDataReceived(rx.fetch, FALSE)
  /\ rx.fill.entry => ~allDataReceived(rx.fill, TRUE)

\* The stall timer runs only for a FETCH whose data is still due and whose
\* consumer is not BLOCKED: "Nothing is read while the consumer is BLOCKED, so
\* the timer must not run" (pauseStallTimeout(), resumeStallTimeout()).
StallMeansDue ==
  rx.fetch.stall = "running"
    => rx.fetch.callback /\ rx.fetch.entry /\ ~rx.fetch.blocked

\* A stream is parked only while its alias is unknown: the alias becoming known
\* wakes every stream that waits for it (deliverBufferedData()).
NoStreamForgotten ==
  \A s \in Streams : rx.stream[s].at = "parked" => ~rx.sub.entry

\* A rejected PUBLISH leaves nothing behind: state installed for a ready consumer
\* is withdrawn (publishError()).
RejectedPublishGone ==
  (rx.publish /\ rx.handler = "done" /\ rx.left /\ rx.sub.told = 0)
    => ~rx.sub.entry

\* A fill that got no stream ends with a subscription the publisher ended, or
\* whose SUBSCRIBE failed (removeSubscriptionState(), subscribe()).
UnopenedFillEndsWithPublisher ==
  (~rx.sub.entry /\ ~rx.pending /\ rx.caller # "waiting" /\ ~rx.left)
    => ~(rx.fill.entry /\ ~rx.fill.opened)

\* "A fill of this subscription, or of one of its REQUEST_UPDATEs, that never got
\* a stream will not get one now" (endUnopenedFill()): whichever way the
\* subscription ended, its consumer is told.
UnopenedFillEnds ==
  (~rx.sub.entry /\ ~rx.pending /\ rx.caller # "waiting" /\ rx.handler # "spawned")
    => ~(rx.fill.entry /\ ~rx.fill.opened)

\* "Wake read loops parked in readStreamData: the transport may cancel the read
\* handle without enqueuing an error, leaking the consumer" (cleanup()): after
\* close() the token of every reading loop is cancelled.
CloseWakesReaders ==
  rx.closed => \A s \in Streams :
                 rx.stream[s].at = "reading" => rx.sub.cancelled

(* What a session receives for ends exactly once towards the application,  *)
(* and keeps state and timers only while something is due.                 *)
ReceiverEnds ==
  /\ DoneOnce /\ WaitHasTimer /\ OneTerminalCallback
  /\ FetchEndsOnce /\ FetchEntryIsDue /\ StallMeansDue
  /\ NoStreamForgotten /\ RejectedPublishGone /\ UnopenedFillEndsWithPublisher
=============================================================================
