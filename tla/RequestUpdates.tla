--------------------------- MODULE RequestUpdates ---------------------------
(***************************************************************************)
(* REQUEST_UPDATEs of one subscription, end to end: the subscriber's       *)
(* ReceiverSubscriptionHandle and MoQSession::requestUpdate, the request   *)
(* stream (BidiStreamControl, its response queue and read loop), and the   *)
(* publisher's RequestUpdateSequencer.                                     *)
(*                                                                         *)
(* From draft 18 the request has a stream of its own, answers carry no id, *)
(* and the publisher coalesces updates; before, both directions share the  *)
(* control stream and answers carry the id of their update.                *)
(***************************************************************************)
EXTENDS Integers, Sequences, FiniteSets, FiniteSetsExt, SequencesExt

CONSTANTS MaxUpdates   \* request ids are 1 .. MaxUpdates

VARIABLE ru

Updates == 1 .. MaxUpdates
Unsubscribe == 0   \* UNSUBSCRIBE on the control stream

Init ==
  \E bidi \in BOOLEAN :
  ru = [bidi |-> bidi,
        \* subscriber
        nextId |-> 1, pending |-> {}, answer |-> [u \in Updates |-> "unsent"],
        subscribed |-> TRUE, closed |-> FALSE, responseIDQueue |-> <<>>,
        writeHandle |-> TRUE, armed |-> TRUE, readCancelled |-> FALSE,
        readLoopExited |-> FALSE,
        \* the two directions of the stream
        up |-> <<>>, upEnd |-> "open", down |-> <<>>, downEnd |-> "open",
        \* publisher
        registered |-> TRUE, handle |-> TRUE, peerCancelled |-> FALSE,
        queued |-> <<>>, inFlight |-> <<>>, scheduled |-> FALSE,
        decided |-> [u \in Updates |-> "open"]]

-----------------------------------------------------------------------------
(* The subscriber *)

(* A pending request is resolved and forgotten. *)
settle(r, u, a) ==
  IF u \in r.pending THEN [r EXCEPT !.pending = @ \ {u}, !.answer[u] = a] ELSE r

(* failRequestsOnStreamClose: the updates sent on the stream fail with it. *)
failRequestsOnStreamClose(r) ==
  LET failed == r.pending \cap Range(r.responseIDQueue)
  IN [r EXCEPT !.responseIDQueue = <<>>, !.pending = @ \ failed,
               !.answer = [u \in Updates |-> IF u \in failed THEN "failed" ELSE @[u]]]

(* ReceiverSubscriptionHandle::requestUpdate and MoQSession::requestUpdate: *)
(* registered as pending, then written unless the subscription or the       *)
(* stream is gone.                                                          *)
requestUpdate ==
  /\ ~ru.closed /\ ru.nextId <= MaxUpdates
  /\ LET u == ru.nextId
         r == [ru EXCEPT !.nextId = @ + 1]
         sent == ru.subscribed /\ (ru.bidi => ru.writeHandle /\ ~ru.readLoopExited)
     IN ru' = IF ~sent THEN [r EXCEPT !.answer[u] = "failed"]
              ELSE [r EXCEPT !.answer[u] = "pending", !.pending = @ \cup {u},
                             !.up = Append(@, u),
                             !.responseIDQueue = IF ru.bidi THEN Append(@, u) ELSE @]

(* Mutant: the caller's cancellation takes the id out of the queue. *)
cancelLocalRequest_Dequeues(u) ==
  /\ u \in ru.pending /\ ~ru.closed
  /\ ru' = [settle(ru, u, "failed") EXCEPT
              !.responseIDQueue = SelectSeq(@, LAMBDA v : v # u)]

(* cancelOnExit: the caller was cancelled.  The id stays in the queue,     *)
(* because the answer will still come.                                     *)
cancelLocalRequest(u) ==
  /\ u \in ru.pending /\ ~ru.closed
  /\ ru' = settle(ru, u, "failed")

(* unsubscribe: BidiStreamControl::cancel, or UNSUBSCRIBE on the control stream. *)
unsubscribe ==
  /\ ru.subscribed /\ ~ru.closed
  /\ ru' = IF ru.bidi
           THEN [ru EXCEPT !.subscribed = FALSE, !.armed = FALSE, !.writeHandle = FALSE,
                           !.readCancelled = TRUE,
                           !.upEnd = IF ru.writeHandle THEN "reset" ELSE @]
           ELSE [ru EXCEPT !.subscribed = FALSE, !.up = Append(@, Unsubscribe)]

(* The read loop delivers the next answer.  From draft 18 an answer that   *)
(* no update waits for closes the session.                                 *)
close(r) ==
  [r EXCEPT !.closed = TRUE, !.pending = {},
            !.answer = [u \in Updates |-> IF u \in r.pending THEN "failed" ELSE @[u]]]

readMayRun == ~ru.closed /\ ~ru.readLoopExited /\ ~ru.readCancelled

onRequestAnswer ==
  /\ readMayRun /\ ru.down # <<>> /\ Head(ru.down).type \in {"ok", "error"}
  /\ LET m == Head(ru.down)
         r == [ru EXCEPT !.down = Tail(@)]
     IN ru' = IF ~ru.bidi THEN settle(r, m.id, m.type)
              ELSE IF ru.responseIDQueue = <<>> THEN close(r)
              ELSE settle([r EXCEPT !.responseIDQueue = Tail(@)],
                          Head(ru.responseIDQueue), m.type)

(* PUBLISH_DONE ends the subscription: it disarms the control of the       *)
(* request stream and ends its write half.                                 *)
onPublishDone ==
  /\ readMayRun /\ ru.down # <<>> /\ Head(ru.down).type = "done"
  /\ ru' = [ru EXCEPT !.down = Tail(@), !.subscribed = FALSE, !.armed = FALSE,
                      !.writeHandle = @ /\ ~ru.bidi,
                      !.upEnd = IF ru.bidi /\ ru.writeHandle THEN "fin" ELSE @]

(* The read loop meets the FIN of the publisher: it exits, fails what is   *)
(* still pending on the stream and mirrors the FIN.                        *)
controlReadLoopFin ==
  /\ ru.bidi /\ readMayRun /\ ru.down = <<>> /\ ru.downEnd = "fin"
  /\ ru' = [failRequestsOnStreamClose(ru) EXCEPT
              !.readLoopExited = TRUE, !.armed = FALSE, !.writeHandle = FALSE,
              !.upEnd = IF ru.writeHandle THEN "fin" ELSE @]

(* The read loop exits under the cancellation that unsubscribe requested:  *)
(* it leaves the pending updates alone.                                    *)
controlReadLoopCancelled ==
  /\ ru.bidi /\ ru.readCancelled /\ ~ru.readLoopExited
  /\ ru' = [ru EXCEPT !.readLoopExited = TRUE]

(* cleanup() fails every pending request. *)
closeSession ==
  /\ ~ru.closed
  /\ ru' = close(ru)

-----------------------------------------------------------------------------
(* The publisher *)

send(r, m) ==
  IF r.downEnd # "open" \/ (r.bidi /\ (r.peerCancelled \/ ~r.registered)) THEN r
  ELSE [r EXCEPT !.down = Append(@, m)]

(* terminatePublish and sendPublishDone: PUBLISH_DONE, with the FIN of the *)
(* request stream.                                                         *)
endSubscription(r) ==
  IF ~r.registered \/ ~r.handle THEN r
  ELSE LET s == send(r, [type |-> "done", id |-> 0])
       IN [s EXCEPT !.handle = FALSE, !.registered = FALSE,
                    !.downEnd = IF s.bidi /\ ~s.peerCancelled THEN "fin" ELSE @]

(* requestUpdateError also terminates the subscription. *)
requestUpdateError(r, u) == endSubscription(send(r, [type |-> "error", id |-> u]))

(* RequestUpdateSequencer::add: with coalescing there is one queued batch. *)
add(r, u) ==
  IF r.bidi /\ r.queued # <<>>
  THEN [r EXCEPT !.queued[Len(r.queued)] = Append(@, u), !.scheduled = TRUE]
  ELSE [r EXCEPT !.queued = Append(@, <<u>>), !.scheduled = TRUE]

(* onRequestUpdate of the session and of the TrackPublisherImpl. *)
onRequestUpdate ==
  /\ ru.up # <<>> /\ Head(ru.up) # Unsubscribe /\ ru.upEnd # "reset"
  /\ LET u == Head(ru.up)
         r == [ru EXCEPT !.up = Tail(@)]
     IN ru' = IF ~r.registered \/ ~r.handle
              THEN requestUpdateError([r EXCEPT !.decided[u] = "error"], u)
              ELSE add(r, u)

(* dispatchRequestUpdates: every queued batch goes to the handler, unless  *)
(* the subscription ended while the dispatch was queued.                   *)
dispatchRequestUpdates ==
  /\ ru.scheduled
  /\ ru' = IF ~ru.handle \/ ~ru.registered
           THEN [ru EXCEPT !.scheduled = FALSE, !.queued = <<>>, !.inFlight = <<>>]
           ELSE [ru EXCEPT !.scheduled = FALSE, !.queued = <<>>,
                           !.inFlight = @ \o [i \in DOMAIN ru.queued |->
                                                [ids |-> ru.queued[i], result |-> "none"]]]

(* Mutant: a failed batch is acknowledged like one that succeeded. *)
respondToRequestUpdates_SaysOk(r, b) ==
  FoldLeft(LAMBDA q, u : send(q, [type |-> "ok", id |-> u]), r, b.ids)

(* Only the newest update of a failed batch gets an error. *)
respondToRequestUpdates(r, b) ==
  IF b.result = "error" THEN requestUpdateError(r, Last(b.ids))
  ELSE FoldLeft(LAMBDA q, u : send(q, [type |-> "ok", id |-> u]), r, b.ids)

(* RequestUpdateSequencer::complete: the completed batches at the front. *)
complete(fl, i) ==
  LET n == Max({0} \cup {k \in DOMAIN fl : \A j \in 1 .. k : fl[j].result # "none"})
  IN [ready |-> SubSeq(fl, 1, n), rest |-> SubSeq(fl, n + 1, Len(fl))]

(* onRequestUpdateDone: the handler of one batch returns. *)
onRequestUpdateDone(i, result) ==
  /\ i \in DOMAIN ru.inFlight /\ ru.inFlight[i].result = "none"
  /\ LET ids == Range(ru.inFlight[i].ids)
         fl == [ru.inFlight EXCEPT ![i].result = result]
         c == complete(fl, i)
         r == [ru EXCEPT !.inFlight = c.rest,
                         !.decided = [u \in Updates |-> IF u \in ids THEN result ELSE @[u]]]
     IN ru' = IF ~ru.handle \/ ~ru.registered
              THEN [ru EXCEPT !.inFlight = fl, !.decided = r.decided]
              ELSE FoldLeft(LAMBDA q, b : IF ~q.registered THEN q
                                          ELSE respondToRequestUpdates(q, b),
                            r, c.ready)

(* The application ends the track. *)
publishDone ==
  /\ ru.registered /\ ru.handle
  /\ ru' = endSubscription(ru)

(* onUnsubscribe, from the message or from the end of the request stream,  *)
(* which also cancels the reply context.                                   *)
onUnsubscribe ==
  /\ \/ ru.bidi /\ ru.upEnd = "reset"
     \/ ru.bidi /\ ru.upEnd = "fin" /\ ru.up = <<>>
     \/ ru.up # <<>> /\ Head(ru.up) = Unsubscribe
  /\ ru.bidi => ~ru.peerCancelled
  /\ ru' = [ru EXCEPT !.handle = FALSE, !.registered = FALSE,
                      !.peerCancelled = ru.bidi,
                      !.up = IF ru.bidi THEN @ ELSE Tail(@),
                      !.downEnd = IF ru.bidi /\ @ = "open" THEN "reset" ELSE @]

-----------------------------------------------------------------------------
Subscriber ==
  \/ requestUpdate \/ unsubscribe \/ closeSession
  \/ \E u \in Updates : cancelLocalRequest(u)

Delivery ==
  \/ onRequestAnswer \/ onPublishDone \/ controlReadLoopFin \/ controlReadLoopCancelled
  \/ onRequestUpdate \/ onUnsubscribe \/ dispatchRequestUpdates

Handler == \E i \in 1 .. MaxUpdates, result \in {"ok", "error"} : onRequestUpdateDone(i, result)

Next == Subscriber \/ Delivery \/ Handler \/ publishDone

Spec == Init /\ [][Next]_ru

-----------------------------------------------------------------------------
(* Type invariant. *)
TypeOK ==
  /\ ru.pending \subseteq Updates /\ ru.nextId \in 1 .. MaxUpdates + 1
  /\ \A u \in Updates : /\ ru.answer[u] \in {"unsent", "pending", "ok", "error", "failed"}
                        /\ u \in ru.pending <=> ru.answer[u] = "pending"
                        /\ u < ru.nextId <=> ru.answer[u] # "unsent"
  /\ ru.responseIDQueue \in Seq(Updates)

Abstract == INSTANCE OrderedAnswers WITH
              ordered <- ru.bidi, answer <- ru.answer, decided <- ru.decided

(* The subscriber's view implements ordered answers: it starts as they do, *)
(* and however updates are coalesced, handled out of order, cancelled by   *)
(* their caller or cut off, every step is one of theirs or changes nothing *)
(* they see.                                                               *)
StartsInOrder == Abstract!Init
AnswersInOrder == [Abstract!Next]_(Abstract!vars)

(* From draft 18 the two ends of an open request stream agree on what is   *)
(* not answered yet: the subscriber's queue lists the updates whose        *)
(* answers are under way, then those in the handlers, those queued for     *)
(* dispatch and those still on the wire.  So the next answer always        *)
(* belongs to the head of the queue and never meets an empty one, which    *)
(* would close the session.                                                *)
EndsAgree ==
  LET answers == SelectSeq(ru.down, LAMBDA m : m.type # "done")
      ids(batches) == FlattenSeq([i \in DOMAIN batches |-> batches[i].ids])
  IN ru.bidi /\ ~ru.readCancelled /\ ~ru.closed /\ ru.downEnd = "open" =>
       /\ Len(answers) <= Len(ru.responseIDQueue)
       /\ SubSeq(ru.responseIDQueue, Len(answers) + 1, Len(ru.responseIDQueue)) =
            ids(ru.inFlight) \o FlattenSeq(ru.queued) \o ru.up

(* Nothing waits for an answer that cannot come: once the read loop of the *)
(* request stream has exited, no update is pending on it.                  *)
PendingCanBeFulfilled == ru.bidi /\ ru.readLoopExited => ru.pending = {}
=============================================================================
