-------------------------- MODULE MoQRelaySession ---------------------------
(***************************************************************************)
(* One PUBLISH_NAMESPACE, SUBSCRIBE_NAMESPACE or SUBSCRIBE_TRACKS between  *)
(* two MoQRelaySessions, a (which sends the request) and b (which answers  *)
(* it), with the BidiStreamControl each keeps of the request's stream.     *)
(*                                                                         *)
(* From draft 18 each request has a bidirectional stream; on draft 16 only *)
(* SUBSCRIBE_NAMESPACE has one, and the rest shares the control stream.    *)
(* A request is withdrawn by resetting its stream, or by a message on the  *)
(* control stream.                                                         *)
(*                                                                         *)
(* In the record rs:                                                       *)
(*   toA, toB, ctlA, ctlB  the request's stream and the control stream     *)
(*   stopA, stopB          a STOP_SENDING on its way to that side          *)
(*   a     at: where the caller's coroutine is; pending: pendingRequests_  *)
(*         entry; cancelled: the caller's token; callback: publish-        *)
(*         NamespaceCallbacks_ entry; told: calls of the callback;         *)
(*         queue: responseIDQueue; answer: each update's result            *)
(*   b     handler: the inbound handler; cancelled: its token; handle: the *)
(*         application handle is installed; context: its retained reply    *)
(*         context; given, ended: application handles obtained and ended;  *)
(*         retired: retireRequestID calls for the request; ok, error, sent *)
(*         and held: the state of SeparateStreamSubNsReply and             *)
(*         SubscribeTracksReply; wrote: frames written (history)           *)
(***************************************************************************)
EXTENDS Integers, Sequences, FiniteSets, SequencesExt

CONSTANTS Kinds,        \* the kinds of request
          Drafts,       \* the negotiated draft
          MaxUpdates,   \* bound on REQUEST_UPDATEs
          MaxMessages   \* bound on NAMESPACE / PUBLISH_BLOCKED messages

VARIABLE rs

Frame(t) == [t |-> t, u |-> 0]
Update(t, u) == [t |-> t, u |-> u]

NewControl == [writeHandle |-> TRUE, armed |-> FALSE, readLoopExited |-> FALSE, peerCancelled |-> FALSE,
               closed |-> FALSE, goaway |-> FALSE]

Init ==
    \E k \in Kinds, v \in Drafts :
        rs = [kind |-> k, draft |-> v,
              toA |-> <<>>, toB |-> <<>>, ctlA |-> <<>>, ctlB |-> <<>>, stopA |-> FALSE, stopB |-> FALSE,
              a |-> NewControl @@
                    [at |-> "idle", pending |-> FALSE, cancelled |-> FALSE, callback |-> FALSE, told |-> 0,
                     queue |-> <<>>, answer |-> [u \in 1..MaxUpdates |-> "unsent"]],
              b |-> NewControl @@
                    [handler |-> "none", cancelled |-> FALSE, handle |-> FALSE, context |-> FALSE,
                     given |-> 0, ended |-> 0, retired |-> 0,
                     ok |-> FALSE, error |-> FALSE, sent |-> 0, held |-> <<>>, wrote |-> <<>>,
                     updating |-> {}, decided |-> [u \in 1..MaxUpdates |-> "open"]]]

(* sendRequest's minBidiDraftVersion.                                      *)
Bidi(d) == d.draft >= 18 \/ d.kind # "publishNamespace"

(* subscribeTracks before draft 18 is a SUBSCRIBE_NAMESPACE.               *)
Asks(d) == IF d.kind = "subscribeTracks" /\ d.draft < 18 THEN "subscribeNamespace" ELSE d.kind

-----------------------------------------------------------------------------
(* The requester *)

(* onPublishNamespaceCancel: the callback is taken out, then called.       *)
onPublishNamespaceCancel(d) ==
    IF d.a.callback THEN [d EXCEPT !.a.callback = FALSE, !.a.told = @ + 1] ELSE d

failPending(d) ==
    IF d.a.pending
    THEN [d EXCEPT !.a.pending = FALSE, !.a.at = IF d.a.cancelled THEN @ ELSE "errorQueued"]
    ELSE d

(* failRequestsOnStreamClose: the request if it is unanswered, and the     *)
(* updates sent on its stream.                                             *)
failRequestsOnStreamClose(d) ==
    LET e == failPending(d)
    IN  [e EXCEPT !.a.queue = <<>>,
                  !.a.answer = [u \in 1..MaxUpdates |-> IF u \in Range(d.a.queue) THEN "failed" ELSE @[u]]]

(* The peer-termination callback publishNamespace() and the others set.    *)
peerTerminatedA(d) ==
    failRequestsOnStreamClose(IF d.kind = "publishNamespace" THEN onPublishNamespaceCancel(d) ELSE d)

-----------------------------------------------------------------------------
(* The responder *)

Retire(d) == [d EXCEPT !.b.retired = @ + 1]

(* The application handle is ended by the session.                         *)
EndHandle(d) == [d EXCEPT !.b.ended = @ + 1]
Uninstall(d) == [d EXCEPT !.b.handle = FALSE, !.b.context = FALSE]

(* The requester left while the handler was still answering.               *)
handlerLeft(d) ==
    IF d.b.handler = "running" /\ ~d.b.cancelled THEN Retire([d EXCEPT !.b.cancelled = TRUE]) ELSE d

onPublishNamespaceDone(d) == IF d.b.handle THEN Retire(EndHandle(Uninstall(d))) ELSE handlerLeft(d)

onUnsubscribeNamespace(d) == IF d.b.handle THEN Retire(Uninstall(EndHandle(d))) ELSE handlerLeft(d)

(* onSubscribeTracksStreamClosed retires the request in any case.          *)
onSubscribeTracksStreamClosed(d) ==
    LET e == [d EXCEPT !.b.cancelled = @ \/ d.b.handler = "running"]
    IN  Retire(Uninstall(IF d.b.handle THEN EndHandle(e) ELSE e))

(* getBidiStreamConfig: what a peer's reset or STOP_SENDING means.         *)
peerTerminatedB(d) ==
    CASE Asks(d) = "publishNamespace" -> onPublishNamespaceDone(d)
      [] Asks(d) = "subscribeNamespace" -> onUnsubscribeNamespace(d)
      [] Asks(d) = "subscribeTracks" -> onSubscribeTracksStreamClosed(d)

-----------------------------------------------------------------------------
(* BidiStreamControl, of either side s *)

WriteTo(d, s, f) == IF s = "a" THEN [d EXCEPT !.toB = Append(@, f)] ELSE [d EXCEPT !.toA = Append(@, f)]
StopPeer(d, s) == IF s = "a" THEN [d EXCEPT !.stopB = TRUE] ELSE [d EXCEPT !.stopA = TRUE]

(* The write half is reset, unless it is closed already.                   *)
ResetWrite(d, s) ==
    IF d[s].writeHandle THEN WriteTo([d EXCEPT ![s].writeHandle = FALSE], s, Frame("rst")) ELSE d

(* The read loop exits under cancellation; its peer is told to stop.       *)
CancelRead(d, s) ==
    IF d[s].readLoopExited THEN d ELSE StopPeer([d EXCEPT ![s].readLoopExited = TRUE], s)

cancelControl(d, s) == CancelRead(ResetWrite([d EXCEPT ![s].armed = FALSE], s), s)

(* Fires at most once.                                                     *)
firePeerTermination(d, s) ==
    LET e == [d EXCEPT ![s].peerCancelled = TRUE, ![s].armed = FALSE]
    IN  IF ~d[s].armed THEN e
        ELSE IF s = "a" THEN peerTerminatedA(e) ELSE peerTerminatedB(e)

onPeerStopSending(d, s) ==
    IF ~d[s].writeHandle THEN d
    ELSE LET e == CancelRead(ResetWrite(d, s), s)
         IN  IF d[s].closed THEN e ELSE firePeerTermination(e, s)

FinCancels(d, s) == s = "a" \/ d.draft < 18

writeFin(d, s) ==
    IF d[s].writeHandle THEN WriteTo([d EXCEPT ![s].writeHandle = FALSE], s, Frame("fin")) ELSE d

(* The end of controlReadLoop.                                             *)
readLoopEnds(d, s, how) ==
    LET x == [d EXCEPT ![s].readLoopExited = TRUE]
        e == IF how = "rst" \/ FinCancels(d, s) THEN firePeerTermination(x, s) ELSE x
        f == IF s = "a" THEN failRequestsOnStreamClose(e) ELSE e
    IN  IF s = "a" /\ how = "fin" THEN writeFin(f, s) ELSE f

(* ReplyContext::flush: frames written unless the stream is cancelled; a   *)
(* FIN disarms the peer-termination callback.                              *)
flush(d, frames, fin) ==
    LET e == IF Bidi(d) /\ fin THEN [d EXCEPT !.b.armed = FALSE] ELSE d
        w == [e EXCEPT !.b.wrote = @ \o frames]
    IN  IF d.b.closed THEN e
        ELSE IF ~Bidi(d) THEN [w EXCEPT !.ctlA = @ \o frames]
        ELSE IF d.b.peerCancelled \/ ~d.b.writeHandle THEN e
        ELSE LET x == [w EXCEPT !.toA = @ \o frames] IN IF fin THEN writeFin(x, "b") ELSE x

-----------------------------------------------------------------------------
(* The three requests *)

(* sendRequest: on a stream of its own or on the control stream.           *)
sendRequest(d) ==
    IF Bidi(d) THEN [d EXCEPT !.a.armed = TRUE, !.toB = Append(@, Frame("request"))]
    ELSE [d EXCEPT !.ctlB = Append(@, Frame("request"))]

Refused(d) == d.a.closed \/ (d.a.goaway /\ d.draft >= 18)

(* Up to the co_await for the answer.                                      *)
Request(d) ==
    IF Refused(d) THEN [d EXCEPT !.a.at = "ended"]
    ELSE sendRequest([d EXCEPT !.a.at = "pending", !.a.pending = TRUE])

publishNamespace ==
    /\ rs.kind = "publishNamespace" /\ rs.a.at = "idle"
    /\ rs' = Request(rs)

subscribeNamespace ==
    /\ Asks(rs) = "subscribeNamespace" /\ rs.a.at = "idle"
    /\ rs' = Request(rs)

subscribeTracks ==
    /\ Asks(rs) = "subscribeTracks" /\ rs.a.at = "idle"
    /\ rs' = Request(rs)

(* The caller's token.                                                     *)
Cancel ==
    /\ rs.a.at \in {"pending", "okQueued"} /\ ~rs.a.cancelled
    /\ rs' = [rs EXCEPT !.a.cancelled = TRUE]

(* The answer resolves the request; one cancelled meanwhile is left for    *)
(* its caller to cancel at the peer.                                       *)
Resolved(d) == [d EXCEPT !.a.pending = FALSE, !.a.at = "okQueued"]

handlePublishNamespaceOkFromRequestOk(d) ==
    IF d.a.cancelled THEN d ELSE [Resolved(d) EXCEPT !.a.callback = TRUE]

handleSubscribeNamespaceOkFromRequestOk(d) == IF d.a.cancelled THEN d ELSE Resolved(d)

handleSubscribeTracksOkFromRequestOk(d) == IF d.a.cancelled THEN d ELSE Resolved(d)

onRequestOk(d) ==
    CASE ~d.a.pending -> d
      [] d.a.pending /\ Asks(d) = "publishNamespace" -> handlePublishNamespaceOkFromRequestOk(d)
      [] d.a.pending /\ Asks(d) = "subscribeNamespace" -> handleSubscribeNamespaceOkFromRequestOk(d)
      [] d.a.pending /\ Asks(d) = "subscribeTracks" -> handleSubscribeTracksOkFromRequestOk(d)

(* Nothing is sent if the namespace was cancelled already.                 *)
publishNamespaceDone(d) ==
    LET e == [d EXCEPT !.a.callback = FALSE]
    IN  IF ~d.a.callback THEN d
        ELSE IF d.draft < 18 THEN [e EXCEPT !.ctlB = Append(@, Frame("done"))]
        ELSE cancelControl(e, "a")

unsubscribeNamespace_NoReset(d) == d

unsubscribeNamespace(d) == IF d.a.closed THEN d ELSE cancelControl(d, "a")

unsubscribeTracks(d) == IF d.a.closed THEN d ELSE cancelControl(d, "a")

(* The application's handle goes.                                          *)
withdraw(d) ==
    LET e == [d EXCEPT !.a.at = "ended"]
    IN  CASE Asks(d) = "publishNamespace" -> publishNamespaceDone(e)
          [] Asks(d) = "subscribeNamespace" -> unsubscribeNamespace(e)
          [] Asks(d) = "subscribeTracks" -> unsubscribeTracks(e)

(* cancelLocalRequest, if the request is still pending.                    *)
cancelLocalRequest(d) ==
    LET e == [d EXCEPT !.a.pending = FALSE]
    IN  IF ~d.a.pending THEN d
        ELSE IF Bidi(d) THEN cancelControl(e, "a")
        ELSE [e EXCEPT !.ctlB = Append(@, Frame("done"))]

(* The caller's coroutine resumes, with an answer or cancelled. A handle   *)
(* returned to a cancelled caller is destroyed.                            *)
Resume ==
    LET d == IF rs.a.at = "okQueued" /\ ~rs.a.cancelled THEN [rs EXCEPT !.a.at = "handle"]
             ELSE IF rs.a.at = "okQueued" THEN withdraw(rs)
             ELSE IF rs.a.at = "errorQueued" /\ Asks(rs) = "subscribeTracks" THEN writeFin([rs EXCEPT !.a.at = "ended"], "a")
             ELSE IF rs.a.at = "errorQueued" THEN [rs EXCEPT !.a.at = "ended"]
             ELSE [cancelLocalRequest(rs) EXCEPT !.a.at = "ended"]
    IN  /\ rs.a.at \in {"okQueued", "errorQueued"} \/ (rs.a.at = "pending" /\ rs.a.cancelled)
        /\ rs' = d

(* publishNamespaceDone, unsubscribeNamespace, unsubscribeTracks.          *)
Withdraw ==
    /\ rs.a.at = "handle"
    /\ rs' = withdraw(rs)

(* sendRequestUpdateOnBidi. The PUBLISH_NAMESPACE handle never sends one,  *)
(* nor does the draft 16 adapter; a peer's own implementation may.         *)
RequestUpdate(u) ==
    LET bidi == rs.draft >= 18
        fails == rs.a.closed \/ (rs.a.goaway /\ bidi)
                 \/ (bidi /\ (~rs.a.writeHandle \/ rs.a.readLoopExited))
        d == [rs EXCEPT !.a.answer[u] = "pending", !.a.queue = Append(@, u)]
    IN  /\ rs.a.at = "handle" /\ rs.a.answer[u] = "unsent"
        /\ \A w \in 1..(u - 1) : rs.a.answer[w] # "unsent"
        /\ rs.kind = Asks(rs)
        /\ rs' = IF fails THEN [rs EXCEPT !.a.answer[u] = "failed"]
                 ELSE IF bidi THEN WriteTo(d, "a", Update("update", u))
                 ELSE [d EXCEPT !.ctlB = Append(@, Update("update", u))]

(* REQUEST_OK or REQUEST_ERROR for an update: on the request's stream it   *)
(* answers the first one queued, on the control stream the one it names.   *)
onUpdateAnswer(d, f) ==
    LET u == IF d.draft >= 18 THEN Head(d.a.queue) ELSE f.u
    IN  IF d.a.queue = <<>> \/ u \notin Range(d.a.queue) THEN d
        ELSE [d EXCEPT !.a.queue = SelectSeq(@, LAMBDA w : w # u),
                       !.a.answer[u] = IF f.t = "updateOk" THEN "ok" ELSE "error"]

-----------------------------------------------------------------------------
(* b's answers *)

publishNamespaceError(d) == flush([d EXCEPT !.b.error = TRUE], <<Frame("error")>>, TRUE)

(* Once a NAMESPACE is queued there is no error to send.                   *)
subscribeNamespaceError(d) ==
    IF d.b.sent > 0 THEN d ELSE flush([d EXCEPT !.b.error = TRUE], <<Frame("error")>>, TRUE)

subscribeTracksError(d) ==
    flush([d EXCEPT !.b.error = TRUE, !.b.held = <<>>], <<Frame("error")>>, TRUE)

publishNamespaceOk(d) == flush([d EXCEPT !.b.ok = TRUE], <<Frame("ok")>>, FALSE)

(* The answer, then the messages held for it.                              *)
flushPendingMessages(d) == flush([d EXCEPT !.b.held = <<>>], d.b.held, FALSE)

subscribeNamespaceOk(d) ==
    flushPendingMessages(flush([d EXCEPT !.b.ok = TRUE], <<Frame("ok")>>, FALSE))

subscribeTracksOk(d) ==
    flushPendingMessages(flush([d EXCEPT !.b.ok = TRUE], <<Frame("ok")>>, FALSE))

(* handleFirstFrame arms the callback of the stream.                       *)
handleFirstFrame(d) == IF Bidi(d) THEN [d EXCEPT !.b.armed = TRUE] ELSE d

onPublishNamespaceImpl(d, served) ==
    IF d.b.goaway \/ ~served THEN publishNamespaceError(d) ELSE [d EXCEPT !.b.handler = "running"]

onSubscribeNamespaceImpl(d, served) ==
    IF d.b.goaway \/ ~served THEN subscribeNamespaceError(d) ELSE [d EXCEPT !.b.handler = "running"]

onSubscribeTracksImpl(d, served) ==
    IF d.b.goaway \/ ~served THEN subscribeTracksError(d) ELSE [d EXCEPT !.b.handler = "running"]

onRequest(d, served) ==
    LET e == handleFirstFrame(d)
    IN  CASE Asks(d) = "publishNamespace" -> onPublishNamespaceImpl(e, served)
          [] Asks(d) = "subscribeNamespace" -> onSubscribeNamespaceImpl(e, served)
          [] Asks(d) = "subscribeTracks" -> onSubscribeTracksImpl(e, served)

(* The application answered: a handle nobody wants any more is ended.      *)
Returned(d) == [d EXCEPT !.b.handler = "done"]
Given(d) == [d EXCEPT !.b.handler = "done", !.b.given = 1]
Install(d) == [d EXCEPT !.b.handle = TRUE, !.b.context = (d.draft >= 18)]

handlePublishNamespace(d, ok) ==
    IF d.b.cancelled THEN (IF ok THEN EndHandle(Given(d)) ELSE Returned(d))
    ELSE IF ok THEN Install(publishNamespaceOk(Given(d)))
    ELSE publishNamespaceError(Returned(d))

handleSubscribeNamespace(d, ok) ==
    IF d.b.cancelled THEN (IF ok THEN EndHandle(Given(d)) ELSE Returned(d))
    ELSE IF ok THEN Install(subscribeNamespaceOk(Given(d)))
    ELSE subscribeNamespaceError(Returned(d))

handleSubscribeTracks(d, ok) ==
    IF d.b.cancelled THEN (IF ok THEN EndHandle(Given(d)) ELSE Returned(d))
    ELSE IF ok THEN subscribeTracksOk(Install(Given(d)))
    ELSE subscribeTracksError(Returned(d))

Handled ==
    /\ rs.b.handler = "running"
    /\ \E ok \in BOOLEAN :
          rs' = CASE Asks(rs) = "publishNamespace" -> handlePublishNamespace(rs, ok)
                  [] Asks(rs) = "subscribeNamespace" -> handleSubscribeNamespace(rs, ok)
                  [] Asks(rs) = "subscribeTracks" -> handleSubscribeTracks(rs, ok)

(* What the application sends before the answer is held for it.            *)
MessageSent(d, f) ==
    LET e == [d EXCEPT !.b.sent = @ + 1]
    IN  IF d.b.ok THEN flush(e, <<f>>, FALSE) ELSE [e EXCEPT !.b.held = Append(@, f)]

AppCanSend == rs.b.sent < MaxMessages /\ (rs.b.handler = "running" \/ rs.b.handle)

(* namespaceMsg and namespaceDoneMsg.                                      *)
NamespaceMsg ==
    /\ Asks(rs) = "subscribeNamespace" /\ AppCanSend
    /\ rs' = MessageSent(rs, Frame("namespace"))

PublishBlocked ==
    /\ Asks(rs) = "subscribeTracks" /\ AppCanSend
    /\ rs' = MessageSent(rs, Frame("publishBlocked"))

(* SubscriberPublishNamespaceCallback::publishNamespaceCancel.             *)
PublishNamespaceCancel ==
    LET d == Retire(EndHandle(Uninstall(rs)))
    IN  /\ rs.kind = "publishNamespace" /\ rs.b.handle
        /\ rs' = IF rs.draft >= 18 THEN cancelControl(d, "b")
                 ELSE [d EXCEPT !.ctlA = Append(@, Frame("cancel"))]

(* terminateExistingRequest: the stream of a namespace request is closed.  *)
terminateExistingRequest(d) ==
    IF d.b.handle /\ d.b.context THEN peerTerminatedB(flush(d, <<>>, TRUE)) ELSE d

(* requestUpdateOk and requestUpdateError, on the retained context, or on  *)
(* the control stream before draft 18.                                     *)
updateReply(d, u, ok) ==
    LET f == <<Update(IF ok THEN "updateOk" ELSE "updateError", u)>>
        e == [d EXCEPT !.b.updating = @ \ {u}, !.b.decided[u] = IF ok THEN "ok" ELSE "error"]
        w == IF d.b.context THEN flush(e, f, FALSE)
             ELSE IF d.draft < 18 /\ ~d.b.closed THEN [e EXCEPT !.ctlA = @ \o f] ELSE e
    IN  IF ok THEN w ELSE terminateExistingRequest(w)

(* onRequestUpdate: each update of a namespace request runs on its own.    *)
onRequestUpdate(d, u) ==
    IF ~d.b.handle \/ d.b.goaway THEN updateReply(d, u, FALSE)
    ELSE [d EXCEPT !.b.updating = @ \cup {u}]

handlePublishNamespaceRequestUpdate ==
    /\ Asks(rs) = "publishNamespace"
    /\ \E u \in rs.b.updating, ok \in BOOLEAN : rs' = updateReply(rs, u, ok)

handleSubscribeNamespaceRequestUpdate ==
    /\ Asks(rs) = "subscribeNamespace"
    /\ \E u \in rs.b.updating, ok \in BOOLEAN : rs' = updateReply(rs, u, ok)

handleSubscribeTracksRequestUpdate ==
    /\ Asks(rs) = "subscribeTracks"
    /\ \E u \in rs.b.updating, ok \in BOOLEAN : rs' = updateReply(rs, u, ok)

-----------------------------------------------------------------------------
(* Delivery *)

ReceiveB ==
    /\ ~rs.b.closed /\ rs.toB # <<>>
    /\ LET f == Head(rs.toB)
           d == [rs EXCEPT !.toB = Tail(@)]
       IN  IF rs.b.readLoopExited THEN rs' = d
           ELSE CASE f.t = "request" -> \E served \in BOOLEAN : rs' = onRequest(d, served)
                  [] f.t = "update" -> rs' = onRequestUpdate(d, f.u)
                  [] f.t \in {"fin", "rst"} -> rs' = readLoopEnds(d, "b", f.t)

ReceiveA ==
    /\ ~rs.a.closed /\ rs.toA # <<>>
    /\ LET f == Head(rs.toA)
           d == [rs EXCEPT !.toA = Tail(@)]
       IN  rs' = IF rs.a.readLoopExited THEN d
                 ELSE CASE f.t = "ok" -> onRequestOk(d)
                        [] f.t = "error" -> failPending(d)
                        [] f.t \in {"updateOk", "updateError"} -> onUpdateAnswer(d, f)
                        [] f.t \in {"namespace", "publishBlocked"} -> d
                        [] f.t \in {"fin", "rst"} -> readLoopEnds(d, "a", f.t)

ControlB ==
    /\ ~rs.b.closed /\ rs.ctlB # <<>>
    /\ LET f == Head(rs.ctlB)
           d == [rs EXCEPT !.ctlB = Tail(@)]
       IN  CASE f.t = "request" -> \E served \in BOOLEAN : rs' = onRequest(d, served)
             [] f.t = "update" -> rs' = onRequestUpdate(d, f.u)
             [] f.t = "done" -> rs' = onPublishNamespaceDone(d)

ControlA ==
    /\ ~rs.a.closed /\ rs.ctlA # <<>>
    /\ LET f == Head(rs.ctlA)
           d == [rs EXCEPT !.ctlA = Tail(@)]
       IN  rs' = CASE f.t = "ok" -> onRequestOk(d)
                   [] f.t = "error" -> failPending(d)
                   [] f.t = "cancel" -> onPublishNamespaceCancel(d)
                   [] f.t \in {"updateOk", "updateError"} -> onUpdateAnswer(d, f)

StopSendingArrives ==
    \/ rs.stopA /\ rs' = onPeerStopSending([rs EXCEPT !.stopA = FALSE], "a")
    \/ rs.stopB /\ rs' = onPeerStopSending([rs EXCEPT !.stopB = FALSE], "b")

(* A RESET_STREAM overtakes what was written before it.                    *)
LostToReset ==
    \/ /\ Len(rs.toA) > 1 /\ Last(rs.toA).t = "rst"
       /\ rs' = [rs EXCEPT !.toA = SubSeq(@, 1, Len(@) - 2) \o <<Frame("rst")>>]
    \/ /\ Len(rs.toB) > 1 /\ Last(rs.toB).t = "rst"
       /\ rs' = [rs EXCEPT !.toB = SubSeq(@, 1, Len(@) - 2) \o <<Frame("rst")>>]

Goaway ==
    \/ ~rs.a.goaway /\ rs.a.at \in {"idle", "handle"} /\ rs' = [rs EXCEPT !.a.goaway = TRUE]
    \/ ~rs.b.goaway /\ rs' = [rs EXCEPT !.b.goaway = TRUE]

(* cleanup: the callbacks, then what the base class fails.                 *)
CloseA ==
    LET d == failRequestsOnStreamClose(onPublishNamespaceCancel(rs))
    IN  /\ ~rs.a.closed
        /\ rs' = [d EXCEPT !.a.closed = TRUE, !.a.readLoopExited = TRUE]

cleanupRelayState(d) == Uninstall(IF d.b.handle THEN EndHandle(d) ELSE d)

CloseB ==
    LET d == cleanupRelayState(rs)
    IN  /\ ~rs.b.closed
        /\ rs' = [d EXCEPT !.b.closed = TRUE, !.b.readLoopExited = TRUE, !.b.cancelled = TRUE]

Next ==
    \/ publishNamespace \/ subscribeNamespace \/ subscribeTracks \/ Cancel \/ Resume \/ Withdraw
    \/ \E u \in 1..MaxUpdates : RequestUpdate(u)
    \/ Handled \/ NamespaceMsg \/ PublishBlocked \/ PublishNamespaceCancel
    \/ handlePublishNamespaceRequestUpdate \/ handleSubscribeNamespaceRequestUpdate
    \/ handleSubscribeTracksRequestUpdate
    \/ ReceiveA \/ ReceiveB \/ ControlA \/ ControlB \/ StopSendingArrives \/ LostToReset
    \/ Goaway \/ CloseA \/ CloseB

Spec == Init /\ [][Next]_rs

-----------------------------------------------------------------------------
(* Nothing is under way: no message, no resumption, no handler.            *)
Quiet ==
    /\ rs.toA = <<>> /\ rs.toB = <<>> /\ rs.ctlA = <<>> /\ rs.ctlB = <<>> /\ ~rs.stopA /\ ~rs.stopB
    /\ rs.b.handler # "running" /\ rs.b.updating = {}
    /\ rs.a.at \in {"idle", "pending", "handle", "ended"} /\ ~(rs.a.at = "pending" /\ rs.a.cancelled)
Open == ~rs.a.closed /\ ~rs.b.closed

TypeOK ==
    /\ rs.a.at \in {"idle", "pending", "okQueued", "errorQueued", "handle", "ended"}
    /\ rs.a.pending => rs.a.at = "pending"
    /\ rs.b.given \in 0..1 /\ rs.a.told \in 0..1
    /\ rs.b.handler \in {"none", "running", "done"}
    /\ rs.b.context => rs.b.handle

(* A handle the application returned is ended by the session exactly once: *)
(* by the requester's withdrawal or reset, by a cancel, by a failed update *)
(* or by the session's close, also when they race the handler's answer.    *)
HandleEndedOnce ==
    /\ rs.b.ended <= rs.b.given
    /\ rs.b.given = rs.b.ended <=> ~rs.b.handle

(* When everything has settled, no namespace stays published and none      *)
(* stays subscribed at b for a requester that has gone.                    *)
NoGhost == Quiet /\ Open /\ rs.a.at = "ended" => ~rs.b.handle

(* When everything has settled the caller has its answer, and each update  *)
(* it sent has one (SeparateStreamSubNsReply refuses to send an error      *)
(* after a NAMESPACE: then there is none).                                 *)
Answered ==
    Quiet /\ Open =>
        /\ ~rs.a.pending \/ (rs.b.sent > 0 /\ ~rs.b.ok)
        /\ rs.a.at = "handle" => \A u \in 1..MaxUpdates : rs.a.answer[u] # "pending"

(* The stream carries one answer to the request, first: messages of the    *)
(* application wait for it, and none follows an error.                     *)
AnswerFirst ==
    \A i \in DOMAIN rs.b.wrote :
        /\ rs.b.wrote[i].t \in {"ok", "error"} <=> i = 1
        /\ i > 1 => rs.b.wrote[1].t = "ok"

(* A request gives back its request id at most once; one that was accepted *)
(* and ended on an open session, exactly once.                             *)
RetiredOnce ==
    /\ rs.b.retired <= 1
    /\ ~rs.b.closed /\ rs.b.given = 1 /\ ~rs.b.handle => rs.b.retired = 1

(* The publisher is told that its namespace was cancelled only while it    *)
(* holds it, never after it withdrew the namespace itself.                 *)
NoCancelAfterDone == rs'.a.told > rs.a.told => rs.a.at \in {"handle", "okQueued"}

(* Every SUBSCRIBE_TRACKS whose stream ended gives back its request id,    *)
(* the rejected ones included (onSubscribeTracksStreamClosed).             *)
RejectedTracksRetired ==
    Quiet /\ Open /\ Asks(rs) = "subscribeTracks" /\ rs.a.at = "ended" /\ rs.b.error => rs.b.retired = 1

(* On the request's stream answers are matched to updates in order, so the *)
(* answer a caller gets is the one the application gave to its update.     *)
UpdateAnswersMatch ==
    \A u \in 1..MaxUpdates : rs.a.answer[u] \in {"ok", "error"} => rs.a.answer[u] = rs.b.decided[u]

(* Both ends of a namespace request agree on how it ended: answered first, *)
(* ended and retired once, with nothing left behind.                       *)
NamespacesAgree == HandleEndedOnce /\ NoGhost /\ Answered /\ AnswerFirst /\ RetiredOnce
=============================================================================
