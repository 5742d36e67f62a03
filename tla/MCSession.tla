------------------------------ MODULE MCSession ------------------------------
(* Small instances of the parts of a MoQSession that hold a request or its *)
(* streams.  A behaviour is one of one part; st is the state of that part. *)
EXTENDS Naturals

CONSTANTS none, MaxUpdates, MaxMessages, Drafts, Threshold, MaxPending, MaxDeferred

VARIABLES part, st
vars == <<part, st>>

(* Two streams compete for the peer's credit, or one stream meets every    *)
(* event.                                                                  *)
PublishEvents == {"goaway", "forward", "break", "update", "parts", "timeout", "refuse", "misuse",
                  "ends"}
PublishScenarios ==
  {{"s1", "s2", "ends"}, {"s1", "f1", "ends"}, {"s1", "x1", "late"},
   {"f1", "late", "update", "goaway", "ends"},
   {"s1"} \cup PublishEvents, {"f1"} \cup PublishEvents}

ReceiveScenarios ==
  {{"unsubscribe", "consumerFails", "close", "callerCancel"},
   {"publish", "unsubscribe", "close"},
   {"fill", "unsubscribe", "peerCloses", "close"},
   {"fill", "callerCancel"}, {"update", "unsubscribe", "close"},
   {"fetch", "callerCancel", "unsubscribe", "close"}}

Join(x, y) == [f \in {"f1", "f2"} |-> IF f = "f1" THEN x ELSE y]
InboundScenarios ==
  {[join |-> Join("s1", "s1"), used |-> {"s1", "f1", "f2"}],
   [join |-> Join("p1", "p1"), used |-> {"p1", "f1", "f2"}],
   [join |-> Join("s1", "p1"), used |-> {"s1", "p1", "f1", "f2"}],
   [join |-> Join("none", "f1"), used |-> {"f1", "f2", "t1"}]}

P == INSTANCE MoQTrackPublisher WITH
       pub <- st, Subgroups <- {"s1", "s2"}, Fills <- {"f1"}, Fetches <- {"x1"},
       None <- none, MaxObject <- 1, ErrorCodes <- {0, 2}, Scenarios <- PublishScenarios
R == INSTANCE MoQTrackReceiver WITH
       rx <- st, Streams <- {"a", "b"}, Scenarios <- ReceiveScenarios
I == INSTANCE MoQInboundRequests WITH
       in <- st, Subs <- {"s1"}, Pubs <- {"p1"}, Fetches <- {"f1", "f2"},
       Statuses <- {"t1"}, Scenarios <- InboundScenarios
U == INSTANCE RequestUpdates WITH ru <- st
N == INSTANCE MoQRelaySession WITH
       rs <- st, MaxUpdates <- 2, Kinds <- {"publishNamespace", "subscribeNamespace", "subscribeTracks"}

Publish == part = "publish"
Receive == part = "receive"
Inbound == part = "inbound"
Updates == part = "updates"
Namespaces == part = "namespaces"

Init ==
  \/ Publish /\ P!Init
  \/ Receive /\ R!Init
  \/ Inbound /\ I!Init
  \/ Updates /\ U!Init
  \/ Namespaces /\ N!Init

Next ==
  /\ UNCHANGED part
  /\ \/ Publish /\ P!Next
     \/ Receive /\ R!Next
     \/ Inbound /\ I!Next
     \/ Updates /\ U!Next
     \/ Namespaces /\ N!Next

Spec == Init /\ [][Next]_vars

(* The state of each part has its shape: its counters stay in their range, *)
(* as far as the code's checks keep them there.                            *)
TypeOK ==
  /\ Publish => P!TypeOK
  /\ Receive => R!TypeOK
  /\ Inbound => I!TypeOK
  /\ Updates => U!TypeOK
  /\ Namespaces => N!TypeOK

-----------------------------------------------------------------------------
(* Publishing: bytesBuffered_ is what the streams hold or have in flight,  *)
(* a stream that is over leaves nothing behind, and what the application   *)
(* handed over is not lost.                                                *)
BytesAccounted == Publish => P!BytesAccounted

(* Publishing: PUBLISH_DONE counts every stream and is held back only for  *)
(* one that waits, request ids are retired once, a fill has its header,    *)
(* and a producer waits only for a stream that is queued.                  *)
PublisherEnds == Publish => P!PublisherEnds

(* Receiving: publishDone(), the terminal callback of every stream and the *)
(* end of every FETCH and fill happen once; timers, parked streams and     *)
(* entries are there only while something is due.                          *)
ReceiverEnds == Receive => R!ReceiverEnds

(* Serving requests: every request is answered and its handle settled;     *)
(* joining FETCHes are counted, and held for what can still resolve them.  *)
(* REQUEST_UPDATE, from draft 18: the subscriber's responseIDQueue lists,  *)
(* in order, the updates the publisher has yet to answer.                  *)
RequestsAgree == (Inbound => I!RequestsSettle) /\ (Updates => U!EndsAgree)

(* PUBLISH_NAMESPACE, SUBSCRIBE_NAMESPACE, SUBSCRIBE_TRACKS: handles and   *)
(* request ids are ended once, the answer is the first message, everyone   *)
(* is answered, and nothing stays for a requester that has gone.           *)
NamespacesAgree == Namespaces => N!NamespacesAgree

(* Every step of two sessions exchanging REQUEST_UPDATEs is one that       *)
(* OrderedAnswers allows.                                                  *)
AnswersInOrder == [][Updates => U!AnswersInOrder]_vars

(* No stream takes the peer's credit ahead of one that goes on waiting     *)
(* (ensureWriteHandle); publishDone() does not come before a stream it     *)
(* counts, nor after the application unsubscribed; a publisher that        *)
(* withdrew its namespace is not told of a cancel.                         *)
NothingOvertakes ==
  [][/\ Publish => P!WaitersFirst
     /\ Receive => R!NoDoneAfterUnsubscribe /\ R!DoneAfterStreams
     /\ Namespaces => N!NoCancelAfterDone]_vars
=============================================================================
