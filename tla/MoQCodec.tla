------------------------------ MODULE MoQCodec ------------------------------
(***************************************************************************)
(* The codecs (MoQCodec.cpp): bytes arrive in pieces of any size; what is  *)
(* not yet a whole field waits in ingress_, and a message or a part of an  *)
(* object is handed to the callback once it is there.                      *)
(*                                                                         *)
(* A control codec c reads the control stream, or (bidi) one request       *)
(* stream.  An object codec o reads a subgroup, fetch or padding stream.   *)
(* out is what the callback was told, in order.                            *)
(***************************************************************************)
EXTENDS MoQFramer, MoQObjects

None_ == "none"

-----------------------------------------------------------------------------
(* The control codec.                                                      *)

ControlCodec(v, dir) ==
  [v |-> v, dir |-> dir, bidi |-> FALSE, allowed |-> {}, okType |-> "", streamID |-> <<>>,
   primary |-> TRUE, first |-> FALSE, queue |-> <<>>, seenSetup |-> FALSE,
   state |-> "TYPE", type |-> "", length |-> 0, ingress |-> <<>>, err |-> None_, out |-> <<>>]

(* A codec for the answers on a request stream has an okType; one for the  *)
(* requests has none.                                                      *)
MoQBidiStreamCodec(v, frames, requestID, okType) ==
  [ControlCodec(v, "SERVER") EXCEPT
     !.bidi = TRUE, !.streamID = requestID, !.okType = okType, !.seenSetup = TRUE,
     !.primary = (okType = ""),
     !.allowed = frames \cup (IF okType = "" THEN {} ELSE {okType, "REQUEST_ERROR"})]

LegacyFrames ==
  {"SUBSCRIBE", "REQUEST_UPDATE", "SUBSCRIBE_OK", "REQUEST_ERROR", "PUBLISH_NAMESPACE",
   "REQUEST_OK", "PUBLISH_DONE", "PUBLISH", "PUBLISH_OK", "PUBLISH_ERROR", "TRACK_STATUS",
   "FETCH", "FETCH_OK", "FETCH_ERROR", "UNSUBSCRIBE", "FETCH_CANCEL", "MAX_REQUEST_ID",
   "REQUESTS_BLOCKED", "PUBLISH_NAMESPACE_DONE", "PUBLISH_NAMESPACE_CANCEL",
   "PUBLISH_BLOCKED"}        \* the type of TRACK_STATUS_ERROR
checkFrameAllowed(c, f) ==
  CASE f = "GOAWAY" -> TRUE
    [] f \in LegacyFrames -> c.v < 18
    [] f \in {"CLIENT_SETUP", "SERVER_SETUP"} -> c.v < 17
    [] f = "SETUP" -> c.v >= 17
    [] OTHER -> FALSE

isRequestInitiating(f) ==
  f \in {"SUBSCRIBE", "FETCH", "PUBLISH", "TRACK_STATUS", "PUBLISH_NAMESPACE",
         "LEGACY_SUBSCRIBE_NAMESPACE", "SUBSCRIBE_NAMESPACE", "SUBSCRIBE_TRACKS"}
hasPendingPostTerminalResponse(c) == c.queue # <<>>
bidiFrameAllowed(c, f) ==
  /\ f \in c.allowed
  /\ ~c.first => (c.okType # "" => f \in {c.okType, "REQUEST_ERROR"})
  /\ c.first =>
       /\ ~isRequestInitiating(f)
       /\ c.okType \notin {"", "REQUEST_OK"} => f # c.okType
       /\ f \in {"REQUEST_OK", "REQUEST_ERROR"} => hasPendingPostTerminalResponse(c)

(* The request a frame answers: the stream's own, once, and then the       *)
(* updates in the order they were sent.                                    *)
takeNextResponseRequestID(c) ==
  IF ~c.bidi THEN [c |-> c, id |-> <<>>]
  ELSE IF ~c.primary /\ c.streamID # <<>>
  THEN [c |-> [c EXCEPT !.primary = TRUE], id |-> c.streamID]
  ELSE IF c.queue = <<>> THEN [c |-> [c EXCEPT !.primary = TRUE], id |-> <<>>]
  ELSE [c |-> [c EXCEPT !.primary = TRUE, !.queue = Tail(@)], id |-> <<Head(c.queue)>>]

Tell(c, m) == [c EXCEPT !.out = Append(@, m)]
WithID(id, field, m) == IF id = <<>> THEN m ELSE (field :> id[1]) @@ m
TellAnswer(c, m) ==
  LET t == takeNextResponseRequestID(c) IN Tell(t.c, WithID(t.id, "requestID", m))
setStreamRequestID(c, id) == IF c.bidi THEN [c EXCEPT !.streamID = <<id>>] ELSE c

parseSetupFrame(c, s) ==
  IF \/ c.type = "CLIENT_SETUP" /\ c.dir = "CLIENT"
     \/ c.type = "SERVER_SETUP" /\ c.dir = "SERVER"
     \/ c.type \notin {"CLIENT_SETUP", "SERVER_SETUP", "SETUP"}
  THEN Violation
  ELSE IF c.dir = "SERVER" THEN parseClientSetup(c.v, s) ELSE parseServerSetup(c.v, s)

onRequestStream(c) == c.streamID # <<>> /\ c.v >= 18
(* The type says which message is read; a type that was renamed is read as *)
(* the message that has it now.                                            *)
MessageOf(c) ==
  CASE c.type \in {"FETCH_ERROR", "PUBLISH_ERROR"} -> "NAMESPACE"
    [] c.type = "LEGACY_SUBSCRIBE_NAMESPACE" -> "SUBSCRIBE_NAMESPACE"
    [] c.type = "PUBLISH_BLOCKED" /\ c.v < 18 -> "REQUEST_ERROR"
    [] OTHER -> c.type
SetupFrames == {"CLIENT_SETUP", "SERVER_SETUP", "SETUP"}

Completed(v, m) ==
  CASE m.frame = "SUBSCRIBE" -> parseSubscribeRequest(v, m)
    [] m.frame = "TRACK_STATUS" -> parseTrackStatus(v, m)
    [] m.frame = "REQUEST_UPDATE" -> parseRequestUpdate(v, m)
    [] m.frame = "SUBSCRIBE_OK" -> parseSubscribeOk(v, m)
    [] m.frame = "NAMESPACE" -> parseNamespace(v, m)
    [] m.frame = "REQUEST_ERROR" -> parseRequestError(v, m)
    [] m.frame = "PUBLISH_DONE" -> parsePublishDone(v, m)
    [] m.frame = "PUBLISH" -> parsePublish(v, m)
    [] m.frame = "PUBLISH_OK" -> parsePublishOk(v, m)
    [] m.frame = "FETCH" -> parseFetch(v, m)
    [] m.frame = "FETCH_OK" -> parseFetchOk(m)
    [] m.frame = "PUBLISH_NAMESPACE" -> parsePublishNamespace(v, m)
    [] m.frame = "REQUEST_OK" -> parseRequestOk(m)
    [] m.frame = "SUBSCRIBE_TRACKS" -> parseSubscribeTracks(v, m)
    [] m.frame = "SUBSCRIBE_NAMESPACE" -> parseSubscribeNamespace(v, m)
    [] OTHER -> OK(m, <<>>)
Parsed(c, s) ==
  IF MessageOf(c) \in SetupFrames THEN Violation
  ELSE Then(Fields(c.v, MessageOf(c), Layout(c.v, MessageOf(c), onRequestStream(c)), s),
            LAMBDA m, r : Completed(c.v, m))

Dispatch(c, m) ==
  CASE c.type \in {"SUBSCRIBE_OK", "FETCH_OK"} -> TellAnswer(c, m)
    [] c.type \in {"REQUEST_OK", "REQUEST_ERROR"} ->
         IF c.v >= 18 THEN TellAnswer(c, m) ELSE Tell(c, m)
    [] c.type = "REQUEST_UPDATE" -> Tell(c, WithID(c.streamID, "existingRequestID", m))
    [] c.type = "PUBLISH_DONE" -> Tell(c, WithID(c.streamID, "requestID", m))
    [] isRequestInitiating(c.type) -> Tell(setStreamRequestID(c, m.requestID), m)
    [] OTHER -> Tell(c, m)

(* A field that runs past the end of a whole frame is a violation.         *)
frameParsed(c, q) ==
  IF q.err # "none" THEN [c EXCEPT !.err = "violation"]
  ELSE LET done == [c EXCEPT !.seenSetup = TRUE, !.state = "TYPE",
                             !.ingress = Drop(@, c.length)]
       IN  IF c.seenSetup THEN Dispatch(done, q.val) ELSE Tell(done, q.val)
parseFrame(c) ==
  LET body == SubSeq(c.ingress, 1, c.length)
  IN  frameParsed(c, IF c.seenSetup THEN Parsed(c, body) ELSE parseSetupFrame(c, body))

gotType(c, q, types) ==
  CASE q.err # "none" -> [c EXCEPT !.err = "underflow"]
    [] q.err = "none" /\ types = {} -> [c EXCEPT !.err = "violation"]
    [] OTHER ->
         LET f == CHOOSE t \in types : TRUE
         IN  IF IF c.bidi THEN bidiFrameAllowed(c, f) ELSE checkFrameAllowed(c, f)
             THEN [c EXCEPT !.type = f, !.ingress = q.s, !.state = "LENGTH", !.first = TRUE]
             ELSE [c EXCEPT !.err = "violation"]
TypeRead(c, q) == gotType(c, q, {f \in DOMAIN Code : q.err = "none" /\ Code[f] = q.val})
parseFrameHeaderType(c) == TypeRead(c, Varint(c.v, c.ingress))

parseFrameLength(c) ==
  IF Len(c.ingress) < 2 THEN [c EXCEPT !.err = "underflow"]
  ELSE [c EXCEPT !.length = c.ingress[1] * 256 + c.ingress[2],
                 !.ingress = Drop(@, 2), !.state = "PAYLOAD"]
parseFramePayload(c) ==
  IF Len(c.ingress) < c.length THEN [c EXCEPT !.err = "underflow"] ELSE parseFrame(c)

onIngressEnd(c, eom) ==
  IF c.err = "underflow" /\ ~eom THEN [c EXCEPT !.err = None_]
  ELSE [c EXCEPT !.ingress = <<>>]

OnePiece(c) ==
  CASE c.state = "TYPE" -> parseFrameHeaderType(c)
    [] c.state = "LENGTH" -> parseFrameLength(c)
    [] c.state = "PAYLOAD" -> parseFramePayload(c)
RECURSIVE ReadFrames(_)
ReadFrames(c) ==
  IF c.err # None_ \/ (c.ingress = <<>> /\ c.state = "TYPE") THEN c ELSE ReadFrames(OnePiece(c))

(* The loop is entered only with a byte to read; a frame once begun goes   *)
(* from its type to its length and its body without asking again.          *)
controlOnIngress(c, data, eom) ==
  LET in == [c EXCEPT !.ingress = @ \o data]
  IN  onIngressEnd(IF in.ingress = <<>> THEN in ELSE ReadFrames(in), eom)

-----------------------------------------------------------------------------
(* The object codec.  The callback may ask it to stop after an object      *)
(* (BLOCKED): block counts down to the callback that does.                 *)

ObjectCodec(v, order) ==
  [v |-> v, state |-> "HEADER_TYPE", fetch |-> FALSE, options |-> getSubgroupOptions(v, 16),
   header |-> [priority |-> <<>>], left |-> 0, ctx |-> NoContext(order), ingress |-> <<>>,
   err |-> None_, stop |-> FALSE, block |-> FALSE, out |-> <<>>]

StreamPADDING == 321601064
isPaddingStreamType(v, type) == v >= 18 /\ type = StreamPADDING
parsePaddingData(s) == \A i \in DOMAIN s : s[i] = 0
writePaddingStream(v, n) ==
  IF v < 18 THEN WriteError ELSE writeVarint(v, StreamPADDING) \o [i \in 1 .. n |-> 0]

Fail(o, e) == [o EXCEPT !.err = e]
(* An object callback that answers BLOCKED stops the loop.                 *)
Object(o, event) == [o EXCEPT !.out = Append(@, event), !.stop = o.block, !.block = FALSE]

gotStreamType(o, type) ==
  CASE type = FETCH_HEADER -> [o EXCEPT !.state = "FETCH_HEADER", !.fetch = TRUE]
    [] isPaddingStreamType(o.v, type) -> [o EXCEPT !.state = "PADDING"]
    [] OTHER -> IF isValidSubgroupType(o.v, type)
                THEN [o EXCEPT !.state = "OBJECT_STREAM",
                               !.options = getSubgroupOptions(o.v, type)]
                ELSE Fail(o, "violation")
streamTypeRead(o, q) ==
  IF q.err # "none" THEN Fail(o, "underflow") ELSE gotStreamType([o EXCEPT !.ingress = q.s], q.val)
readHeaderType(o) == streamTypeRead(o, Varint(o.v, o.ingress))

readPadding(o, fin) ==
  IF ~parsePaddingData(o.ingress) THEN Fail(o, "violation")
  ELSE [o EXCEPT !.ingress = <<>>, !.state = IF fin THEN "FIN_DELIVERED" ELSE @]

gotFetchHeader(o, q) ==
  IF q.err # "none" THEN Fail(o, q.err)
  ELSE [o EXCEPT !.ingress = q.s, !.state = "OBJECT_HEADER",
                 !.out = Append(@, [ev |-> "fetch", id |-> q.val]),
                 !.ctx = setFetchGroupOrder(resetFetchContext, o.ctx.order)]
readFetchHeader(o) == gotFetchHeader(o, parseFetchHeader(o.v, o.ingress))

(* The session may answer BLOCKED here too, for a track it does not know.  *)
gotSubgroupHeader(o, q) ==
  IF q.err # "none" THEN Fail(o, q.err)
  ELSE [Object(o, [ev |-> "subgroup", header |-> q.val, options |-> o.options]) EXCEPT
          !.ingress = q.s, !.state = "OBJECT_HEADER", !.header = q.val]
readSubgroupHeader(o) == gotSubgroupHeader(o, parseSubgroupHeader(o.v, o.ingress, o.options))

endOfStatus(o, h) ==
  IF h.status = END_OF_TRACK \/ (~o.fetch /\ h.status = END_OF_GROUP)
  THEN "FIN_DELIVERED" ELSE "OBJECT_HEADER"
Available(n, s) == IF n < Len(s) THEN n ELSE Len(s)
beginWith(o, h, fin, n, last) ==
  IF fin /\ n < h.length THEN Fail(o, "violation")
  ELSE [Object(o, [ev |-> "begin", header |-> h, payload |-> SubSeq(o.ingress, 1, n),
                   end |-> n = h.length, fin |-> last]) EXCEPT
          !.ingress = Drop(@, n), !.left = h.length - n,
          !.state = CASE n < h.length -> "PAYLOAD"
                      [] n = h.length /\ last -> "FIN_DELIVERED"
                      [] OTHER -> "OBJECT_HEADER"]
beginObject(o, h, fin) ==
  LET n == Available(h.length, o.ingress)
  IN  beginWith(o, h, fin, n, fin /\ Len(o.ingress) = n)
gotHeader(o, h, fin) ==
  IF h.status = NORMAL THEN beginObject(o, h, fin)
  ELSE [Object(o, [ev |-> "status", header |-> h]) EXCEPT !.state = endOfStatus(o, h)]
objectRead(o, x, fin) ==
  IF "marker" \in DOMAIN x
  THEN [o EXCEPT !.out = Append(@, [ev |-> "endOfRange", at |-> x.marker,
                                    unknown |-> x.unknown])]
  ELSE gotHeader(o, x.header, fin)

gotFetchObject(o, q, fin) ==
  IF q.err # "none" THEN Fail(o, q.err)
  ELSE objectRead([o EXCEPT !.ingress = q.s, !.ctx = q.val.ctx], q.val, fin)
gotSubgroupObject(o, q, fin) ==
  IF q.err # "none" THEN Fail(o, q.err)
  ELSE objectRead([o EXCEPT !.ingress = q.s, !.ctx.id = <<q.val.id>>], [header |-> q.val], fin)
readObject(o, fin) ==
  IF o.fetch THEN gotFetchObject(o, parseFetchObjectHeader(o.v, o.ingress, o.ctx), fin)
  ELSE gotSubgroupObject(o,
         parseSubgroupObjectHeader(o.v, o.ingress, o.header, o.options, o.ctx.id), fin)

readPart(o, fin, n) ==
  IF fin /\ n < o.left THEN Fail(o, "violation")
  ELSE [Object(o, [ev |-> "payload", payload |-> SubSeq(o.ingress, 1, n), end |-> n = o.left])
          EXCEPT !.ingress = Drop(@, n), !.left = @ - n,
                 !.state = IF n = o.left THEN "OBJECT_HEADER" ELSE @]
readPayload(o, fin) == readPart(o, fin, Available(o.left, o.ingress))

OneStep(o, fin) ==
  CASE o.state = "HEADER_TYPE" -> readHeaderType(o)
    [] o.state = "PADDING" -> readPadding(o, fin)
    [] o.state = "FETCH_HEADER" -> readFetchHeader(o)
    [] o.state = "OBJECT_STREAM" -> readSubgroupHeader(o)
    [] o.state = "OBJECT_HEADER" -> readObject(o, fin)
    [] o.state = "PAYLOAD" -> readPayload(o, fin)
    [] o.state = "FIN_DELIVERED" -> Fail(o, "violation")
RECURSIVE ReadObjects(_, _)
ReadObjects(o, fin) ==
  IF o.err # None_ \/ o.stop \/ o.ingress = <<>> THEN o ELSE ReadObjects(OneStep(o, fin), fin)

(* Mutant: the end is told again after an object that carried it.          *)
onStreamEnd_Twice(o) ==
  IF o.state = "PADDING" THEN [o EXCEPT !.state = "FIN_DELIVERED"]
  ELSE [o EXCEPT !.out = Append(@, [ev |-> "end"])]
onStreamEnd(o) ==
  CASE o.state = "PADDING" -> [o EXCEPT !.state = "FIN_DELIVERED"]
    [] o.state = "FIN_DELIVERED" -> o
    [] OTHER -> [o EXCEPT !.out = Append(@, [ev |-> "end"])]

ingressRead(o, fin) ==
  IF o.stop THEN o
  ELSE onIngressEnd(IF fin /\ o.err = None_ THEN onStreamEnd(o) ELSE o, fin)
objectOnIngress(o, data, fin) ==
  ingressRead(ReadObjects([o EXCEPT !.ingress = @ \o data, !.stop = FALSE], fin), fin)
=============================================================================
