------------------------------- MODULE MCWire -------------------------------
(***************************************************************************)
(* Messages and objects on their way from a writer to a codec: whatever    *)
(* pieces the bytes arrive in, the callbacks get what was sent.            *)
(*                                                                         *)
(* A scenario of control messages is a codec and the messages in front of  *)
(* it; one of objects is a stream type and its objects.  Parts without     *)
(* pieces (numbers and datagrams) are checked in their first state.  *)
(***************************************************************************)
EXTENDS MoQCodec

CONSTANTS Drafts, Parts, Pieces

V3 == INSTANCE MoQVarint WITH ByteBits <- 3

VARIABLES part, sent, flight, codec, fin
vars == <<part, sent, flight, codec, fin>>

-----------------------------------------------------------------------------
(* Sample messages: a plain one, each change to it alone, and all at once. *)

Variants(base, changes) ==
  {base} \cup {c @@ base : c \in Range(changes)}
    \cup {FoldLeft(LAMBDA m, c : c @@ m, base, changes)}

Str(n) == <<n>>
Name == [ns |-> <<<<1>>, <<2, 3>>>>, name |-> <<4>>]
LongName == [ns |-> <<[i \in 1 .. 70 |-> 1]>>, name |-> <<>>]
Token == Param(AUTHORIZATION_TOKEN, <<300, 1, 2>>)
Timeout == IntParam(DELIVERY_TIMEOUT, 70)
Path == Param(HOP_PATH, <<1, 0, 2, 0>>)
Cost == IntParam(ROUTE_COST, 100)
Props == [mut |-> <<Ext(60, <<5>>), Ext(2, <<9>>), Ext(5, <<1, 2>>)>>,
          immut |-> <<Ext(70, <<300>>), Ext(9, <<>>)>>]
Fill == <<Param(FILL_TIMEOUT, <<300>>), Param(SUBSCRIBER_PRIORITY, <<3>>),
          Param(LOCATION_FILTER, relativeStart(2)), Param(GROUP_ORDER, <<2>>)>>
If22(v, changes) == IF v >= 22 THEN changes ELSE <<>>
If18(v, changes) == IF v >= 18 THEN changes ELSE <<>>
Cluster(v) == IF negotiated(v) THEN <<Path>> ELSE <<>>

Subscribe(v) ==
  Variants([frame |-> "SUBSCRIBE", requestID |-> 6, name |-> Name, params |-> <<>>,
            filter |-> nextObject, fill |-> <<>>, groupOrder |-> <<>>, priority |-> 128,
            forward |-> TRUE, includeProperties |-> TRUE],
    <<[requestID |-> 16384, filter |-> none], [filter |-> relativeStart(0), name |-> LongName],
      [filter |-> absoluteStart(<<3, 1>>)], [filter |-> rangeToGroup(<<200, 1>>, 205)],
      [priority |-> 0], [groupOrder |-> <<2>>], [forward |-> FALSE],
      [params |-> <<Token, Timeout>>]>>
    \o If22(v, <<[fill |-> <<Fill>>], [includeProperties |-> FALSE],
                 [filter |-> rangeToObject(<<2, 1>>, <<2, 5>>)]>>))

TrackStatus(v) ==
  Variants([frame |-> "TRACK_STATUS", requestID |-> 6, name |-> Name, params |-> <<>>,
            includeProperties |-> TRUE],
    <<[params |-> <<Token>>]>> \o If22(v, <<[includeProperties |-> FALSE]>>))

Update(v, existing) ==
  Variants([frame |-> "REQUEST_UPDATE", requestID |-> 8, existingRequestID |-> existing,
            params |-> <<>>, filter |-> <<>>, fill |-> <<>>, priority |-> <<>>,
            forward |-> <<>>],
    <<[priority |-> <<128>>], [forward |-> <<TRUE>>], [params |-> <<Timeout>>],
      [filter |-> <<rangeToGroup(<<2, 1>>, 2)>>], [filter |-> <<absoluteStart(<<2, 1>>)>>]>>
    \o If22(v, <<[fill |-> <<Fill>>], [filter |-> <<relativeStart(3)>>]>>)
    \o If18(v, <<[params |-> <<encodeTrackNamespacePrefixParam(v, Name.ns)>>]>>))

SubscribeOk(v) ==
  Variants([frame |-> "SUBSCRIBE_OK", requestID |-> 5, trackAlias |-> 1, params |-> <<>>,
            extensions |-> noExtensions, expires |-> 0, largest |-> <<>>,
            groupOrder |-> OldestFirst],
    <<[trackAlias |-> 70000], [expires |-> 64], [largest |-> <<<<0, 0>>>>],
      [extensions |-> Props],
      [groupOrder |-> NewestFirst, extensions |-> [Props EXCEPT !.mut = <<Ext(34, <<2>>)>>]]>>)

PublishDone(v) ==
  {[frame |-> "PUBLISH_DONE", requestID |-> 5, statusCode |-> x, streamCount |-> 2,
    reasonPhrase |-> <<7>>] : x \in {0, TOO_FAR_BEHIND, EXPIRED}}

Publish(v) ==
  Variants([frame |-> "PUBLISH", requestID |-> 6, name |-> Name, trackAlias |-> 3,
            params |-> <<>>, extensions |-> noExtensions, forward |-> TRUE, largest |-> <<>>,
            groupOrder |-> OldestFirst],
    <<[forward |-> FALSE], [largest |-> <<<<3, 4>>>>], [params |-> <<Token>>],
      [extensions |-> Props]>>
    \o If22(v, <<[params |-> <<Timeout, IntParam(SUBSCRIBER_PRIORITY, 2)>>]>>))

PublishOk(v) ==
  LET base == [frame |-> "PUBLISH_OK", requestID |-> 5, params |-> <<>>,
               filter |-> absoluteStart(<<0, 0>>), groupOrder |-> <<>>, priority |-> 128,
               forward |-> TRUE]
  IN  IF v >= 22 THEN Variants(base, <<[params |-> <<IntParam(EXPIRES, 9)>>]>>)
      ELSE Variants(base, <<[filter |-> relativeStart(1)], [groupOrder |-> <<1>>],
             [priority |-> 3], [forward |-> FALSE], [params |-> <<Timeout>>]>>)

Ok(id) == [frame |-> "REQUEST_OK", requestID |-> id, extensions |-> noExtensions,
           lists |-> [params |-> <<>>, spec |-> <<>>]]
TrackStatusOk(v) ==
  Variants([frame |-> "TRACK_STATUS_OK", requestID |-> 5, params |-> <<>>, expires |-> 0,
            largest |-> <<>>, extensions |-> noExtensions],
    <<[expires |-> 70], [largest |-> <<<<2, 2>>>>]>> \o If18(v, <<[extensions |-> Props]>>))
Error(v, id) ==
  Variants([frame |-> "REQUEST_ERROR", requestID |-> id, errorCode |-> 1,
            retryInterval |-> 0, reasonPhrase |-> <<>>, redirect |-> <<>>],
    <<[retryInterval |-> 64, reasonPhrase |-> <<1, 2>>]>>
    \o If18(v, <<[errorCode |-> REDIRECT, redirect |-> <<<<1>>, Name>>]>>))

PublishNamespace(v) ==
  Variants([frame |-> "PUBLISH_NAMESPACE", requestID |-> 6, namespace |-> Name.ns,
            params |-> Cluster(v)],
    <<[namespace |-> <<>>], [params |-> <<Token>> \o Cluster(v)]>>
    \o (IF negotiated(v) THEN <<[params |-> <<Cost, Path>>]>> ELSE <<>>))
SubscribeNamespace(v) ==
  Variants([frame |-> "SUBSCRIBE_NAMESPACE", requestID |-> 6, namespace |-> Name.ns,
            params |-> <<>>, options |-> NAMESPACE_ONLY, forward |-> TRUE],
    <<[params |-> <<Param(TRACK_FILTER, <<3, 70>>), Token>>]>>
    \o (IF v < 18 THEN <<[options |-> 2, forward |-> FALSE]>> ELSE <<>>))
SubscribeTracks(v) ==
  Variants([frame |-> "SUBSCRIBE_TRACKS", requestID |-> 6, namespace |-> Name.ns,
            params |-> <<>>, forward |-> TRUE, includeProperties |-> TRUE],
    <<[forward |-> FALSE], [params |-> <<IntParam(GROUP_ORDER, 2), Timeout>>]>>
    \o If22(v, <<[includeProperties |-> FALSE]>>))

Fetch(v) ==
  Variants([frame |-> "FETCH", requestID |-> 6, fetchType |-> STANDALONE, name |-> Name,
            args |-> [start |-> <<1, 2>>, end |-> <<3, 0>>], params |-> <<>>,
            groupOrder |-> OldestFirst, priority |-> 128, includeProperties |-> TRUE,
            filter |-> IF v >= 22 THEN rangeToGroup(<<1, 2>>, 3) ELSE none],
    <<[priority |-> 1], [groupOrder |-> NewestFirst], [params |-> <<Token>>]>>
    \o If22(v, <<[includeProperties |-> FALSE],
                 [args |-> [start |-> <<1, 2>>, end |-> <<3, 4>>],
                  filter |-> rangeToObject(<<1, 2>>, <<3, 3>>)],
                 [args |-> [start |-> <<0, 0>>, end |-> <<0, 0>>],
                  filter |-> relativeStart(2)]>>)
    \o (IF v < 22 THEN <<[fetchType |-> 2, name |-> NoName, args |-> [id |-> 4, from |-> 1]]>>
        ELSE <<>>))
FetchOk(v) ==
  Variants([frame |-> "FETCH_OK", requestID |-> 5, endOfTrack |-> 0, endLocation |-> <<3, 4>>,
            params |-> <<>>, extensions |-> noExtensions, groupOrder |-> OldestFirst],
    <<[endOfTrack |-> 1], [extensions |-> Props]>>)

Goaway(v, onRequest) ==
  LET base == [frame |-> "GOAWAY", newSessionUri |-> <<1, 2>>]
  IN  {base @@ (IF v >= 18 THEN [timeout |-> 70] ELSE <<>>)
            @@ (IF GoawayHasID(v, onRequest) THEN [requestID |-> 4] ELSE <<>>)}

Setup(v, client) ==
  LET limits == IF v < 18 THEN <<IntParam(MAX_AUTH_TOKEN_CACHE_SIZE, 1024),
                                 IntParam(MAX_REQUEST_ID_KEY, 100)>>
                ELSE <<IntParam(RELAY_COST, 1), IntParam(HOP_ID, 7)>>
  IN  {[frame |-> IF client THEN "CLIENT_SETUP" ELSE "SERVER_SETUP", params |-> ps] :
         ps \in {<<>>, limits, <<Param(5, <<1>>)>> \o limits \o <<Param(1, <<2, 3>>)>>}}

-----------------------------------------------------------------------------
(* Who reads what.                                                         *)

Established(v) == [ControlCodec(v, "SERVER") EXCEPT !.seenSetup = TRUE]
Blocked == [frame |-> "REQUESTS_BLOCKED", requestID |-> 300]
OneIDs == {[frame |-> f, requestID |-> 70] :
             f \in {"UNSUBSCRIBE", "MAX_REQUEST_ID", "REQUESTS_BLOCKED", "FETCH_CANCEL",
                    "PUBLISH_NAMESPACE_DONE"}}
Cancels == {[frame |-> "PUBLISH_NAMESPACE_CANCEL", requestID |-> 6, errorCode |-> 2,
             reasonPhrase |-> <<1>>]}

Scenario(v, c, msgs) == [v |-> v, codec |-> c, msgs |-> msgs]

SetupScenarios(v) ==
  {Scenario(v, ControlCodec(v, "SERVER"), <<m, g>>) :
     m \in Setup(v, TRUE), g \in Goaway(v, FALSE)}
    \cup {Scenario(v, ControlCodec(v, "CLIENT"), <<m>>) : m \in Setup(v, FALSE)}

(* Below draft 18 nearly everything comes on the control stream.           *)
ControlScenarios(v) ==
  {Scenario(v, Established(v), <<m, Blocked>>) :
     m \in Subscribe(v) \cup TrackStatus(v) \cup Update(v, 4) \cup SubscribeOk(v)
             \cup PublishDone(v) \cup Publish(v) \cup PublishOk(v) \cup {Ok(5)}
             \cup TrackStatusOk(v) \cup Error(v, 5) \cup PublishNamespace(v) \cup Fetch(v)
             \cup FetchOk(v) \cup OneIDs \cup Cancels \cup Goaway(v, FALSE)}

(* From draft 18 on a request opens a stream of its own.                   *)
RequestScenarios(v) ==
  LET Requests == Subscribe(v) \cup Fetch(v) \cup Publish(v) \cup PublishNamespace(v)
                    \cup SubscribeNamespace(v) \cup SubscribeTracks(v) \cup TrackStatus(v)
      Stream(m, more) ==
        Scenario(v, MoQBidiStreamCodec(v, {m.frame, "REQUEST_UPDATE"}, <<>>, ""), <<m>> \o more)
      Plain == CHOOSE m \in Subscribe(v) : m.name = Name /\ m.requestID = 6 /\ m.params = <<>>
  IN  {Stream(m, <<>>) : m \in Requests} \cup {Stream(Plain, <<u>>) : u \in Update(v, 6)}

(* The answers: the request's own first, then those of updates 7 and 9.    *)
AnswerCodec(v, ok, more) ==
  [MoQBidiStreamCodec(v, {"REQUEST_OK", "REQUEST_ERROR", "GOAWAY"} \cup more, <<5>>, ok)
     EXCEPT !.queue = <<7, 9>>]
AnswerScenarios(v) ==
  LET Later(m, ok, more, end) ==
        {Scenario(v, AnswerCodec(v, ok, more), <<m, Ok(7), e>> \o end) : e \in Error(v, 9)}
  IN  UNION {Later(m, "SUBSCRIBE_OK", {"PUBLISH_DONE"}, <<d>>) :
               m \in SubscribeOk(v), d \in PublishDone(v)}
      \cup UNION {Later(m, "FETCH_OK", {}, <<g>>) : m \in FetchOk(v), g \in Goaway(v, TRUE)}
      \cup UNION {Later(m, "REQUEST_OK", {}, <<>>) :
                    m \in PublishOk(v) \cup TrackStatusOk(v) \cup Error(v, 5) \cup {Ok(5)}}

(* The streams of SUBSCRIBE_NAMESPACE and SUBSCRIBE_TRACKS.                *)
Names(v, frame) ==
  {[frame |-> frame, namespace |-> Name.ns] @@
     (IF frame = "NAMESPACE" THEN [params |-> Cluster(v)] ELSE <<>>)}
NamespaceScenarios(v) ==
  {Scenario(v, MoQBidiStreamCodec(v, {"NAMESPACE", "NAMESPACE_DONE", "PUBLISH_BLOCKED"},
                                  <<5>>, "REQUEST_OK"),
            <<Ok(5), n, d>> \o If18(v, <<[frame |-> "PUBLISH_BLOCKED", namespace |-> <<>>,
                                          trackName |-> <<1>>]>>)) :
     n \in Names(v, "NAMESPACE"), d \in Names(v, "NAMESPACE_DONE")}
LegacyNamespaceScenarios(v) ==
  {Scenario(v, MoQBidiStreamCodec(v, {"LEGACY_SUBSCRIBE_NAMESPACE", "REQUEST_UPDATE"},
                                  <<>>, ""), <<m>>) : m \in SubscribeNamespace(v)}

MessageScenarios(v) ==
  SetupScenarios(v) \cup NamespaceScenarios(v)
    \cup (IF v < 18 THEN ControlScenarios(v) \cup LegacyNamespaceScenarios(v)
          ELSE RequestScenarios(v) \cup AnswerScenarios(v))

Write(v, c, m) ==
  CASE m.frame = "SUBSCRIBE" -> writeSubscribeRequest(v, m)
    [] m.frame = "TRACK_STATUS" -> writeTrackStatus(v, m)
    [] m.frame = "REQUEST_UPDATE" -> writeRequestUpdate(v, m)
    [] m.frame = "SUBSCRIBE_OK" -> writeSubscribeOk(v, m)
    [] m.frame = "UNSUBSCRIBE" -> writeUnsubscribe(v, m)
    [] m.frame = "MAX_REQUEST_ID" -> writeMaxRequestID(v, m)
    [] m.frame = "REQUESTS_BLOCKED" -> writeRequestsBlocked(v, m)
    [] m.frame = "FETCH_CANCEL" -> writeFetchCancel(v, m)
    [] m.frame = "PUBLISH_NAMESPACE_DONE" -> writePublishNamespaceDone(v, m)
    [] m.frame = "PUBLISH_NAMESPACE_CANCEL" -> writePublishNamespaceCancel(v, m)
    [] m.frame = "PUBLISH_DONE" -> writePublishDone(v, m)
    [] m.frame = "PUBLISH" -> writePublish(v, m)
    [] m.frame = "PUBLISH_OK" -> writePublishOk(v, m)
    [] m.frame = "REQUEST_OK" -> writePublishNamespaceOk(v, m)
    [] m.frame = "TRACK_STATUS_OK" -> writeTrackStatusOk(v, m)
    [] m.frame = "REQUEST_ERROR" -> writeRequestError(v, m)
    [] m.frame = "PUBLISH_NAMESPACE" -> writePublishNamespace(v, m)
    [] m.frame = "SUBSCRIBE_NAMESPACE" -> writeSubscribeNamespace(v, m)
    [] m.frame = "SUBSCRIBE_TRACKS" -> writeSubscribeTracks(v, m)
    [] m.frame = "PUBLISH_BLOCKED" -> writePublishBlocked(v, m)
    [] m.frame = "NAMESPACE" -> writeNamespace(v, m)
    [] m.frame = "NAMESPACE_DONE" -> writeNamespaceDone(v, m)
    [] m.frame = "GOAWAY" -> writeGoaway(v, m, c.bidi)
    [] m.frame = "FETCH" -> writeFetch(v, m)
    [] m.frame = "FETCH_OK" -> writeFetchOk(v, m)
    [] m.frame = "CLIENT_SETUP" -> writeClientSetup(v, m)
    [] m.frame = "SERVER_SETUP" -> writeServerSetup(v, m)

-----------------------------------------------------------------------------
(* The same message, whatever the order of its parameters; an answer is    *)
(* read by the session as the answer to its request.                       *)

InOrder(m) ==
  [f \in DOMAIN m |->
     IF f = "params" THEN sortParamsByKey(WithoutKeys(m[f], {INCLUDE_PROPERTIES}))
     ELSE IF f = "extensions" THEN [mut |-> sortExtensionsByType(m[f].mut),
                                    immut |-> sortExtensionsByType(m[f].immut)]
     ELSE m[f]]
ReadAs(v, m, got) ==
  CASE m.frame = "TRACK_STATUS_OK" -> toTrackStatusOk(got)
    [] m.frame = "PUBLISH_OK" /\ v >= 18 -> requestOkToPublishOk(v, got).val
    [] OTHER -> got

-----------------------------------------------------------------------------
(* Sample streams.                                                         *)

Obj(g, sub, id, pri, exts, status, n) ==
  [group |-> g, subgroup |-> sub, id |-> id, priority |-> pri, exts |-> exts,
   status |-> status, payload |-> [i \in 1 .. n |-> (10 * id + i) % 256], datagram |-> FALSE]
Dgram(g, id, pri, n) == [Obj(g, 0, id, pri, noExtensions, NORMAL, n) EXCEPT !.datagram = TRUE]

SubgroupStream(v, format, sub, hasExtensions, priority, first) ==
  LET options == [format |-> format, hasExtensions |-> hasExtensions, hasEndOfGroup |-> FALSE,
                  priorityPresent |-> priority # <<>>, first |-> v >= 18 /\ first]
      Exts(i) == IF hasExtensions /\ i # 2 THEN Props ELSE noExtensions
      O(i, id, status, n) == Obj(300, sub, id, priority, IF status = NORMAL THEN Exts(i)
                                                         ELSE noExtensions, status, n)
  IN  [v |-> v, kind |-> "subgroup", options |-> options,
       header |-> [alias |-> 70, group |-> 300, subgroup |-> sub, priority |-> priority],
       objects |-> <<O(1, 7, NORMAL, 3), O(2, 8, NORMAL, 0), O(3, 80, NORMAL, 2),
                     O(4, 81, END_OF_GROUP, 0)>>]
SubgroupStreams(v) ==
  {SubgroupStream(v, "Zero", 0, FALSE, <<>>, TRUE), SubgroupStream(v, "Present", 9, TRUE, <<3>>, FALSE),
   SubgroupStream(v, "FirstObject", 7, FALSE, <<128>>, TRUE)}

FetchStream(v, order, objects) ==
  [v |-> v, kind |-> "fetch", order |-> order, requestID |-> 6, objects |-> objects]
FetchStreams(v) ==
  LET X == noExtensions
      up == <<Obj(4, 0, 2, <<1>>, X, NORMAL, 2), Obj(4, 0, 3, <<1>>, Props, NORMAL, 0),
              Obj(4, 1, 9, <<1>>, X, NORMAL, 1), Obj(4, 1, 11, <<0>>, X, NORMAL, 1),
              Obj(6, 5, 12, <<0>>, X, NORMAL, 1), Dgram(6, 14, <<0>>, 1),
              [marker |-> <<8, 3>>], Obj(9, 1, 1, <<0>>, X, NORMAL, 1)>>
      down == <<Obj(9, 3, 2, <<1>>, X, NORMAL, 1), Obj(9, 3, 3, <<1>>, X, NORMAL, 1),
                Obj(5, 3, 4, <<1>>, X, NORMAL, 1), Obj(4, 4, 0, <<1>>, X, NORMAL, 1),
                [marker |-> <<2, 3>>], Obj(0, 4, 4, <<2>>, X, NORMAL, 1)>>
  IN  {FetchStream(v, Ascending, up), FetchStream(v, Descending, down)}
PaddingStreams(v) == IF v >= 18 THEN {[v |-> v, kind |-> "padding", objects |-> <<>>]} ELSE {}
Streams(v) == SubgroupStreams(v) \cup FetchStreams(v) \cup PaddingStreams(v)

StreamHeader(t) ==
  CASE t.kind = "subgroup" -> writeSubgroupHeader(t.v, t.header, t.options)
    [] t.kind = "fetch" -> writeFetchHeader(t.v, t.requestID)
    [] t.kind = "padding" -> writePaddingStream(t.v, 3)
StreamTypeOf(t) ==
  IF t.kind = "subgroup" THEN SubgroupType(t.v, t.header, t.options) ELSE FETCH_HEADER

(* A marker comes from a peer: this writer has no operation for it.        *)
WriteItem(t, w, item) ==
  IF "marker" \in DOMAIN item
  THEN [ctx |-> [w.ctx EXCEPT !.group = <<item.marker[1]>>, !.id = <<item.marker[2]>>],
        parts |-> Append(w.parts, writeVarint(t.v, EndOfUnknownRange)
                                    \o writeLocation(t.v, item.marker))]
  ELSE LET x == writeStreamObject(t.v, StreamTypeOf(t), item, w.ctx)
       IN  [ctx |-> x.ctx, parts |-> Append(w.parts, x.bytes)]
StreamParts(t) ==
  FoldLeft(LAMBDA w, item : WriteItem(t, w, item),
           [ctx |-> resetWriterFetchContext(NoContext(IF t.kind = "fetch" THEN t.order ELSE Ascending)),
            parts |-> <<StreamHeader(t)>>], t.objects).parts

(* Where the frames or objects end in the stream.                          *)
Ends(parts) ==
  [i \in DOMAIN parts |-> FoldLeft(LAMBDA a, b : a + Len(b), 0, SubSeq(parts, 1, i))]

-----------------------------------------------------------------------------

Idle == [v |-> 0]
(* Messages that ask for a new group.                                      *)
NewGroupScenarios(v) ==
  LET ask == [params |-> <<IntParam(NEW_GROUP_REQUEST, 3)>>]
      subscribe == CHOOSE m \in Subscribe(v) : m.params = <<>>
      update == CHOOSE m \in Update(v, subscribe.requestID) : m.params = <<>>
  IN  {Scenario(v, IF v < 18 THEN Established(v)
                   ELSE MoQBidiStreamCodec(v, {"SUBSCRIBE", "REQUEST_UPDATE"}, <<>>, ""),
                <<ask @@ subscribe, ask @@ update>>)}

Start(what, parts, c) ==
  /\ sent = what @@ [ends |-> Ends(parts)]
  /\ flight = FlattenSeq(parts)
  /\ codec = c
InitMessages ==
  \E v \in Drafts :
  \E sc \in IF part = "newgroup" THEN NewGroupScenarios(v) ELSE MessageScenarios(v) :
    Start([v |-> v, msgs |-> sc.msgs],
          [i \in DOMAIN sc.msgs |-> Write(v, sc.codec, sc.msgs[i])], sc.codec)
InitStreams ==
  \E v \in Drafts : \E t \in Streams(v) :
    Start(t, StreamParts(t), ObjectCodec(v, IF t.kind = "fetch" THEN t.order ELSE Ascending))
InitValues == sent = Idle /\ codec = Idle /\ flight = <<>>
Init == /\ part \in Parts
        /\ fin = "no"
        /\ \/ part \in {"messages", "newgroup"} /\ InitMessages
           \/ part = "streams" /\ InitStreams
           \/ part \in {"varint", "datagram"} /\ InitValues

(* n more bytes arrive, perhaps with the end of the stream, which may come *)
(* before all bytes were sent, or alone (n = 0).  After BLOCKED the        *)
(* session reads on with no new bytes.                                     *)
Moving == part \in {"messages", "newgroup", "streams"} /\ fin = "no" /\ codec.err = None_
Stopped == part = "streams" /\ codec.stop
onIngress(c, data, eom, block) ==
  IF part # "streams" THEN controlOnIngress(c, data, eom)
  ELSE objectOnIngress([c EXCEPT !.block = block], data, eom)
EndedBy(n) ==
  CASE n = Len(flight) -> "whole"
    [] n < Len(flight) /\ n = 0 /\ codec.ingress = <<>> -> "bare"
    [] OTHER -> "cut"
Ingress(n, eom, block) ==
  /\ block => part = "streams"
  /\ IF Stopped THEN n = 0 /\ eom = (fin # "no") ELSE Moving /\ (n = 0 => eom)
  /\ codec' = onIngress(codec, SubSeq(flight, 1, n), eom, block)
  /\ flight' = Drop(flight, n)
  /\ fin' = IF eom /\ ~Stopped THEN EndedBy(n) ELSE fin
  /\ UNCHANGED <<part, sent>>

Sizes == {n \in Pieces \cup {0, Len(flight)} : n <= Len(flight)}
Next == \E n \in Sizes, eom, block \in BOOLEAN : Ingress(n, eom, block)
Spec == Init /\ [][Next]_vars

-----------------------------------------------------------------------------

Arrived == Last(sent.ends) - Len(flight)
Complete == Cardinality({i \in DOMAIN sent.ends : sent.ends[i] <= Arrived})
Inside == Arrived # 0 /\ Arrived \notin Range(sent.ends)

(* Control messages in any pieces: after every piece the callback has had  *)
(* exactly the messages that are complete, each as it was sent and with    *)
(* the ID of the request it belongs to, and no error.                      *)
MessagesArrive ==
  part = "messages" /\ (fin \in {"no", "whole"} \/ ~Inside) =>
    /\ codec.err = None_
    /\ Len(codec.out) = Complete
    /\ \A i \in DOMAIN codec.out :
         InOrder(ReadAs(sent.v, sent.msgs[i], codec.out[i])) = InOrder(sent.msgs[i])

(* A subscriber asks for a new group with a parameter of SUBSCRIBE or      *)
(* REQUEST_UPDATE; MoQForwarder and MoQRelay look for it among the         *)
(* parameters of the message they are given.                               *)
NewGroupRequestArrives ==
  part = "newgroup" =>
    \A i \in DOMAIN codec.out :
      FirstInt(codec.out[i].params, NEW_GROUP_REQUEST) =
        FirstInt(sent.msgs[i].params, NEW_GROUP_REQUEST)

(* What the object callbacks were given, put together.                     *)
Reassemble(out) ==
  FoldLeft(LAMBDA got, e :
    CASE e.ev \in {"begin", "status"} ->
           Append(got, [group |-> e.header.group, subgroup |-> e.header.subgroup,
                        id |-> e.header.id, priority |-> e.header.priority,
                        exts |-> e.header.exts, status |-> e.header.status,
                        datagram |-> e.header.datagram,
                        payload |-> IF e.ev = "begin" THEN e.payload ELSE <<>>,
                        end |-> e.ev = "status" \/ e.end])
      [] e.ev = "payload" -> [got EXCEPT ![Len(got)].payload = @ \o e.payload,
                                         ![Len(got)].end = e.end]
      [] e.ev = "endOfRange" -> Append(got, [marker |-> e.at, end |-> TRUE])
      [] OTHER -> got, <<>>, out)
Same(got, item) ==
  IF "marker" \in DOMAIN item THEN got = item @@ [end |-> TRUE]
  ELSE LET g == [got EXCEPT !.exts.mut = sortExtensionsByType(@),
                            !.exts.immut = sortExtensionsByType(@)]
           whole == item @@ [end |-> TRUE]
           sorted == [whole EXCEPT !.exts.mut = sortExtensionsByType(@),
                                   !.exts.immut = sortExtensionsByType(@)]
       IN  IF got.end THEN g = sorted
           ELSE /\ [g EXCEPT !.payload = <<>>, !.end = TRUE] = [sorted EXCEPT !.payload = <<>>]
                /\ IsPrefix(got.payload, item.payload)

(* Objects in any pieces, with the reader stopping wherever it likes: the  *)
(* callbacks get every object with the group, subgroup, ID, priority,      *)
(* properties, status and payload it was sent with, in order; only the     *)
(* last may be incomplete; a complete one is not kept back.                *)
ObjectsArrive ==
  part = "streams" /\ fin \in {"no", "whole"} =>
    LET got == Reassemble(codec.out)
        done == SelectSeq(got, LAMBDA x : x.end)
    IN  /\ codec.err = None_
        /\ \A i \in DOMAIN got : Same(got[i], sent.objects[i])
        /\ \A i \in DOMAIN got : i < Len(got) => got[i].end
        /\ ~codec.stop /\ sent.kind # "padding" /\ Complete > 0 => Len(done) = Complete - 1

(* The end of a stream is told once: with its last object, by a status     *)
(* that ends it, or by itself.                                             *)
EndEvents(out) ==
  Cardinality({i \in DOMAIN out : \/ out[i].ev = "end"
                                  \/ out[i].ev = "begin" /\ out[i].fin
                                  \/ out[i].ev = "status"})
EndToldOnce ==
  part = "streams" /\ sent.kind # "padding" /\ codec.err = None_ =>
    /\ EndEvents(codec.out) <= 1
    /\ fin = "whole" /\ ~codec.stop => EndEvents(codec.out) = 1

(* A stream that ends inside a frame or an object is an error, when the    *)
(* end comes with the bytes before it or with a field half read (and more  *)
(* than the type of the stream was there).                                 *)
OnlyType == part = "streams" /\ Arrived = Len(writeVarint(sent.v, StreamTypeOf(sent)))
CutNoticed ==
  /\ part = "messages" \/ (part = "streams" /\ sent.kind # "padding")
  /\ fin = "cut" /\ Inside /\ ~Stopped /\ ~OnlyType
  => codec.err # None_

(* The tests of the codec expect an error for every stream that ends       *)
(* inside an object (MoQCodecTest.cpp, TruncatedObject and                 *)
(* TruncatedObjectPayload).                                                *)
TruncationIsError ==
  /\ part = "streams" /\ sent.kind # "padding" /\ Complete > 0
  /\ fin \in {"cut", "bare"} /\ Inside /\ ~Stopped
  => codec.err # None_

-----------------------------------------------------------------------------
(* The parts that are checked in their first state.                        *)

(* Every number has one encoding, the shortest there is; it is read back   *)
(* whatever follows it, and no beginning of it is taken for a number.      *)
VarintExact ==
  part = "varint" =>
    \A x \in 0 .. 511 :
      LET e == V3!encodeMoQVarint(x)
          fits == {n \in 1 .. 3 : x < 2^(2 * n)}
      IN  /\ Len(e) = IF fits = {} THEN 4 ELSE CHOOSE n \in fits : \A m \in fits : n <= m
          /\ \A rest \in {<<>>, <<0>>, <<7, 5>>} :
               V3!decodeMoQVarint(e \o rest) = [val |-> x, n |-> Len(e)]
          /\ \A n \in 0 .. (Len(e) - 1) : V3!decodeMoQVarint(SubSeq(e, 1, n)) = V3!NoVarint

(* A datagram carries its object, its track and its end-of-group mark.     *)
SampleDatagrams ==
  {[Obj(5, 0, id, pri, exts, NORMAL, n) EXCEPT !.datagram = TRUE] :
     id \in {0, 70}, pri \in {<<>>, <<3>>}, exts \in {noExtensions, Props}, n \in {1, 3}}
    \cup {[Obj(5, 0, id, pri, noExtensions, status, 0) EXCEPT !.datagram = TRUE] :
            id \in {0, 70}, pri \in {<<>>, <<3>>}, status \in {NORMAL, END_OF_GROUP, END_OF_TRACK}}
DatagramsArrive ==
  part = "datagram" =>
    \A v \in Drafts, o \in SampleDatagrams, end \in BOOLEAN :
      LET q == Datagram(v, writeDatagramObject(v, 300, o, end))
      IN  /\ q.err = "none"
          /\ q.val.alias = 300
          /\ q.val.endOfGroup = (end /\ o.payload # <<>>)
          /\ Same(q.val.object @@ [end |-> TRUE], o)

(* What is written arrives as it was sent, whatever the pieces: control    *)
(* messages, the objects of streams and datagrams, and every number.       *)
WrittenArrives == MessagesArrive /\ ObjectsArrive /\ DatagramsArrive /\ VarintExact

(* The end of a stream is told once, and noticed when it comes too early.  *)
StreamEndTold == EndToldOnce /\ CutNoticed
=============================================================================
