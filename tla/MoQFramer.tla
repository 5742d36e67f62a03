----------------------------- MODULE MoQFramer -----------------------------
(***************************************************************************)
(* The control messages (MoQFramer.cpp): how each one is written and how   *)
(* it is parsed, in the drafts 16, 18 and 22.                              *)
(*                                                                         *)
(* A message is a record with the field frame.  An optional field is a     *)
(* sequence of no or one value.  From draft 18 on an answer carries no     *)
(* request ID: the stream it comes on says what it answers, so the parser  *)
(* leaves the field out and the codec adds it.                             *)
(***************************************************************************)
EXTENDS MoQExtensions

CONSTANT HopDrafts     \* the drafts in which RELAY_HOPS was negotiated

kDefaultPriority == 128
OldestFirst == 1
NewestFirst == 2
REDIRECT == 20

Code ==
  [REQUEST_UPDATE |-> 2, SUBSCRIBE |-> 3, SUBSCRIBE_OK |-> 4, REQUEST_ERROR |-> 5,
   PUBLISH_NAMESPACE |-> 6, REQUEST_OK |-> 7, NAMESPACE |-> 8,
   PUBLISH_NAMESPACE_DONE |-> 9, UNSUBSCRIBE |-> 10, PUBLISH_DONE |-> 11,
   PUBLISH_NAMESPACE_CANCEL |-> 12, TRACK_STATUS |-> 13, NAMESPACE_DONE |-> 14,
   PUBLISH_BLOCKED |-> 15, GOAWAY |-> 16, LEGACY_SUBSCRIBE_NAMESPACE |-> 17,
   MAX_REQUEST_ID |-> 21, FETCH |-> 22, FETCH_CANCEL |-> 23, FETCH_OK |-> 24,
   REQUESTS_BLOCKED |-> 26, PUBLISH |-> 29, PUBLISH_OK |-> 30,
   FETCH_ERROR |-> 25, PUBLISH_ERROR |-> 31, CLIENT_SETUP |-> 32, SERVER_SETUP |-> 33, SETUP |-> 12032,
   SUBSCRIBE_NAMESPACE |-> 80, SUBSCRIBE_TRACKS |-> 81]

writeFrameHeader(v, frame) == writeVarint(v, Code[frame])
writeSize(n) == IF n > 65535 THEN WriteError ELSE <<n \div 256, n % 256>>
Frame(v, frame, body) ==
  IF IsError(body) THEN WriteError
  ELSE writeFrameHeader(v, frame) \o writeSize(Len(body)) \o body

(* A message is parsed field by field; nothing may be left after the last. *)
Read(v, frame, kind, s) ==
  CASE kind = "int" -> Varint(v, s)
    [] kind = "byte" -> Uint8(s)
    [] kind = "string" -> parseFixedString(v, s)
    [] kind = "tuple" -> parseNamespaceTuple(v, s)
    [] kind = "name" -> parseFullTrackName(v, s)
    [] kind = "location" -> parseAbsoluteLocation(v, s)
    [] kind = "params" -> parseTrackRequestParams(v, frame, s)
    [] kind = "properties" -> parseExtensionKvPairs(v, s)

AddField(q, name, x) ==
  IF x.err = "none" THEN OK(q.val @@ (name :> x.val), x.s) ELSE x
Whole(q) == Then(q, LAMBDA m, r : IF r # <<>> THEN Violation ELSE q)

Only(cond, seq) == IF cond THEN seq ELSE <<>>
AnswerID(v) == Only(v < 18, <<<<"requestID", "int">>>>)
writeAnswerID(v, m) == IF v < 18 THEN writeVarint(v, m.requestID) ELSE <<>>
RequestID == <<<<"requestID", "int">>>>
Params == <<<<"lists", "params">>>>
NamedParams == <<<<"namespace", "tuple">>>> \o Params
Replace(m, more) ==
  more @@ [f \in (DOMAIN m) \ {"lists"} |-> m[f]] @@ [params |-> m.lists.params]

-----------------------------------------------------------------------------
(* Fields that travel as parameters.                                       *)

forwardParam(forward) == Only(~forward, <<IntParam(FORWARD, 0)>>)
priorityParam(priority) ==
  Only(priority # kDefaultPriority, <<IntParam(SUBSCRIBER_PRIORITY, priority)>>)
groupOrderParam(order) == Only(order # <<>>, <<Param(GROUP_ORDER, order)>>)
largestParam(largest) ==
  Only(largest # <<>>, <<Param(LARGEST_OBJECT, IF largest = <<>> THEN <<>> ELSE largest[1])>>)
appendIntRequestSpecificParam(key, opt) == Only(opt # <<>>, <<Param(key, opt)>>)
appendIncludePropertiesParam(v, params, includeProperties) ==
  Only(v >= 22 /\ First(params, INCLUDE_PROPERTIES) = <<>> /\ ~includeProperties,
       <<IntParam(INCLUDE_PROPERTIES, 0)>>)

handleSubscriberPriorityParam(spec) ==
  ValueOr(FirstInt(spec, SUBSCRIBER_PRIORITY), kDefaultPriority)
handleForwardParam(spec) == ValueOr(FirstInt(spec, FORWARD), 1) = 1
handleIncludePropertiesParam(v, params) ==
  v >= 22 => ValueOr(FirstInt(params, INCLUDE_PROPERTIES), 1) = 1
extractLocationFilter(spec, default) == ValueOr(First(spec, LOCATION_FILTER), default)
extractFillParameters(v, spec) == IF v < 22 THEN <<>> ELSE First(spec, FILL_PARAMETERS)

-----------------------------------------------------------------------------
(* The path of relays an advertisement took, and its cost.                 *)

AnonHop == 0
ValidPath(hops) ==
  /\ hops # <<>>
  /\ \A i, j \in DOMAIN hops : i # j /\ hops[i] = hops[j] => hops[i] = AnonHop
encodeRelayHopPath(v, hops) ==
  IF ValidPath(hops) THEN FlattenSeq([i \in DOMAIN hops |-> writeVarint(v, hops[i])])
  ELSE WriteError
decodeRelayHopPath(v, s) ==
  LET all == FoldLeft(LAMBDA q, i : Then(q, LAMBDA hops, r :
                        IF r = <<>> THEN q
                        ELSE Then(Varint(v, r), LAMBDA x, rest : OK(Append(hops, x), rest))),
                      OK(<<>>, s), [i \in 1 .. Len(s) |-> i])
  IN  IF all.err = "none" /\ ValidPath(all.val) THEN all ELSE Violation

validClusterAdvertisement(v, params, negotiated, update) ==
  LET paths == SelectSeq(params, LAMBDA p : p.key = HOP_PATH)
      costs == SelectSeq(params, LAMBDA p : p.key = ROUTE_COST)
  IN  \/ paths = <<>> /\ costs = <<>> /\ (update \/ ~negotiated)
      \/ /\ negotiated /\ v >= 18
         /\ Len(paths) = 1 \/ (update /\ Len(paths) = 0)
         /\ Len(costs) <= 1
         /\ paths # <<>> => decodeRelayHopPath(v, paths[1].val).err = "none"

negotiated(v) == v \in HopDrafts

-----------------------------------------------------------------------------
(* SUBSCRIBE and TRACK_STATUS.                                             *)

handleSubscribeParams(v, m) ==
  LET spec == m.lists.spec
  IN  Replace(m, [filter |-> extractLocationFilter(spec, none),
                  fill |-> extractFillParameters(v, spec),
                  groupOrder |-> FirstInt(spec, GROUP_ORDER),
                  priority |-> handleSubscriberPriorityParam(spec),
                  forward |-> handleForwardParam(spec),
                  includeProperties |-> handleIncludePropertiesParam(v, m.lists.params)])

SubscribeFields == RequestID \o <<<<"name", "name">>>> \o Params
parseSubscribeRequest(v, m) == OK(handleSubscribeParams(v, m), <<>>)
parseTrackStatus(v, m) ==
  IF v >= 18 /\ m.lists.spec # <<>> THEN Violation
  ELSE OK(Replace(m, [includeProperties |->
                        handleIncludePropertiesParam(v, m.lists.params)]), <<>>)

SubscribeParams(v, m) ==
  <<Param(LOCATION_FILTER, m.filter)>>
    \o Only(m.fill # <<>> /\ v >= 22,
            <<Param(FILL_PARAMETERS, IF m.fill = <<>> THEN <<>> ELSE m.fill[1])>>)
    \o priorityParam(m.priority) \o groupOrderParam(m.groupOrder)
    \o forwardParam(m.forward)
    \o appendIntRequestSpecificParam(NEW_GROUP_REQUEST, FirstInt(m.params, NEW_GROUP_REQUEST))

writeSubscribeRequestHelper(v, m) ==
  IF m.frame = "TRACK_STATUS" /\ \E i \in DOMAIN m.params :
       ~isParamAllowed(v, "TRACK_STATUS", m.params[i].key)
  THEN WriteError
  ELSE writeVarint(v, m.requestID) \o writeFullTrackName(v, m.name)
         \o writeTrackRequestParams(v, m.params,
              (IF m.frame = "TRACK_STATUS" THEN <<>> ELSE SubscribeParams(v, m))
                \o appendIncludePropertiesParam(v, m.params, m.includeProperties))

writeSubscribeRequest(v, m) == Frame(v, "SUBSCRIBE", writeSubscribeRequestHelper(v, m))
writeTrackStatus(v, m) == Frame(v, "TRACK_STATUS", writeSubscribeRequestHelper(v, m))

(* REQUEST_UPDATE: what is not there stays as it is.                       *)
parseTrackNamespacePrefixParam(v, value) == Whole(parseNamespaceTuple(v, value))
findTrackNamespacePrefixParam(v, params) ==
  LET p == First(params, TRACK_NAMESPACE_PREFIX)
  IN  p = <<>> \/ parseTrackNamespacePrefixParam(v, p[1]).err = "none"
encodeTrackNamespacePrefixParam(v, prefix) ==
  Param(TRACK_NAMESPACE_PREFIX, writeTrackNamespace(v, prefix))

(* Below draft 22 only a filter with an absolute start is accepted.        *)
UpdateFilter(v, spec) ==
  LET f == First(spec, LOCATION_FILTER)
  IN  Only(f # <<>> /\ (v >= 22 \/ toSubscriptionFilter(ValueOr(f, none)).type
                                     \in {"AbsoluteRange", "AbsoluteStart"}), f)

handleUpdateParams(v, m) ==
  LET spec == m.lists.spec
      forward == FirstInt(spec, FORWARD)
  IN  Replace(m, [filter |-> UpdateFilter(v, spec),
                  fill |-> extractFillParameters(v, spec),
                  priority |-> FirstInt(spec, SUBSCRIBER_PRIORITY),
                  forward |-> IF forward = <<>> THEN <<>> ELSE <<forward[1] = 1>>])

UpdateFields(v) ==
  RequestID \o Only(v < 18, <<<<"existingRequestID", "int">>>>) \o Params
parseRequestUpdate(v, m) ==
  IF \/ ~validClusterAdvertisement(v, m.lists.params, negotiated(v), TRUE)
     \/ v >= 18 /\ ~findTrackNamespacePrefixParam(v, m.lists.params)
  THEN Violation ELSE OK(handleUpdateParams(v, m), <<>>)

LegacyUpdateFilter(f) ==
  LET start == IF absoluteStartLocation(f) = None THEN <<0, 0>> ELSE absoluteStartLocation(f)
  IN  IF legacyEndGroup(f) = NoGroup THEN absoluteStart(start)
      ELSE rangeToGroup(start, legacyEndGroup(f))

writeRequestUpdate(v, m) ==
  LET filter == IF v >= 22 THEN m.filter[1] ELSE LegacyUpdateFilter(m.filter[1])
      spec == Only(m.filter # <<>>, <<Param(LOCATION_FILTER, filter)>>)
                \o Only(m.fill # <<>> /\ v >= 22, <<Param(FILL_PARAMETERS, m.fill[1])>>)
                \o appendIntRequestSpecificParam(SUBSCRIBER_PRIORITY, m.priority)
                \o Only(m.forward # <<>>, <<IntParam(FORWARD, IF m.forward[1] THEN 1 ELSE 0)>>)
                \o appendIntRequestSpecificParam(NEW_GROUP_REQUEST,
                     FirstInt(m.params, NEW_GROUP_REQUEST))
  IN  IF ~validClusterAdvertisement(v, m.params, negotiated(v), TRUE) THEN WriteError
      ELSE Frame(v, "REQUEST_UPDATE",
             writeVarint(v, m.requestID)
               \o (IF v < 18 THEN writeVarint(v, m.existingRequestID) ELSE <<>>)
               \o writeTrackRequestParams(v, m.params, spec))

-----------------------------------------------------------------------------
(* SUBSCRIBE_OK, PUBLISH and their ends.                                   *)

Properties == <<<<"extensions", "properties">>>>
WithGroupOrder(v, m, param) ==
  Then(parsePublisherGroupOrder(m.extensions), LAMBDA order, r :
    IF ~validateDeliveryTimeoutExtension(v, m.extensions) THEN Violation
    ELSE OK([groupOrder |-> ValueOr(param, ValueOr(order, OldestFirst))] @@ m, r))

handleSubscribeOkParams(m) ==
  Replace(m, [expires |-> ValueOr(FirstInt(m.lists.spec, EXPIRES), 0),
              largest |-> First(m.lists.spec, LARGEST_OBJECT)])
SubscribeOkFields(v) == AnswerID(v) \o <<<<"trackAlias", "int">>>> \o Params \o Properties
parseSubscribeOk(v, m) == WithGroupOrder(v, handleSubscribeOkParams(m), <<>>)

writeSubscribeOkHelper(v, m) ==
  writeAnswerID(v, m) \o writeVarint(v, m.trackAlias)
    \o writeTrackRequestParams(v, m.params,
         Only(m.expires # 0, <<IntParam(EXPIRES, m.expires)>>) \o largestParam(m.largest))
    \o writeExtensions(v, m.extensions, FALSE)
writeSubscribeOk(v, m) == Frame(v, "SUBSCRIBE_OK", writeSubscribeOkHelper(v, m))

parseUnsubscribe == RequestID
parseMaxRequestID == RequestID
parseRequestsBlocked == RequestID
parseFetchCancel == RequestID
parsePublishNamespaceDone == RequestID
writeUnsubscribe(v, m) == Frame(v, "UNSUBSCRIBE", writeVarint(v, m.requestID))
writeMaxRequestID(v, m) == Frame(v, "MAX_REQUEST_ID", writeVarint(v, m.requestID))
writeRequestsBlocked(v, m) == Frame(v, "REQUESTS_BLOCKED", writeVarint(v, m.requestID))
writeFetchCancel(v, m) == Frame(v, "FETCH_CANCEL", writeVarint(v, m.requestID))
writePublishNamespaceDone(v, m) ==
  Frame(v, "PUBLISH_NAMESPACE_DONE", writeVarint(v, m.requestID))

(* Below draft 18 two status codes have each other's number.                *)
TOO_FAR_BEHIND == 5
EXPIRED == 6
toWirePublishDoneStatusCode(v, code) ==
  CASE v < 18 /\ code = TOO_FAR_BEHIND -> 6
    [] v < 18 /\ code = EXPIRED -> 5
    [] OTHER -> code
fromWirePublishDoneStatusCode(v, code) ==
  CASE v < 18 /\ code = 6 -> TOO_FAR_BEHIND
    [] v < 18 /\ code = 5 -> EXPIRED
    [] OTHER -> code

PublishDoneFields(v) ==
  AnswerID(v) \o <<<<"statusCode", "int">>, <<"streamCount", "int">>, <<"reasonPhrase", "string">>>>
parsePublishDone(v, m) ==
  OK([m EXCEPT !.statusCode = fromWirePublishDoneStatusCode(v, @)], <<>>)
writePublishDone(v, m) ==
  Frame(v, "PUBLISH_DONE",
    writeAnswerID(v, m) \o writeVarint(v, toWirePublishDoneStatusCode(v, m.statusCode))
      \o writeVarint(v, m.streamCount) \o writeFixedString(v, m.reasonPhrase))

containsPublishSubscriptionParameter(ps) ==
  \E i \in DOMAIN ps : isPublishSubscriptionParameter(ps[i].key)

handlePublishParams(m) ==
  Replace(m, [forward |-> handleForwardParam(m.lists.spec),
              largest |-> First(m.lists.spec, LARGEST_OBJECT)])
PublishFields ==
  RequestID \o <<<<"name", "name">>, <<"trackAlias", "int">>>> \o Params \o Properties
parsePublish(v, m) ==
  IF v < 22 /\ containsPublishSubscriptionParameter(m.lists.spec) THEN Violation
  ELSE WithGroupOrder(v, handlePublishParams(m), FirstInt(m.lists.params, GROUP_ORDER))

writePublish(v, m) ==
  LET Kept(p) == \/ v >= 22
                 \/ ~isPublishSubscriptionParameter(p.key)
                 \/ isParamAllowed(v, "PUBLISH", p.key)
  IN  Frame(v, "PUBLISH",
        writeVarint(v, m.requestID) \o writeFullTrackName(v, m.name)
          \o writeVarint(v, m.trackAlias)
          \o writeTrackRequestParams(v, SelectSeq(m.params, Kept),
               forwardParam(m.forward) \o largestParam(m.largest))
          \o writeExtensions(v, m.extensions, FALSE))

-----------------------------------------------------------------------------
(* REQUEST_OK, and the answers that travel in it.                          *)

RequestOkFields(v) == AnswerID(v) \o Params
MoreOfRequestOk(v, m, rest) ==
  Only(v >= 18 /\ rest # <<>> /\ "extensions" \notin DOMAIN m, Properties)
parseRequestOk(m) ==
  LET ok == m @@ [extensions |-> noExtensions]
  IN  IF parsePublisherGroupOrder(ok.extensions).err # "none" THEN Violation ELSE OK(ok, <<>>)

writeRequestOk(v, m, semantic) ==
  IF \/ semantic = "SUBSCRIBE_NAMESPACE_OK" /\ m.lists.params # <<>>
     \/ v >= 18 /\ semantic # "TRACK_STATUS_OK" /\ m.extensions # noExtensions
  THEN WriteError
  ELSE Frame(v, "REQUEST_OK",
         writeAnswerID(v, m) \o writeTrackRequestParams(v, m.lists.params, m.lists.spec)
           \o (IF v >= 18 /\ semantic = "TRACK_STATUS_OK"
               THEN writeExtensions(v, m.extensions, FALSE) ELSE <<>>))

RequestOk(m, params, spec, exts) ==
  [frame |-> "REQUEST_OK", requestID |-> m.requestID, extensions |-> exts,
   lists |-> [params |-> params, spec |-> spec]]

toTrackStatusOk(m) ==
  Replace(m, [expires |-> ValueOr(FirstInt(m.lists.spec, EXPIRES), 0),
              largest |-> First(m.lists.spec, LARGEST_OBJECT),
              frame |-> "TRACK_STATUS_OK"])
fromTrackStatusOk(m) ==
  RequestOk(m, m.params, <<IntParam(EXPIRES, m.expires)>> \o largestParam(m.largest),
            m.extensions)
writeTrackStatusOk(v, m) == writeRequestOk(v, fromTrackStatusOk(m), "TRACK_STATUS_OK")
writePublishNamespaceOk(v, m) == writeRequestOk(v, m, "PUBLISH_NAMESPACE_OK")
writeSubscribeNamespaceOk(v, m) == writeRequestOk(v, m, "SUBSCRIBE_NAMESPACE_OK")

isPublishOkRequestSpecificParam(v, key) ==
  IF v >= 22 THEN key = EXPIRES
  ELSE key \in {LOCATION_FILTER, EXPIRES, GROUP_ORDER, SUBSCRIBER_PRIORITY, FORWARD,
                NEW_GROUP_REQUEST}
getPublishOkRequestSpecificParams(v, m, requestOk) ==
  LET expires == Only(requestOk,
        appendIntRequestSpecificParam(EXPIRES, FirstInt(m.params, EXPIRES)))
  IN  IF v >= 22 THEN expires
      ELSE <<Param(LOCATION_FILTER, m.filter)>> \o priorityParam(m.priority)
             \o groupOrderParam(m.groupOrder) \o forwardParam(m.forward) \o expires
             \o appendIntRequestSpecificParam(NEW_GROUP_REQUEST,
                  FirstInt(m.params, NEW_GROUP_REQUEST))

handlePublishOkParams(m) ==
  LET spec == m.lists.spec
  IN  Replace(m, [filter |-> extractLocationFilter(spec, absoluteStart(<<0, 0>>)),
                  groupOrder |-> FirstInt(spec, GROUP_ORDER),
                  priority |-> handleSubscriberPriorityParam(spec),
                  forward |-> handleForwardParam(spec)])
parsePublishOk(v, m) == IF v >= 18 THEN Violation ELSE OK(handlePublishOkParams(m), <<>>)

insertPublishOkIntParamIfMissing(v, params, spec, key) ==
  LET x == FirstInt(spec, key)
  IN  params \o Only(x # <<>> /\ First(params, key) = <<>> /\ isParamAllowed(v, "PUBLISH_OK", key),
                     <<Param(key, x)>>)
requestOkToPublishOk(v, m) ==
  LET spec == m.lists.spec
      known == insertPublishOkIntParamIfMissing(v,
        insertPublishOkIntParamIfMissing(v, m.lists.params, spec, EXPIRES),
        spec, NEW_GROUP_REQUEST)
      ok == handlePublishOkParams(m)
  IN  IF \/ \E i \in DOMAIN m.lists.params :
              ~isParamAllowed(v, "PUBLISH_OK", m.lists.params[i].key)
         \/ \E i \in DOMAIN spec : ~isPublishOkRequestSpecificParam(v, spec[i].key)
      THEN Violation
      ELSE OK([frame |-> "PUBLISH_OK", params |-> known] @@
              [f \in (DOMAIN ok) \ {"extensions"} |-> ok[f]], <<>>)
fromPublishOk(v, m) ==
  RequestOk(m, SelectSeq(m.params, LAMBDA p : /\ ~isPublishOkRequestSpecificParam(v, p.key)
                                              /\ isParamAllowed(v, "PUBLISH_OK", p.key)),
            getPublishOkRequestSpecificParams(v, m, TRUE), noExtensions)
writePublishOk(v, m) ==
  IF v >= 18 THEN writeRequestOk(v, fromPublishOk(v, m), "PUBLISH_OK")
  ELSE Frame(v, "PUBLISH_OK",
         writeVarint(v, m.requestID)
           \o writeTrackRequestParams(v, m.params, getPublishOkRequestSpecificParams(v, m, FALSE)))

(* REQUEST_ERROR, with somewhere else to go from draft 18 on.              *)
RequestErrorFields(v) ==
  AnswerID(v) \o <<<<"errorCode", "int">>, <<"retryInterval", "int">>, <<"reasonPhrase", "string">>>>
MoreOfRequestError(v, m) ==
  Only(v >= 18 /\ m.errorCode = REDIRECT /\ "name" \notin DOMAIN m,
       <<<<"connectUri", "string">>, <<"name", "name">>>>)
parseRequestError(v, m) ==
  IF m.errorCode # REDIRECT THEN OK(m @@ [redirect |-> <<>>], <<>>)
  ELSE IF v < 18 THEN Violation
  ELSE OK([f \in (DOMAIN m) \ {"connectUri", "name"} |-> m[f]]
            @@ [redirect |-> <<m.connectUri, m.name>>], <<>>)
writeRequestError(v, m) ==
  IF m.errorCode = REDIRECT /\ (v < 18 \/ m.redirect = <<>>) THEN WriteError
  ELSE Frame(v, "REQUEST_ERROR",
         writeAnswerID(v, m) \o writeVarint(v, m.errorCode)
           \o writeVarint(v, m.retryInterval) \o writeFixedString(v, m.reasonPhrase)
           \o (IF m.errorCode # REDIRECT THEN <<>>
               ELSE writeFixedString(v, m.redirect[1]) \o writeFullTrackName(v, m.redirect[2])))

-----------------------------------------------------------------------------
(* Namespaces.                                                             *)

parsePublishNamespace(v, m) ==
  IF validClusterAdvertisement(v, m.lists.params, negotiated(v), FALSE)
  THEN OK(Replace(m, [x \in {} |-> 0]), <<>>) ELSE Violation
writePublishNamespace(v, m) ==
  IF ~validClusterAdvertisement(v, m.params, negotiated(v), FALSE) THEN WriteError
  ELSE Frame(v, "PUBLISH_NAMESPACE",
         writeVarint(v, m.requestID) \o writeTrackNamespace(v, m.namespace)
           \o writeTrackRequestParams(v, m.params, <<>>))

parsePublishNamespaceCancel ==
  RequestID \o <<<<"errorCode", "int">>, <<"reasonPhrase", "string">>>>
writePublishNamespaceCancel(v, m) ==
  Frame(v, "PUBLISH_NAMESPACE_CANCEL",
    writeVarint(v, m.requestID) \o writeVarint(v, m.errorCode)
      \o writeFixedString(v, m.reasonPhrase))

NAMESPACE_ONLY == 1
SubscribeNamespaceFields(v) ==
  RequestID \o <<<<"namespace", "tuple">>>> \o Only(v < 18, <<<<"options", "int">>>>) \o Params
parseSubscribeNamespace(v, m) ==
  OK(Replace(m, [options |-> IF v < 18 THEN m.options ELSE NAMESPACE_ONLY,
                 forward |-> v < 18 => handleForwardParam(m.lists.spec)]), <<>>)
writeSubscribeNamespace(v, m) ==
  Frame(v, IF v >= 18 THEN "SUBSCRIBE_NAMESPACE" ELSE "LEGACY_SUBSCRIBE_NAMESPACE",
    writeVarint(v, m.requestID) \o writeTrackNamespace(v, m.namespace)
      \o (IF v < 18 THEN writeVarint(v, m.options) ELSE <<>>)
      \o writeTrackRequestParams(v, m.params, Only(v < 18, forwardParam(m.forward))))

parseSubscribeTracks(v, m) ==
  OK(Replace(m, [forward |-> handleForwardParam(m.lists.spec),
                 includeProperties |-> handleIncludePropertiesParam(v, m.lists.params)]), <<>>)
writeSubscribeTracks(v, m) ==
  Frame(v, "SUBSCRIBE_TRACKS",
    writeVarint(v, m.requestID) \o writeTrackNamespace(v, m.namespace)
      \o writeTrackRequestParams(v, m.params, forwardParam(m.forward)
           \o appendIncludePropertiesParam(v, m.params, m.includeProperties)))

parsePublishBlocked == <<<<"namespace", "tuple">>, <<"trackName", "string">>>>
writePublishBlocked(v, m) ==
  Frame(v, "PUBLISH_BLOCKED", writeTrackNamespace(v, m.namespace) \o writeFixedString(v, m.trackName))

(* With the relay's hops every NAMESPACE has parameters, else none.        *)
NamespaceFields(v) == IF negotiated(v) THEN NamedParams ELSE <<<<"namespace", "tuple">>>>
parseNamespace(v, m) ==
  IF ~negotiated(v) THEN OK(m @@ [params |-> <<>>], <<>>)
  ELSE IF validClusterAdvertisement(v, m.lists.params, TRUE, FALSE)
  THEN OK(Replace(m, [x \in {} |-> 0]), <<>>) ELSE Violation
writeNamespace(v, m) ==
  IF negotiated(v) /\ ~validClusterAdvertisement(v, m.params, TRUE, FALSE) THEN WriteError
  ELSE Frame(v, "NAMESPACE",
         writeTrackNamespace(v, m.namespace)
           \o (IF negotiated(v) THEN writeTrackRequestParams(v, m.params, <<>>) ELSE <<>>))

parseNamespaceDone == <<<<"namespace", "tuple">>>>
writeNamespaceDone(v, m) == Frame(v, "NAMESPACE_DONE", writeTrackNamespace(v, m.namespace))

-----------------------------------------------------------------------------
(* GOAWAY and FETCH.                                                       *)

GoawayHasID(v, onRequestStream) == ~onRequestStream /\ v >= 18 /\ v < 22
parseGoaway(v, onRequestStream) ==
  <<<<"newSessionUri", "string">>>> \o Only(v >= 18, <<<<"timeout", "int">>>>)
    \o Only(GoawayHasID(v, onRequestStream), RequestID)
writeGoaway(v, m, onRequestStream) ==
  Frame(v, "GOAWAY",
    writeFixedString(v, m.newSessionUri)
      \o (IF v >= 18 THEN writeVarint(v, m.timeout) ELSE <<>>)
      \o (IF GoawayHasID(v, onRequestStream) THEN writeVarint(v, m.requestID) ELSE <<>>))

STANDALONE == 1
(* args: the range of a standalone fetch, else the request it joins.       *)
NoName == [ns |-> <<>>, name |-> <<>>]

handleFetchParams(v, m) ==
  LET spec == m.lists.spec
      filter == extractLocationFilter(spec, none)
      ranged == v >= 22 /\ m.fetchType = STANDALONE
  IN  Replace(m,
        [groupOrder |-> ValueOr(FirstInt(spec, GROUP_ORDER), OldestFirst),
         priority |-> handleSubscriberPriorityParam(spec),
         includeProperties |-> handleIncludePropertiesParam(v, m.lists.params),
         filter |-> IF ranged THEN filter ELSE none,
         args |-> CASE ~ranged -> m.args
                    [] ranged /\ needsLargest(filter) -> [start |-> <<0, 0>>, end |-> <<0, 0>>]
                    [] OTHER -> fetchRange(filter, None)])

FetchFields(v) == RequestID \o Only(v < 22, <<<<"fetchType", "int">>>>)
FetchType(m) == IF "fetchType" \in DOMAIN m THEN m.fetchType ELSE STANDALONE
MoreOfFetch(v, m) ==
  Only("lists" \notin DOMAIN m,
    (CASE v >= 22 -> <<<<"name", "name">>>>
       [] v < 22 /\ FetchType(m) = STANDALONE ->
            <<<<"name", "name">>, <<"start", "location">>, <<"end", "location">>>>
       [] OTHER -> <<<<"joiningRequestID", "int">>, <<"joiningStart", "int">>>>) \o Params)
FetchArgs(v, m) ==
  CASE v >= 22 -> <<>>
    [] v < 22 /\ FetchType(m) = STANDALONE -> [start |-> m.start, end |-> m.end]
    [] OTHER -> [id |-> m.joiningRequestID, from |-> m.joiningStart]
parseFetch(v, m) ==
  IF FetchType(m) \notin 1 .. 3 THEN Violation
  ELSE OK(handleFetchParams(v,
            [frame |-> m.frame, requestID |-> m.requestID, fetchType |-> FetchType(m),
             name |-> IF FetchType(m) = STANDALONE THEN m.name ELSE NoName,
             args |-> FetchArgs(v, m), lists |-> m.lists]), <<>>)

writeFetch(v, m) ==
  LET standalone == m.fetchType = STANDALONE
      body == CASE ~standalone -> writeVarint(v, m.args.id) \o writeVarint(v, m.args.from)
                [] standalone /\ v >= 22 -> writeFullTrackName(v, m.name)
                [] OTHER -> writeFullTrackName(v, m.name) \o writeLocation(v, m.args.start)
                              \o writeLocation(v, m.args.end)
      filter == IF m.filter = none THEN toLocationFilter(m.args) ELSE m.filter
  IN  Frame(v, "FETCH",
        writeVarint(v, m.requestID) \o (IF v < 22 THEN writeVarint(v, m.fetchType) ELSE <<>>)
          \o body
          \o writeTrackRequestParams(v, m.params,
               Only(standalone /\ v >= 22, <<Param(LOCATION_FILTER, filter)>>)
                 \o priorityParam(m.priority)
                 \o groupOrderParam(Only(m.groupOrder # OldestFirst, <<m.groupOrder>>))
                 \o appendIncludePropertiesParam(v, m.params, m.includeProperties)))

FetchOkFields(v) ==
  AnswerID(v) \o <<<<"endOfTrack", "byte">>, <<"endLocation", "location">>>> \o Params
    \o Properties
parseFetchOk(m) ==
  Then(parsePublisherGroupOrder(m.extensions), LAMBDA order, r :
    OK(Replace(m, [groupOrder |-> ValueOr(order,
                     ValueOr(FirstInt(m.lists.spec, GROUP_ORDER), OldestFirst))]), r))
writeFetchOk(v, m) ==
  Frame(v, "FETCH_OK",
    writeAnswerID(v, m) \o <<m.endOfTrack>> \o writeLocation(v, m.endLocation)
      \o writeTrackRequestParams(v, m.params, <<>>) \o writeExtensions(v, m.extensions, FALSE))

-----------------------------------------------------------------------------
(* The fields of a message, in the order they are read; the last ones of   *)
(* some messages depend on those before them (More).                       *)

Layout(v, frame, onRequestStream) ==
  CASE frame \in {"SUBSCRIBE", "TRACK_STATUS"} -> SubscribeFields
    [] frame = "REQUEST_UPDATE" -> UpdateFields(v)
    [] frame = "SUBSCRIBE_OK" -> SubscribeOkFields(v)
    [] frame = "NAMESPACE" -> NamespaceFields(v)
    [] frame = "REQUEST_ERROR" -> RequestErrorFields(v)
    [] frame = "UNSUBSCRIBE" -> parseUnsubscribe
    [] frame = "PUBLISH_DONE" -> PublishDoneFields(v)
    [] frame = "PUBLISH" -> PublishFields
    [] frame = "PUBLISH_OK" -> RequestID \o Params
    [] frame = "MAX_REQUEST_ID" -> parseMaxRequestID
    [] frame = "REQUESTS_BLOCKED" -> parseRequestsBlocked
    [] frame = "FETCH" -> FetchFields(v)
    [] frame = "FETCH_CANCEL" -> parseFetchCancel
    [] frame = "FETCH_OK" -> FetchOkFields(v)
    [] frame \in {"PUBLISH_NAMESPACE", "SUBSCRIBE_TRACKS"} -> RequestID \o NamedParams
    [] frame = "REQUEST_OK" -> RequestOkFields(v)
    [] frame = "PUBLISH_NAMESPACE_DONE" -> parsePublishNamespaceDone
    [] frame = "PUBLISH_NAMESPACE_CANCEL" -> parsePublishNamespaceCancel
    [] frame = "SUBSCRIBE_NAMESPACE" -> SubscribeNamespaceFields(v)
    [] frame = "NAMESPACE_DONE" -> parseNamespaceDone
    [] frame = "PUBLISH_BLOCKED" -> parsePublishBlocked
    [] frame = "GOAWAY" -> parseGoaway(v, onRequestStream)

More(v, m, rest) ==
  CASE m.frame = "FETCH" -> MoreOfFetch(v, m)
    [] m.frame = "REQUEST_ERROR" -> MoreOfRequestError(v, m)
    [] m.frame = "REQUEST_OK" -> MoreOfRequestOk(v, m, rest)
    [] OTHER -> <<>>

RECURSIVE ReadFields(_, _, _)
ReadFields(v, layout, q) ==
  IF q.err # "none" THEN q
  ELSE IF layout # <<>>
  THEN ReadFields(v, Tail(layout),
         AddField(q, layout[1][1], Read(v, q.val.frame, layout[1][2], q.s)))
  ELSE IF More(v, q.val, q.s) = <<>> THEN q
  ELSE ReadFields(v, More(v, q.val, q.s), q)
Fields(v, frame, layout, s) == Whole(ReadFields(v, layout, OK([frame |-> frame], s)))

-----------------------------------------------------------------------------
(* SETUP: options [key, val], a number for an even key and bytes for an    *)
(* odd one; no option is an authorization token here.  Below draft 17 the  *)
(* message has a name for each side and counts its options.                *)

MAX_REQUEST_ID_KEY == 2
MAX_AUTH_TOKEN_CACHE_SIZE == 4
HOP_ID == 265044
RELAY_COST == 265046

includeSetupParam(v, key) ==
  /\ v < 18 => key \notin {HOP_ID, RELAY_COST}
  /\ v >= 18 => key \notin {MAX_REQUEST_ID_KEY, MAX_AUTH_TOKEN_CACHE_SIZE}

writeSetup(v, m, isClient) ==
  LET all == sortParamsByKey(SelectSeq(m.params, LAMBDA p : includeSetupParam(v, p.key)))
      Before(i) == IF i = 1 THEN 0 ELSE all[i - 1].key
      Value(p) == IF p.key % 2 = 0 THEN writeVarint(v, p.val[1]) ELSE writeFixedString(v, p.val)
      frame == CASE v >= 17 -> "SETUP"
                 [] v < 17 /\ isClient -> "CLIENT_SETUP"
                 [] OTHER -> "SERVER_SETUP"
  IN  Frame(v, frame,
        (IF v < 17 THEN writeVarint(v, Len(all)) ELSE <<>>)
          \o FlattenSeq([i \in DOMAIN all |->
               writeVarint(v, all[i].key - Before(i)) \o Value(all[i])]))
writeClientSetup(v, m) == writeSetup(v, m, TRUE)
writeServerSetup(v, m) == writeSetup(v, m, FALSE)

(* Without a count the options end with the message.                       *)
parseSetupValue(v, key, r) ==
  IF key % 2 # 0 THEN parseFixedString(v, r)
  ELSE Then(Varint(v, r), LAMBDA x, rest : OK(<<x>>, rest))
addOption(v, done, key, q) ==
  IF q.err # "none" THEN q
  ELSE IF v >= 18 /\ key \in {HOP_ID, RELAY_COST} /\ First(done, key) # <<>> THEN Violation
  ELSE OK(Append(done, Param(key, q.val)), q.s)
parseSetupParam(v, done, k) ==
  IF k.err # "none" THEN k ELSE addOption(v, done, k.val, parseSetupValue(v, k.val, k.s))
RECURSIVE parseSetupParams(_, _, _)
parseSetupParams(v, n, q) ==
  IF q.err # "none" \/ (IF n = <<>> THEN q.s = <<>> ELSE Len(q.val) = n[1]) THEN q
  ELSE parseSetupParams(v, n,
         parseSetupParam(v, q.val,
           parseParamKey(v, IF q.val = <<>> THEN 0 ELSE Last(q.val).key, q.s)))
parseSetup(v, s, frame) ==
  LET count == IF v < 17 THEN Then(Varint(v, s), LAMBDA n, r : OK(<<n>>, r)) ELSE OK(<<>>, s)
  IN  Whole(Then(count, LAMBDA n, r :
        Then(parseSetupParams(v, n, OK(<<>>, r)), LAMBDA ps, rest :
          OK([frame |-> frame, params |-> ps], rest))))
parseClientSetup(v, s) == parseSetup(v, s, "CLIENT_SETUP")
parseServerSetup(v, s) == parseSetup(v, s, "SERVER_SETUP")
=============================================================================
