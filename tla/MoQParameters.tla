--------------------------- MODULE MoQParameters ---------------------------
(***************************************************************************)
(* The fields every control message is made of, and its parameters: how    *)
(* MoQFramer.cpp writes and parses them, which parameters a message may    *)
(* carry (MoQTypes.cpp) and how the drafts 16, 18 and 22 encode a value.   *)
(*                                                                         *)
(* A buffer is a sequence of bytes.  A parser takes the draft v and the    *)
(* bytes that are left and returns its value, the bytes after it and an    *)
(* error: "underflow" (the bytes end too early), "violation" or "none".  A *)
(* writer returns its bytes; a write error is a byte that is none.         *)
(***************************************************************************)
EXTENDS LocationFilter, SequencesExt

V8 == INSTANCE MoQVarint WITH ByteBits <- 8

OK(val, s) == [err |-> "none", val |-> val, s |-> s]
Failed(e) == [err |-> e, val |-> 0, s |-> <<>>]
Underflow == Failed("underflow")
Violation == Failed("violation")
Drop(s, n) == SubSeq(s, n + 1, Len(s))

(* Parse on with the value and the rest, unless there was an error.        *)
Then(q, F(_, _)) == IF q.err = "none" THEN F(q.val, q.s) ELSE q

(* n items in a row, and as many as there are bytes.                       *)
Many(n, s, Item(_)) ==
  FoldLeft(LAMBDA q, i : Then(q, LAMBDA done, rest :
             Then(Item(rest), LAMBDA x, after : OK(Append(done, x), after))),
           OK(<<>>, s), [i \in 1 .. n |-> i])

WriteError == <<-1>>
IsError(bytes) == -1 \in Range(bytes)

decodeVarint(v, s) ==
  IF v >= 17 THEN V8!decodeMoQVarint(s) ELSE V8!decodeQuicInteger(s)
writeVarint(v, x) ==
  IF v >= 17 THEN V8!encodeMoQVarint(x) ELSE V8!encodeQuicInteger(x)

Varint(v, s) ==
  LET d == decodeVarint(v, s)
  IN  IF d.n = 0 THEN Underflow ELSE OK(d.val, Drop(s, d.n))
Uint8(s) == IF s = <<>> THEN Underflow ELSE OK(s[1], Drop(s, 1))
Take(n, s) == IF n > Len(s) THEN Underflow ELSE OK(SubSeq(s, 1, n), Drop(s, n))

-----------------------------------------------------------------------------
(* Strings, names and locations.  A string is its bytes.                   *)

kMaxNamespaceLength == 32

parseFixedString(v, s) == Then(Varint(v, s), LAMBDA n, r : Take(n, r))
writeFixedString(v, str) == writeVarint(v, Len(str)) \o str

parseNamespaceTuple(v, s) ==
  LET Field(r) == Then(parseFixedString(v, r), LAMBDA str, rest :
                    IF str = <<>> THEN Violation ELSE OK(str, rest))
  IN  Then(Varint(v, s), LAMBDA n, r :
        IF n > kMaxNamespaceLength THEN Violation ELSE Many(n, r, Field))

writeFixedTuple(v, tup) ==
  writeVarint(v, Len(tup)) \o FlattenSeq([i \in DOMAIN tup |-> writeFixedString(v, tup[i])])
writeTrackNamespace(v, tn) == writeFixedTuple(v, tn)

parseFullTrackName(v, s) ==
  Then(parseNamespaceTuple(v, s), LAMBDA ns, r :
    Then(parseFixedString(v, r), LAMBDA name, rest :
      OK([ns |-> ns, name |-> name], rest)))
writeFullTrackName(v, ftn) ==
  writeTrackNamespace(v, ftn.ns) \o writeFixedString(v, ftn.name)

parseAbsoluteLocation(v, s) ==
  Then(Varint(v, s), LAMBDA g, r : Then(Varint(v, r), LAMBDA o, rest : OK(<<g, o>>, rest)))
writeLocation(v, l) == writeVarint(v, l[1]) \o writeVarint(v, l[2])

(* A value with a length before it, which must be used up exactly.         *)
WithLength(v, s, Inner(_)) ==
  Then(parseFixedString(v, s), LAMBDA body, rest :
    Then(Inner(body), LAMBDA x, left :
      IF left # <<>> THEN Underflow ELSE OK(x, rest)))
LengthFirst(v, bytes) == writeVarint(v, Len(bytes)) \o bytes

-----------------------------------------------------------------------------
(* The parameter keys, and the messages they may appear in.                *)

DELIVERY_TIMEOUT == 2        \* OBJECT_DELIVERY_TIMEOUT from draft 18 on
AUTHORIZATION_TOKEN == 3
MAX_CACHE_DURATION == 4      \* RENDEZVOUS_TIMEOUT from draft 18 on
SUBGROUP_DELIVERY_TIMEOUT == 6
EXPIRES == 8
LARGEST_OBJECT == 9
FILL_TIMEOUT == 10
PUBLISHER_PRIORITY == 14
FORWARD == 16
SUBSCRIBER_PRIORITY == 32
LOCATION_FILTER == 33        \* SUBSCRIPTION_FILTER below draft 22
GROUP_ORDER == 34
FILL_PARAMETERS == 35
TRACK_FILTER == 48
NEW_GROUP_REQUEST == 50
TRACK_NAMESPACE_PREFIX == 52
INCLUDE_PROPERTIES == 53
HOP_PATH == 265047
ROUTE_COST == 265048

AllFrames == {"ANY"}
kParamAllowlist ==
     (AUTHORIZATION_TOKEN :> {"PUBLISH", "SUBSCRIBE", "REQUEST_UPDATE",
        "SUBSCRIBE_NAMESPACE", "SUBSCRIBE_TRACKS", "PUBLISH_NAMESPACE",
        "TRACK_STATUS", "FETCH"})
  @@ (DELIVERY_TIMEOUT :> {"PUBLISH_OK", "SUBSCRIBE", "REQUEST_UPDATE"})
  @@ (MAX_CACHE_DURATION :> AllFrames)
  @@ (PUBLISHER_PRIORITY :> AllFrames)
  @@ (SUBSCRIBER_PRIORITY :> {"SUBSCRIBE", "FETCH", "REQUEST_UPDATE", "PUBLISH_OK"})
  @@ (LOCATION_FILTER :> {"SUBSCRIBE", "PUBLISH_OK", "REQUEST_UPDATE"})
  @@ (EXPIRES :> {"SUBSCRIBE_OK", "PUBLISH", "PUBLISH_OK", "REQUEST_OK"})
  @@ (GROUP_ORDER :> {"SUBSCRIBE", "PUBLISH_OK", "FETCH"})
  @@ (LARGEST_OBJECT :> {"SUBSCRIBE_OK", "PUBLISH", "REQUEST_OK"})
  @@ (FORWARD :> {"SUBSCRIBE", "REQUEST_UPDATE", "PUBLISH", "PUBLISH_OK",
        "SUBSCRIBE_NAMESPACE", "SUBSCRIBE_TRACKS"})
  @@ (NEW_GROUP_REQUEST :> {"SUBSCRIBE", "REQUEST_UPDATE", "PUBLISH_OK"})
  @@ (SUBGROUP_DELIVERY_TIMEOUT :> {"PUBLISH_OK", "REQUEST_OK", "SUBSCRIBE",
        "REQUEST_UPDATE"})
  @@ (FILL_TIMEOUT :> {"FETCH"})
  @@ (TRACK_NAMESPACE_PREFIX :> {"REQUEST_UPDATE"})
  @@ (FILL_PARAMETERS :> {"SUBSCRIBE", "REQUEST_UPDATE"})
  @@ (INCLUDE_PROPERTIES :> {"SUBSCRIBE", "TRACK_STATUS", "FETCH", "SUBSCRIBE_TRACKS"})
  @@ (TRACK_FILTER :> {"SUBSCRIBE_NAMESPACE"})
  @@ (HOP_PATH :> {"PUBLISH_NAMESPACE", "NAMESPACE", "REQUEST_UPDATE"})
  @@ (ROUTE_COST :> {"PUBLISH_NAMESPACE", "NAMESPACE", "REQUEST_UPDATE"})

isV18OnlyParamKey(key) ==
  key \in {SUBGROUP_DELIVERY_TIMEOUT, FILL_TIMEOUT, TRACK_NAMESPACE_PREFIX,
           HOP_PATH, ROUTE_COST}
isV22OnlyParamKey(key) == key \in {FILL_PARAMETERS, INCLUDE_PROPERTIES}

isKnownParamKey(v, key) ==
  /\ v < 18 => ~isV18OnlyParamKey(key)
  /\ v < 22 => ~isV22OnlyParamKey(key)
  /\ key \in DOMAIN kParamAllowlist

isLegacyPublishOkSubscriptionParameter(key) ==
  key \in {DELIVERY_TIMEOUT, SUBGROUP_DELIVERY_TIMEOUT, SUBSCRIBER_PRIORITY,
           LOCATION_FILTER, GROUP_ORDER, FORWARD, NEW_GROUP_REQUEST}
isPublishSubscriptionParameter(key) ==
  key \in {DELIVERY_TIMEOUT, SUBGROUP_DELIVERY_TIMEOUT, SUBSCRIBER_PRIORITY,
           LOCATION_FILTER, GROUP_ORDER}
isLocationFilterAllowedV22(frame) ==
  frame \in {"SUBSCRIBE", "REQUEST_UPDATE", "PUBLISH", "FETCH"}

(* The rules of the later drafts come before the table.                    *)
isParamAllowed(v, frame, key) ==
  CASE /\ v >= 22
       /\ frame \in {"PUBLISH_OK", "REQUEST_OK"}
       /\ isLegacyPublishOkSubscriptionParameter(key) -> FALSE
    [] /\ isPublishSubscriptionParameter(key)
       /\ \/ frame = "SUBSCRIBE_TRACKS" /\ v >= 18
          \/ frame = "PUBLISH" /\ v >= 22 -> TRUE
    [] key = DELIVERY_TIMEOUT /\ v >= 18 ->
         frame \in {"PUBLISH_OK", "REQUEST_OK", "SUBSCRIBE", "REQUEST_UPDATE"}
    [] key = MAX_CACHE_DURATION -> v >= 18 /\ frame = "SUBSCRIBE"
    [] key = PUBLISHER_PRIORITY -> FALSE
    [] v >= 18 /\ key = FORWARD /\ frame = "SUBSCRIBE_NAMESPACE" -> FALSE
    [] key = LOCATION_FILTER /\ v >= 22 ->
         isLocationFilterAllowedV22(frame)
    [] OTHER -> isKnownParamKey(v, key) /\ frame \in kParamAllowlist[key]

-----------------------------------------------------------------------------
(* Parameter values.  A parameter is [key, val]; the value is a sequence   *)
(* of numbers, a string, a location, a filter or the parameters of a fill. *)

Param(key, val) == [key |-> key, val |-> val]
IntParam(key, x) == Param(key, <<x>>)

UINT8_KEYS == {SUBSCRIBER_PRIORITY, GROUP_ORDER, FORWARD, INCLUDE_PROPERTIES}
LENGTH_KEYS == {AUTHORIZATION_TOKEN, LOCATION_FILTER, TRACK_NAMESPACE_PREFIX,
                FILL_PARAMETERS, HOP_PATH, TRACK_FILTER}
paramEncodingV18(key) ==
  CASE key \in UINT8_KEYS -> "Uint8"
    [] key = LARGEST_OBJECT -> "Location"
    [] key \in LENGTH_KEYS -> "LengthPrefixed"
    [] OTHER -> "Varint"

isIntParamValid(v, key, x) ==
  CASE key = GROUP_ORDER -> x \in {1, 2}
    [] key = SUBSCRIBER_PRIORITY -> x <= 255
    [] key = FORWARD -> x <= 1
    [] key = INCLUDE_PROPERTIES -> v < 22 \/ x <= 1
    [] OTHER -> TRUE

parseIntParam(v, key, s) ==
  Then(Varint(v, s), LAMBDA x, r :
    IF \/ ~isIntParamValid(v, key, x)
       \/ v <= 16 /\ key = DELIVERY_TIMEOUT /\ x = 0
    THEN Violation ELSE OK(<<x>>, r))

parseUint8Param(v, key, s) ==
  Then(Uint8(s), LAMBDA x, r :
    IF isIntParamValid(v, key, x) THEN OK(<<x>>, r) ELSE Violation)

LocationTypeCode == [NextGroupStart |-> 1, LargestObject |-> 2, AbsoluteStart |-> 3,
                     AbsoluteRange |-> 4, LargestGroup |-> 250]

(* The end group is a delta from draft 18 on.                              *)
parseSubscriptionFilter(v, s) ==
  Then(Varint(v, s), LAMBDA code, r :
    LET types == {t \in LegacyTypes : LocationTypeCode[t] = code}
        type == CHOOSE t \in types : TRUE
    IN
    IF types = {} THEN Violation
    ELSE IF type \notin {"AbsoluteStart", "AbsoluteRange"}
    THEN OK(Legacy(type, None, NoGroup), r)
    ELSE Then(parseAbsoluteLocation(v, r), LAMBDA l, r2 :
      IF type = "AbsoluteStart" THEN OK(Legacy(type, l, NoGroup), r2)
      ELSE Then(Varint(v, r2), LAMBDA g, rest :
        IF v < 18 THEN OK(Legacy(type, l, g), rest)
        ELSE IF g > MaxGroup - l[1] THEN Violation
        ELSE OK(Legacy(type, l, l[1] + g), rest))))

writeSubscriptionFilter(v, l) ==
  writeVarint(v, LocationTypeCode[l.type])
    \o (IF l.type \in {"AbsoluteStart", "AbsoluteRange"}
        THEN writeLocation(v, l.start) ELSE <<>>)
    \o (CASE l.type # "AbsoluteRange" -> <<>>
          [] v < 18 -> writeVarint(v, l.endGroup)
          [] l.endGroup < l.start[1] -> WriteError
          [] OTHER -> writeVarint(v, l.endGroup - l.start[1]))

(* All the bytes of the parameter are fields; a field cannot run past them. *)
parseLocationFilter(v, body) ==
  LET Fields[n \in 0 .. 4] ==
        IF n = 0 THEN OK(<<>>, body)
        ELSE Then(Fields[n - 1], LAMBDA done, r :
               IF r = <<>> THEN OK(done, r)
               ELSE Then(Varint(v, r), LAMBDA x, rest : OK(Append(done, x), rest)))
      q == Fields[4]
  IN  IF q.err # "none" \/ q.s # <<>> THEN Violation
      ELSE OK(fromFields(q.val), <<>>)
writeLocationFilter(v, f) ==
  FlattenSeq([i \in 1 .. fieldCount(f) |-> writeVarint(v, fields(f)[i])])

parseTrackFilter(v, s) ==
  Then(Varint(v, s), LAMBDA type, r : Then(Varint(v, r), LAMBDA max, rest : OK(<<type, max>>, rest)))
writeTrackFilter(v, f) == writeVarint(v, f[1]) \o writeVarint(v, f[2])

parseParamKey(v, previous, s) ==
  Then(Varint(v, s), LAMBDA delta, r : OK(previous + delta, r))

(* The parameters of a fill: [key, val], in the order of their keys.       *)
isFillParameterAllowed(key) ==
  key \in {FILL_TIMEOUT, SUBSCRIBER_PRIORITY, LOCATION_FILTER, GROUP_ORDER}

parseFillParameters(v, body) ==
  LET Value(key, s) ==
        CASE key = LOCATION_FILTER ->
               Then(parseFixedString(v, s), LAMBDA b, rest :
                 Then(parseLocationFilter(v, b), LAMBDA f, x : OK(f, rest)))
          [] key \in UINT8_KEYS -> parseUint8Param(v, key, s)
          [] OTHER -> parseIntParam(v, key, s)
      Fill[n \in 0 .. Len(body)] ==
        IF n = 0 THEN OK(<<>>, body)
        ELSE Then(Fill[n - 1], LAMBDA done, r :
          IF r = <<>> THEN OK(done, r)
          ELSE Then(parseParamKey(v, IF done = <<>> THEN 0 ELSE Last(done).key, r),
            LAMBDA key, r2 :
              IF ~isFillParameterAllowed(key) THEN Violation
              ELSE Then(Value(key, r2), LAMBDA x, rest :
                     OK(Append(done, Param(key, x)), rest))))
  IN  Fill[Len(body)]

writeFillParameters(v, fill) ==
  LET Value(p) == CASE p.key = LOCATION_FILTER ->
                         LengthFirst(v, writeLocationFilter(v, p.val))
                    [] p.key \in UINT8_KEYS -> p.val
                    [] OTHER -> writeVarint(v, p.val[1])
      Before(i) == IF i = 1 THEN 0 ELSE fill[i - 1].key
  IN  FlattenSeq([i \in DOMAIN fill |->
        writeVarint(v, fill[i].key - Before(i)) \o Value(fill[i])])

(* An authorization token with its value; what an alias stands for is the  *)
(* business of the token cache.                                            *)
USE_VALUE == 3
parseTokenValue(v, body) ==
  Then(Varint(v, body), LAMBDA how, r :
    IF how # USE_VALUE THEN Violation
    ELSE Then(Varint(v, r), LAMBDA type, value : OK(<<type>> \o value, <<>>)))
encodeTokenValue(v, token) ==
  writeVarint(v, USE_VALUE) \o writeVarint(v, token[1]) \o Tail(token)

parseVariableParam(v, key, s) ==
  CASE key = AUTHORIZATION_TOKEN ->
         WithLength(v, s, LAMBDA b : parseTokenValue(v, b))
    [] key = FILL_PARAMETERS /\ v >= 22 ->
         WithLength(v, s, LAMBDA b : parseFillParameters(v, b))
    [] key = LOCATION_FILTER /\ v >= 22 ->
         WithLength(v, s, LAMBDA b : parseLocationFilter(v, b))
    [] key = LOCATION_FILTER /\ v < 22 ->
         WithLength(v, s, LAMBDA b :
           Then(parseSubscriptionFilter(v, b), LAMBDA l, left :
             OK(fromSubscriptionFilter(l), left)))
    [] key = TRACK_FILTER -> WithLength(v, s, LAMBDA b : parseTrackFilter(v, b))
    [] OTHER -> parseFixedString(v, s)

parseV18ParamValue(v, key, s) ==
  CASE paramEncodingV18(key) = "Uint8" -> parseUint8Param(v, key, s)
    [] paramEncodingV18(key) = "Varint" -> parseIntParam(v, key, s)
    [] paramEncodingV18(key) = "Location" -> parseAbsoluteLocation(v, s)
    [] OTHER -> parseVariableParam(v, key, s)

(* Below draft 18: even keys have a number, odd keys a length.             *)
parseParamValue(v, key, s) ==
  CASE v >= 18 -> parseV18ParamValue(v, key, s)
    [] v < 18 /\ key = TRACK_FILTER -> parseVariableParam(v, key, s)
    [] v < 18 /\ key # TRACK_FILTER /\ key % 2 = 0 -> parseIntParam(v, key, s)
    [] v < 18 /\ key = LARGEST_OBJECT ->
         WithLength(v, s, LAMBDA b : parseAbsoluteLocation(v, b))
    [] OTHER -> parseVariableParam(v, key, s)

writeLengthPrefixed(v, p) ==
  CASE p.key = TRACK_FILTER -> LengthFirst(v, writeTrackFilter(v, p.val))
    [] p.key = FILL_PARAMETERS -> LengthFirst(v, writeFillParameters(v, p.val))
    [] p.key = LOCATION_FILTER /\ v >= 22 ->
         LengthFirst(v, writeLocationFilter(v, p.val))
    [] p.key = LOCATION_FILTER /\ v < 22 ->
         LengthFirst(v, writeSubscriptionFilter(v, toSubscriptionFilter(p.val)))
    [] p.key = AUTHORIZATION_TOKEN -> LengthFirst(v, encodeTokenValue(v, p.val))
    [] OTHER -> writeFixedString(v, p.val)

writeV18ParamValue(v, p) ==
  CASE paramEncodingV18(p.key) = "Uint8" -> IF p.val[1] > 255 THEN WriteError ELSE p.val
    [] paramEncodingV18(p.key) = "Varint" -> writeVarint(v, p.val[1])
    [] paramEncodingV18(p.key) = "Location" -> writeLocation(v, p.val)
    [] OTHER -> writeLengthPrefixed(v, p)

writeParamValue(v, p) ==
  CASE v >= 18 -> writeV18ParamValue(v, p)
    [] v < 18 /\ p.key = LARGEST_OBJECT -> LengthFirst(v, writeLocation(v, p.val))
    [] v < 18 /\ p.key # TRACK_FILTER /\ p.key % 2 = 0 -> writeVarint(v, p.val[1])
    [] OTHER -> writeLengthPrefixed(v, p)

-----------------------------------------------------------------------------
(* The parameter list of a message.                                        *)

isRequestSpecificParam(key) ==
  key \in {FILL_PARAMETERS, LOCATION_FILTER, LARGEST_OBJECT, EXPIRES, GROUP_ORDER,
           SUBSCRIBER_PRIORITY, FORWARD, NEW_GROUP_REQUEST}
isDraft22FilterParam(v, key) == v >= 22 /\ key \in {FILL_PARAMETERS, LOCATION_FILTER}

(* Where a parsed parameter goes: to the ones the message's own handler    *)
(* looks at, or to the parameters handed on with the message.              *)
KeepParam(v, frame, lists, p) ==
  LET retain == /\ isPublishSubscriptionParameter(p.key)
                /\ \/ frame = "SUBSCRIBE_TRACKS"
                   \/ frame = "PUBLISH" /\ isParamAllowed(v, frame, p.key)
      allowed == isParamAllowed(v, frame, p.key)
  IN  CASE isRequestSpecificParam(p.key) /\ ~retain ->
             IF isDraft22FilterParam(v, p.key) /\ ~allowed THEN Violation
             ELSE OK([lists EXCEPT !.spec = Append(@, p)], <<>>)
        [] ~(isRequestSpecificParam(p.key) /\ ~retain) /\ allowed ->
             OK([lists EXCEPT !.params = Append(@, p)], <<>>)
        [] OTHER -> IF v >= 18 THEN Violation ELSE OK(lists, <<>>)

(* One parameter after another: its key as a difference, its value and      *)
(* where it goes.                                                          *)
keepValue(v, frame, state, key, q) ==
  IF q.err # "none" THEN q
  ELSE Then(KeepParam(v, frame, state.lists, Param(key, q.val)), LAMBDA lists, z :
         OK([key |-> key, lists |-> lists], q.s))
parseOneParam(v, frame, state, k) ==
  CASE k.err # "none" -> k
    [] k.err = "none" /\ ~isKnownParamKey(v, k.val) -> Violation
    [] OTHER -> keepValue(v, frame, state, k.val, parseParamValue(v, k.val, k.s))

RECURSIVE parseParams(_, _, _, _)
parseParams(v, frame, n, q) ==
  IF n = 0 \/ q.err # "none" THEN q
  ELSE parseParams(v, frame, n - 1,
         parseOneParam(v, frame, q.val, parseParamKey(v, q.val.key, q.s)))

NoParams == [key |-> 0, lists |-> [params |-> <<>>, spec |-> <<>>]]
parseTrackRequestParams(v, frame, s) ==
  Then(Varint(v, s), LAMBDA n, r :
    Then(parseParams(v, frame, n, OK(NoParams, r)), LAMBDA state, rest : OK(state.lists, rest)))

sortParamsByKey(ps) ==
  FoldLeft(LAMBDA sorted, p :
    LET before == SelectSeq(sorted, LAMBDA q : q.key <= p.key)
    IN  before \o <<p>> \o Drop(sorted, Len(before)), <<>>, ps)

mergeAndSortParams(spec, params) == sortParamsByKey(spec \o params)

writeTrackRequestParams(v, params, spec) ==
  LET all == mergeAndSortParams(spec, params)
      Before(i) == IF i = 1 THEN 0 ELSE all[i - 1].key
  IN  IF \E i \in DOMAIN all : ~isKnownParamKey(v, all[i].key) THEN WriteError
      ELSE writeVarint(v, Len(all))
             \o FlattenSeq([i \in DOMAIN all |->
                  writeVarint(v, all[i].key - Before(i)) \o writeParamValue(v, all[i])])

(* The first parameter with a key: <<>>, or its value alone.               *)
First(ps, key) ==
  LET found == SelectSeq(ps, LAMBDA p : p.key = key)
  IN  IF found = <<>> THEN <<>> ELSE <<found[1].val>>
FirstInt(ps, key) ==
  LET f == First(ps, key) IN IF f = <<>> THEN <<>> ELSE <<f[1][1]>>
ValueOr(opt, default) == IF opt = <<>> THEN default ELSE opt[1]
WithoutKeys(ps, keys) == SelectSeq(ps, LAMBDA p : p.key \notin keys)
=============================================================================
