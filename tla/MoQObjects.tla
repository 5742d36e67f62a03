----------------------------- MODULE MoQObjects -----------------------------
(***************************************************************************)
(* Objects on the wire (MoQFramer.cpp): subgroup streams, fetch streams    *)
(* and datagrams.  On a stream most of a header is left out, because it    *)
(* follows from the object before; reader and writer each keep a context.  *)
(*                                                                         *)
(* An object is [group, subgroup, id, priority, exts, status, payload,     *)
(* datagram]; priority is optional, datagram its forwarding preference.    *)
(* A context is the last group, subgroup, id and priority, each optional,  *)
(* and the group order of the fetch.                                       *)
(***************************************************************************)
EXTENDS MoQExtensions

NORMAL == 0
END_OF_GROUP == 3
END_OF_TRACK == 4
FETCH_HEADER == 5
Ascending == 1
Descending == 2

Bit(x, b) == (x \div b) % 2 = 1
IfBit(cond, b) == IF cond THEN b ELSE 0
OptByte(opt) == opt

NoContext(order) == [group |-> <<>>, subgroup |-> <<>>, id |-> <<>>, priority |-> <<>>,
                     order |-> order]
Context(ctx, o) ==
  [group |-> <<o.group>>, subgroup |-> <<o.subgroup>>, id |-> <<o.id>>,
   priority |-> o.priority, order |-> ctx.order]
resetFetchContext == NoContext(Ascending)
resetWriterFetchContext(ctx) == NoContext(ctx.order)
setFetchGroupOrder(ctx, order) == [ctx EXCEPT !.order = order]

-----------------------------------------------------------------------------
(* The type of a subgroup stream.                                          *)

SG_HAS_EXTENSIONS == 1
SG_SUBGROUP_VALUE == 2
SG_HAS_SUBGROUP_ID == 4
SG_HAS_END_OF_GROUP == 8
SUBGROUP_HEADER_MASK == 16
SG_PRIORITY_NOT_PRESENT == 32
SG_FIRST_OBJECT == 64

getSubgroupStreamType(v, format, hasExtensions, endOfGroup, priorityPresent, first) ==
  SUBGROUP_HEADER_MASK + IfBit(format = "Present", SG_HAS_SUBGROUP_ID)
    + IfBit(format = "FirstObject", SG_SUBGROUP_VALUE)
    + IfBit(hasExtensions, SG_HAS_EXTENSIONS) + IfBit(endOfGroup, SG_HAS_END_OF_GROUP)
    + IfBit(~priorityPresent, SG_PRIORITY_NOT_PRESENT)
    + IfBit(v >= 18 /\ first, SG_FIRST_OBJECT)

getSubgroupOptions(v, type) ==
  [hasExtensions |-> Bit(type, SG_HAS_EXTENSIONS),
   format |-> CASE Bit(type, SG_HAS_SUBGROUP_ID) -> "Present"
                [] ~Bit(type, SG_HAS_SUBGROUP_ID) /\ Bit(type, SG_SUBGROUP_VALUE) -> "FirstObject"
                [] OTHER -> "Zero",
   hasEndOfGroup |-> Bit(type, SG_HAS_END_OF_GROUP),
   priorityPresent |-> ~Bit(type, SG_PRIORITY_NOT_PRESENT),
   first |-> v >= 18 /\ Bit(type, SG_FIRST_OBJECT)]

isValidSubgroupType(v, type) ==
  /\ Bit(type, SUBGROUP_HEADER_MASK)
  /\ ~(Bit(type, SG_SUBGROUP_VALUE) /\ Bit(type, SG_HAS_SUBGROUP_ID))
  /\ v < 18 => ~Bit(type, SG_FIRST_OBJECT)
  /\ type <= (IF v >= 18 THEN 125 ELSE 61)

(* h: [alias, group, subgroup, priority]; options as above.                *)
SubgroupType(v, h, options) ==
  getSubgroupStreamType(v, IF h.subgroup = 0 THEN "Zero" ELSE options.format,
    options.hasExtensions, options.hasEndOfGroup, h.priority # <<>>, options.first)
writeSubgroupHeader(v, h, options) ==
  LET type == SubgroupType(v, h, options)
  IN  writeVarint(v, type) \o writeVarint(v, h.alias) \o writeVarint(v, h.group)
        \o (IF Bit(type, SG_HAS_SUBGROUP_ID) THEN writeVarint(v, h.subgroup) ELSE <<>>)
        \o OptByte(h.priority)

OptUint8(present, s) ==
  IF present THEN Then(Uint8(s), LAMBDA x, r : OK(<<x>>, r)) ELSE OK(<<>>, s)

(* The subgroup may be the ID of the first object, which is read twice.    *)
parseSubgroupHeader(v, s, options) ==
  Then(Varint(v, s), LAMBDA alias, r1 : Then(Varint(v, r1), LAMBDA group, r2 :
    LET explicit == IF options.format = "Present" THEN Varint(v, r2) ELSE OK(0, r2)
    IN  Then(explicit, LAMBDA sub, r3 :
          Then(OptUint8(options.priorityPresent, r3), LAMBDA priority, r4 :
            LET h == [alias |-> alias, group |-> group, subgroup |-> sub, priority |-> priority]
            IN  IF options.format # "FirstObject" THEN OK(h, r4)
                ELSE Then(Varint(v, r4), LAMBDA id, z : OK([h EXCEPT !.subgroup = id], r4))))))

-----------------------------------------------------------------------------
(* The objects of a subgroup stream.                                       *)

parseObjectStatusAndLength(v, s, hasStatus) ==
  Then(Varint(v, s), LAMBDA n, r :
    IF ~(hasStatus /\ n = 0) THEN OK([length |-> n, status |-> NORMAL], r)
    ELSE Then(Varint(v, r), LAMBDA status, rest :
           IF status > END_OF_TRACK THEN Violation
           ELSE OK([length |-> 0, status |-> status], rest)))
isValidStatusForExtensions(status, exts) == status # NORMAL => exts = noExtensions

OptExtensions(v, present, s) == IF present THEN parseExtensions(v, s) ELSE OK(noExtensions, s)

(* What is parsed of an object is its header: the length, not the payload. *)
(* Mutant: the difference is taken for the next ID.                          *)
parseSubgroupObjectHeader_OffByOne(v, s, h, options, previous) ==
  Then(Varint(v, s), LAMBDA delta, r1 :
    Then(OptExtensions(v, options.hasExtensions, r1), LAMBDA exts, r2 :
      Then(parseObjectStatusAndLength(v, r2, TRUE), LAMBDA end, r3 :
        OK([group |-> h.group, subgroup |-> h.subgroup, priority |-> h.priority,
            id |-> IF previous = <<>> THEN delta ELSE previous[1] + delta,
            exts |-> exts, status |-> end.status, length |-> end.length,
            datagram |-> FALSE], r3))))

parseSubgroupObjectHeader(v, s, h, options, previous) ==
  Then(Varint(v, s), LAMBDA delta, r1 :
    Then(OptExtensions(v, options.hasExtensions, r1), LAMBDA exts, r2 :
      Then(parseObjectStatusAndLength(v, r2, TRUE), LAMBDA end, r3 :
        IF ~isValidStatusForExtensions(end.status, exts) THEN Violation
        ELSE OK([group |-> h.group, subgroup |-> h.subgroup, priority |-> h.priority,
                 id |-> IF previous = <<>> THEN delta ELSE previous[1] + delta + 1,
                 exts |-> exts, status |-> end.status, length |-> end.length,
                 datagram |-> FALSE], r3))))

writeLengthAndStatus(v, o, hasStatus) ==
  IF o.payload # <<>> THEN writeVarint(v, Len(o.payload)) \o o.payload
  ELSE writeVarint(v, 0) \o (IF hasStatus THEN writeVarint(v, o.status) ELSE <<>>)

writeSubgroupObject(v, type, o, previous) ==
  IF previous # <<>> /\ o.id <= previous[1] THEN WriteError
  ELSE writeVarint(v, IF previous = <<>> THEN o.id ELSE o.id - previous[1] - 1)
         \o (IF Bit(type, SG_HAS_EXTENSIONS) THEN writeExtensions(v, o.exts, TRUE) ELSE <<>>)
         \o writeLengthAndStatus(v, o, TRUE)

-----------------------------------------------------------------------------
(* The objects of a fetch stream.  From draft 18 on the group and the      *)
(* object ID are differences too, the groups in the order of the fetch.    *)

DATAGRAM_BIT == 64
EXTENSIONS_BIT == 32
PRIORITY_BIT == 16
GROUP_ID_BIT == 8
OBJECT_ID_BIT == 4
SUBGROUP_MODE == 4      \* the lowest two bits
EndOfNonExistentRange == 140
EndOfUnknownRange == 268

resolveFetchGroupID(v, field, ctx) ==
  CASE field = <<>> -> IF ctx.group = <<>> THEN Violation ELSE OK(ctx.group[1], <<>>)
    [] field # <<>> /\ (v < 18 \/ ctx.group = <<>>) -> OK(field[1], <<>>)
    [] OTHER ->
         IF ctx.order = Descending
         THEN IF ctx.group[1] < field[1] + 1 THEN Violation
              ELSE OK(ctx.group[1] - (field[1] + 1), <<>>)
         ELSE OK(ctx.group[1] + field[1] + 1, <<>>)

resolveFetchObjectID(v, field, groupDelta, ctx) ==
  CASE field # <<>> /\ (v < 18 \/ groupDelta) -> OK(field[1], <<>>)
    [] ~(field # <<>> /\ (v < 18 \/ groupDelta)) /\ ctx.id = <<>> -> Violation
    [] field = <<>> /\ ctx.id # <<>> -> OK(ctx.id[1] + 1, <<>>)
    [] OTHER -> OK(ctx.id[1] + field[1], <<>>)

OptVarint(v, present, s) ==
  IF present THEN Then(Varint(v, s), LAMBDA x, r : OK(<<x>>, r)) ELSE OK(<<>>, s)

parseFetchSubgroup(v, flags, ctx, s) ==
  LET mode == flags % SUBGROUP_MODE
  IN  CASE Bit(flags, DATAGRAM_BIT) \/ mode = 0 -> OK(0, s)
        [] ~Bit(flags, DATAGRAM_BIT) /\ mode = 3 -> Varint(v, s)
        [] OTHER -> IF ctx.subgroup = <<>> THEN Violation
                    ELSE OK(ctx.subgroup[1] + mode - 1, s)

parseEndOfRange(v, flags, ctx, s) ==
  Then(parseAbsoluteLocation(v, s), LAMBDA l, r :
    OK([marker |-> l, unknown |-> flags = EndOfUnknownRange,
        ctx |-> [ctx EXCEPT !.group = <<l[1]>>, !.id = <<l[2]>>]], r))

parseFetchFields(v, flags, ctx, s) ==
  LET groupDelta == v >= 18 /\ Bit(flags, GROUP_ID_BIT)
  IN
  Then(OptVarint(v, Bit(flags, GROUP_ID_BIT), s), LAMBDA gf, r1 :
  Then(resolveFetchGroupID(v, gf, ctx), LAMBDA group, z1 :
  Then(parseFetchSubgroup(v, flags, ctx, r1), LAMBDA subgroup, r2 :
  Then(OptVarint(v, Bit(flags, OBJECT_ID_BIT), r2), LAMBDA of, r3 :
  Then(resolveFetchObjectID(v, of, groupDelta, ctx), LAMBDA id, z2 :
  Then(OptUint8(Bit(flags, PRIORITY_BIT), r3), LAMBDA pf, r4 :
  Then(OptExtensions(v, Bit(flags, EXTENSIONS_BIT), r4), LAMBDA exts, r5 :
  Then(parseObjectStatusAndLength(v, r5, FALSE), LAMBDA end, r6 :
    LET priority == IF pf # <<>> THEN pf ELSE ctx.priority
        o == [group |-> group, subgroup |-> subgroup, id |-> id, priority |-> priority,
              exts |-> exts, status |-> NORMAL, length |-> end.length,
              datagram |-> Bit(flags, DATAGRAM_BIT)]
    IN  IF priority = <<>> THEN Violation
        ELSE OK([header |-> o, ctx |-> Context(ctx, o)], r6)))))))))

parseFetchObjectHeader(v, s, ctx) ==
  Then(Varint(v, s), LAMBDA flags, r :
    CASE flags \in {EndOfNonExistentRange, EndOfUnknownRange} ->
           parseEndOfRange(v, flags, ctx, r)
      [] flags >= 128 /\ flags \notin {EndOfNonExistentRange, EndOfUnknownRange} -> Violation
      [] /\ flags < 128 /\ v >= 18 /\ ctx.group = <<>>
         /\ ~(Bit(flags, GROUP_ID_BIT) /\ Bit(flags, OBJECT_ID_BIT)) -> Violation
      [] OTHER -> parseFetchFields(v, flags, ctx, r))

Bad == <<-1>>
computeFetchObjectDeltaFieldsForWrite(o, ctx) ==
  LET new == ctx.group # <<>> /\ o.group # ctx.group[1]
      group == CASE ctx.group = <<>> -> <<o.group>>
                 [] ctx.group # <<>> /\ ~new -> <<>>
                 [] new /\ ctx.order = Descending ->
                      IF o.group >= ctx.group[1] THEN Bad ELSE <<ctx.group[1] - o.group - 1>>
                 [] OTHER ->
                      IF o.group <= ctx.group[1] THEN Bad ELSE <<o.group - ctx.group[1] - 1>>
      isNext == ctx.id # <<>> /\ o.id = ctx.id[1] + 1
      id == CASE ctx.id = <<>> \/ (group # <<>> /\ ~isNext) -> <<o.id>>
              [] ctx.id # <<>> /\ isNext -> <<>>
              [] OTHER -> IF o.id < ctx.id[1] THEN Bad ELSE <<o.id - ctx.id[1]>>
  IN  [group |-> group, id |-> id]

FetchFieldsForWrite(v, o, ctx) ==
  IF v >= 18 THEN computeFetchObjectDeltaFieldsForWrite(o, ctx)
  ELSE [group |-> IF ctx.group = <<o.group>> THEN <<>> ELSE <<o.group>>,
        id |-> IF ctx.id = <<o.id - 1>> THEN <<>> ELSE <<o.id>>]

FetchSubgroupMode(o, ctx) ==
  CASE o.datagram \/ o.subgroup = 0 -> 0
    [] ~o.datagram /\ o.subgroup # 0 /\ ctx.subgroup = <<o.subgroup>> -> 1
    [] ~o.datagram /\ o.subgroup # 0 /\ ctx.subgroup = <<o.subgroup - 1>> -> 2
    [] OTHER -> 3

writeFetchObjectHeaderImpl(v, o, ctx) ==
  LET f == FetchFieldsForWrite(v, o, ctx)
      mode == FetchSubgroupMode(o, ctx)
      newPriority == ctx.priority = <<>> \/ o.priority # ctx.priority
      flags == IfBit(o.datagram, DATAGRAM_BIT) + mode + IfBit(f.id # <<>>, OBJECT_ID_BIT)
                 + IfBit(f.group # <<>>, GROUP_ID_BIT) + IfBit(newPriority, PRIORITY_BIT)
                 + IfBit(o.exts # noExtensions, EXTENSIONS_BIT)
      Opt(x) == IF x = <<>> THEN <<>> ELSE writeVarint(v, x[1])
  IN  IF f.group = Bad \/ f.id = Bad THEN WriteError
      ELSE writeVarint(v, flags) \o Opt(f.group)
             \o (IF mode = 3 THEN writeVarint(v, o.subgroup) ELSE <<>>) \o Opt(f.id)
             \o (IF newPriority THEN OptByte(o.priority) ELSE <<>>)

writeFetchObject(v, o, ctx) ==
  IF o.status # NORMAL THEN WriteError
  ELSE writeFetchObjectHeaderImpl(v, o, ctx)
         \o (IF o.exts # noExtensions THEN writeExtensions(v, o.exts, TRUE) ELSE <<>>)
         \o writeLengthAndStatus(v, o, FALSE)

writeStreamObject(v, type, o, ctx) ==
  [bytes |-> IF type = FETCH_HEADER THEN writeFetchObject(v, o, ctx)
             ELSE writeSubgroupObject(v, type, o, ctx.id),
   ctx |-> Context(ctx, o)]

writeFetchHeader(v, requestID) == writeVarint(v, FETCH_HEADER) \o writeVarint(v, requestID)
parseFetchHeader(v, s) == Varint(v, s)

-----------------------------------------------------------------------------
(* Datagrams: one object each.                                             *)

DG_HAS_EXTENSIONS == 1
DG_HAS_END_OF_GROUP == 2
DG_OBJECT_ID_ZERO == 4
DG_PRIORITY_NOT_PRESENT == 8
DG_IS_STATUS == 32

getDatagramType(status, hasExtensions, endOfGroup, idZero, priorityPresent) ==
  IfBit(status, DG_IS_STATUS) + IfBit(hasExtensions, DG_HAS_EXTENSIONS)
    + IfBit(~status /\ endOfGroup, DG_HAS_END_OF_GROUP) + IfBit(idZero, DG_OBJECT_ID_ZERO)
    + IfBit(~priorityPresent, DG_PRIORITY_NOT_PRESENT)

isValidDatagramType(type) == type <= 15 \/ type \in 32 .. 37 \/ type \in 40 .. 45
datagramTypeHasExtensions(type) == Bit(type, DG_HAS_EXTENSIONS)
datagramTypeIsStatus(type) == Bit(type, DG_IS_STATUS)
datagramObjectIdZero(type) == Bit(type, DG_OBJECT_ID_ZERO)
datagramPriorityPresent(type) == ~Bit(type, DG_PRIORITY_NOT_PRESENT)
datagramTypeEndOfGroup(type) == ~datagramTypeIsStatus(type) /\ Bit(type, DG_HAS_END_OF_GROUP)

writeDatagramObject(v, alias, o, endOfGroup) ==
  LET status == o.status # NORMAL \/ o.payload = <<>>
  IN  writeVarint(v, getDatagramType(status, o.exts # noExtensions, endOfGroup, o.id = 0,
                                     o.priority # <<>>))
        \o writeVarint(v, alias) \o writeVarint(v, o.group)
        \o (IF o.id = 0 THEN <<>> ELSE writeVarint(v, o.id)) \o OptByte(o.priority)
        \o (IF o.exts # noExtensions THEN writeExtensions(v, o.exts, TRUE) ELSE <<>>)
        \o (IF status THEN writeVarint(v, o.status) ELSE o.payload)

(* The payload is what is left of the datagram.                            *)
parseDatagramObjectHeader(v, type, s) ==
  Then(Varint(v, s), LAMBDA alias, r1 : Then(Varint(v, r1), LAMBDA group, r2 :
  Then(OptVarint(v, ~datagramObjectIdZero(type), r2), LAMBDA id, r3 :
  Then(OptUint8(datagramPriorityPresent(type), r3), LAMBDA priority, r4 :
  Then(OptExtensions(v, datagramTypeHasExtensions(type), r4), LAMBDA exts, r5 :
    LET isStatus == datagramTypeIsStatus(type)
        end == IF isStatus THEN Varint(v, r5) ELSE OK(NORMAL, r5)
    IN  Then(end, LAMBDA status, r6 :
          IF \/ status > END_OF_TRACK
             \/ isStatus /\ r6 # <<>>
             \/ ~isValidStatusForExtensions(status, exts)
          THEN Violation
          ELSE OK([alias |-> alias, endOfGroup |-> datagramTypeEndOfGroup(type),
                   object |-> [group |-> group, subgroup |-> 0, id |-> ValueOr(id, 0),
                               priority |-> priority, exts |-> exts, status |-> status,
                               payload |-> r6, datagram |-> TRUE]], <<>>)))))))

Datagram(v, s) ==
  Then(Varint(v, s), LAMBDA type, r :
    IF ~isValidDatagramType(type) THEN Violation ELSE parseDatagramObjectHeader(v, type, r))
=============================================================================
