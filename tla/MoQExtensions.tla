--------------------------- MODULE MoQExtensions ---------------------------
(***************************************************************************)
(* Extension headers: the properties of a track or an object.  They go out *)
(* sorted by type with the types as differences; the immutable ones travel *)
(* inside one container extension, placed among the others by its type.    *)
(*                                                                         *)
(* An extension is [type, val]: val is <<number>> for an even type and the *)
(* bytes for an odd one.  Extensions are a pair of lists, mut and immut.   *)
(***************************************************************************)
EXTENDS MoQParameters

CONSTANTS kMaxExtensionLength, kMaxExtensionBlockLength

kImmutableExtensionType == 11
kPublisherGroupOrderExtensionType == 34
kDeliveryTimeoutExtensionType == 2

Ext(type, val) == [type |-> type, val |-> val]
noExtensions == [mut |-> <<>>, immut |-> <<>>]

sortExtensionsByType(exts) ==
  FoldLeft(LAMBDA sorted, e :
    LET before == SelectSeq(sorted, LAMBDA f : f.type <= e.type)
    IN  before \o <<e>> \o Drop(sorted, Len(before)), <<>>, exts)

writeExtensionValue(v, e) ==
  IF e.type % 2 = 1 THEN writeFixedString(v, e.val) ELSE writeVarint(v, e.val[1])

writeKeyValuePairs(v, exts) ==
  LET sorted == sortExtensionsByType(exts)
      Before(i) == IF i = 1 THEN 0 ELSE sorted[i - 1].type
  IN  FlattenSeq([i \in DOMAIN sorted |->
        writeVarint(v, sorted[i].type - Before(i)) \o writeExtensionValue(v, sorted[i])])

(* The size is computed apart from the writing.                            *)
calculateExtensionVectorSize(v, exts) ==
  LET sorted == sortExtensionsByType(exts)
      Before(i) == IF i = 1 THEN 0 ELSE sorted[i - 1].type
      Size(i) == Len(writeVarint(v, sorted[i].type - Before(i)))
                   + Len(writeExtensionValue(v, sorted[i]))
  IN  FoldLeft(LAMBDA n, i : n + Size(i), 0, [i \in DOMAIN sorted |-> i])

(* The container goes before the first type above its own, or last.        *)
Container(v, exts, previous) ==
  writeVarint(v, kImmutableExtensionType - previous)
    \o writeVarint(v, calculateExtensionVectorSize(v, exts.immut))
    \o writeKeyValuePairs(v, exts.immut)
Place(v, exts, w) ==
  [bytes |-> w.bytes \o Container(v, exts, w.previous), placed |-> TRUE,
   previous |-> kImmutableExtensionType]
WriteAt(v, w, e) ==
  [w EXCEPT !.bytes = @ \o writeVarint(v, e.type - w.previous) \o writeExtensionValue(v, e),
            !.previous = e.type]
RECURSIVE WriteEach(_, _, _, _)
WriteEach(v, exts, w, left) ==
  IF ~w.placed /\ \A i \in {1} \cap DOMAIN left : left[i].type > kImmutableExtensionType
  THEN WriteEach(v, exts, Place(v, exts, w), left)
  ELSE IF left = <<>> THEN w.bytes
  ELSE WriteEach(v, exts, WriteAt(v, w, Head(left)), Tail(left))

writeBlock(v, block, withLengthPrefix) ==
  IF withLengthPrefix THEN LengthFirst(v, block) ELSE block
writeExtensions(v, exts, withLengthPrefix) ==
  writeBlock(v, WriteEach(v, exts, [bytes |-> <<>>, previous |-> 0, placed |-> exts.immut = <<>>],
                          sortExtensionsByType(exts.mut)), withLengthPrefix)

-----------------------------------------------------------------------------

parseExtensionValue(v, type, s) ==
  IF type % 2 = 0 THEN Then(Varint(v, s), LAMBDA x, r : OK(<<x>>, r))
  ELSE Then(parseFixedString(v, s), LAMBDA body, r :
         IF Len(body) > kMaxExtensionLength THEN Violation ELSE OK(body, r))

(* One extension after another until the block ends; q.val is the type of  *)
(* the last one and what was read.  Inside the container every extension   *)
(* is immutable, and a container is an error.                              *)
RECURSIVE KvPairs(_, _, _)
parseImmutable(v, exts, body) ==
  Then(KvPairs(v, TRUE, OK([previous |-> 0, exts |-> exts], body)), LAMBDA read, r :
    OK(read.exts, r))

parseExtension(v, inside, exts, type, s) ==
  IF inside /\ type = kImmutableExtensionType THEN Violation
  ELSE Then(parseExtensionValue(v, type, s), LAMBDA x, r :
         CASE inside -> OK([exts EXCEPT !.immut = Append(@, Ext(type, x))], r)
           [] ~inside /\ type # kImmutableExtensionType ->
                OK([exts EXCEPT !.mut = Append(@, Ext(type, x))], r)
           [] OTHER -> Then(parseImmutable(v, exts, x), LAMBDA all, z : OK(all, r)))

OnePair(v, inside, read, delta) ==
  Then(delta, LAMBDA d, r :
    Then(parseExtension(v, inside, read.exts, read.previous + d, r), LAMBDA exts, after :
      OK([previous |-> read.previous + d, exts |-> exts], after)))
KvPairs(v, inside, q) ==
  IF q.err # "none" \/ q.s = <<>> THEN q
  ELSE KvPairs(v, inside, OnePair(v, inside, q.val, Varint(v, q.s)))

parseExtensionKvPairs(v, block) ==
  Then(KvPairs(v, FALSE, OK([previous |-> 0, exts |-> noExtensions], block)),
       LAMBDA read, rest : OK(read.exts, rest))

parseExtensions(v, s) ==
  Then(Varint(v, s), LAMBDA n, r :
    IF n > kMaxExtensionBlockLength THEN Violation
    ELSE Then(Take(n, r), LAMBDA block, rest :
           Then(parseExtensionKvPairs(v, block), LAMBDA exts, z : OK(exts, rest))))

-----------------------------------------------------------------------------

getIntExtension(exts, type) ==
  LET found == SelectSeq(exts.mut \o exts.immut, LAMBDA e : e.type = type)
  IN  IF found = <<>> THEN <<>> ELSE <<found[1].val[1]>>

(* The group order a publisher announces for its track.                    *)
parsePublisherGroupOrder(exts) ==
  LET x == getIntExtension(exts, kPublisherGroupOrderExtensionType)
  IN  IF x # <<>> /\ x[1] \notin {1, 2} THEN Violation ELSE OK(x, <<>>)

validateDeliveryTimeoutExtension(v, exts) ==
  ~(v <= 16 /\ getIntExtension(exts, kDeliveryTimeoutExtensionType) = <<0>>)
=============================================================================
