------------------------------ MODULE MoQVarint ------------------------------
(***************************************************************************)
(* The variable-length integers of the wire format.  From draft 17 on they *)
(* are MoQ varints (MoQVarint.h, MoQVarint.cpp): the number of leading one *)
(* bits of the first byte says how many bytes follow.  Below draft 17 they *)
(* are QUIC varints, which come from the QUIC library.                     *)
(*                                                                         *)
(* A byte is a number below 2^ByteBits.  The program has ByteBits = 8; the *)
(* encoding is defined for any width, and with three bits TLC visits every *)
(* value and every length there is.                                        *)
(***************************************************************************)
EXTENDS Integers, Sequences, FiniteSetsExt

CONSTANT ByteBits

Byte == 0 .. (2^ByteBits - 1)

(* The big-endian value of a sequence of bytes, and n bytes of a value.    *)
FromBytes(s) ==
  LET value[i \in 0 .. Len(s)] ==
        IF i = 0 THEN 0 ELSE value[i - 1] * 2^ByteBits + s[i]
  IN  value[Len(s)]

ToBytes(x, n) ==
  LET high[k \in 0 .. n] == IF k = 0 THEN x ELSE high[k - 1] \div 2^ByteBits
  IN  [i \in 1 .. n |-> high[n - i] % 2^ByteBits]

(* How many bits x needs; zero needs none.                                 *)
BitWidth(x) ==
  LET width[n \in Nat] == IF n = 0 THEN 0 ELSE 1 + width[n \div 2]
  IN  width[x]

(* Every byte of the encoding adds ByteBits - 1 bits of value, until the   *)
(* prefix fills the whole first byte and the value follows it.             *)
getMoQVarintSize(x) ==
  LET n == (BitWidth(x) + ByteBits - 2) \div (ByteBits - 1)
  IN  Max({1, Min({n, ByteBits + 1})})

(* The prefix of an encoding of n bytes: n - 1 one bits, in the high part. *)
VarintPrefix(n) == 2^ByteBits - 2^(ByteBits - n + 1)

encodeMoQVarintSlow(x) ==
  LET n == getMoQVarintSize(x)
      body == ToBytes(x, n)
  IN  IF n = ByteBits + 1
      THEN <<2^ByteBits - 1>> \o ToBytes(x, ByteBits)
      ELSE [body EXCEPT ![1] = @ + VarintPrefix(n)]

(* One byte when the value fits beside the empty prefix.                   *)
encodeMoQVarint(x) ==
  IF x < 2^(ByteBits - 1) THEN <<x>> ELSE encodeMoQVarintSlow(x)

(* How many bytes an encoding has, from its first byte.                    *)
LeadingOnes(b) ==
  Max({k \in 0 .. ByteBits : b >= 2^ByteBits - 2^(ByteBits - k)})

(* What a decoder returns: nothing, when the bytes at hand are too few, or *)
(* the value and the number of bytes it took.                              *)
NoVarint == [val |-> 0, n |-> 0]

decodeMoQVarintSlow(s) ==
  LET n == LeadingOnes(s[1]) + 1
      first == IF n = ByteBits + 1 THEN <<>> ELSE <<s[1] - VarintPrefix(n)>>
  IN  IF n > Len(s) THEN NoVarint
      ELSE [val |-> FromBytes(first \o SubSeq(s, 2, n)), n |-> n]

decodeMoQVarint(s) ==
  IF s = <<>> THEN NoVarint
  ELSE IF s[1] < 2^(ByteBits - 1) THEN [val |-> s[1], n |-> 1]
  ELSE decodeMoQVarintSlow(s)

(* QUIC varints: the two high bits of the first byte give the length.      *)
encodeQuicInteger(x) ==
  LET k == CHOOSE k \in 0 .. 3 :
                /\ x < 2^(ByteBits * 2^k - 2)
                /\ k > 0 => x >= 2^(ByteBits * 2^(k - 1) - 2)
      body == ToBytes(x, 2^k)
  IN  [body EXCEPT ![1] = @ + k * 2^(ByteBits - 2)]

decodeQuicInteger(s) ==
  LET k == s[1] \div 2^(ByteBits - 2)
      n == 2^k
  IN  IF s = <<>> THEN NoVarint
      ELSE IF n > Len(s) THEN NoVarint
      ELSE [val |-> FromBytes([SubSeq(s, 1, n) EXCEPT ![1] = @ % 2^(ByteBits - 2)]),
            n |-> n]

=============================================================================
