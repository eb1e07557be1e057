------------------------------ MODULE PbScalar ------------------------------
(***************************************************************************)
(* The values of scalar fields in nanopb, in both directions:              *)
(* pb_decode.c and pb_encode.c.                                            *)
(*                                                                         *)
(* A varint carries 64 bits in ten groups of seven, the first one the      *)
(* lowest.  A member of one, two or four bytes is a number; one of four    *)
(* bytes is given by its 32 bits read as a signed number, for unsigned     *)
(* fields too.  Members of eight bytes are left out: TLC's integers have   *)
(* 32 bits.  fixed32 and fixed64 are kept as bytes, the lowest first, as   *)
(* they are on the line and in the memory of a little-endian machine.      *)
(***************************************************************************)
EXTENDS PbStream

IntSizes == {1, 2, 4}

\* The numbers of a member of that size.
Signed(size) ==
  CASE size = 1 -> -128 .. 127
    [] size = 2 -> -32768 .. 32767
    [] size = 4 -> -2147483647 - 1 .. 2147483647

Unsigned(size) ==
  CASE size = 1 -> 0 .. 255 [] size = 2 -> 0 .. 65535 [] size = 4 -> Signed(4)

-----------------------------------------------------------------------------
\* Reading.

\* How many bytes pb_decode_varint reads: up to the end of the varint, ten at most.
VarintLen64(buf, s) ==
  LET most == IF s.left < 10 THEN s.left ELSE 10 IN
    CHOOSE n \in 0 .. most :
      /\ \A k \in 1 .. n - 1 : ~Ends(buf, s, k)
      /\ n < most => n > 0 /\ Ends(buf, s, n)

\* Its value; of the tenth group only one bit fits.
pb_decode_varint(buf, s) ==
  LET n == VarintLen64(buf, s) IN
    [ ok     |-> n > 0 /\ Ends(buf, s, n),
      stream |-> Advance(s, n),
      groups |-> [k \in 1 .. 10 |-> Group(buf, s, k, n) % (IF k = 10 THEN 2 ELSE 128)] ]

\* The number with these low bits, in two's complement.
AsSigned(bits, width) == IF bits >= 2^(width - 1) THEN bits - 2^width ELSE bits

\* (int32_t)value
Low32(g) ==
  g[1] + 128 * (g[2] + 128 * (g[3] + 128 * g[4])) + 268435456 * AsSigned(g[5] % 16, 4)

\* (int32_t)(value >> 1)
Half32(g) ==
  g[1] \div 2 + 64 * (g[2] + 128 * (g[3] + 128 * g[4]))
    + 134217728 * AsSigned(g[5] % 32, 5)

\* A cast to a signed type of that size.
Cast(v, size) ==
  IF size = 4 THEN v
  ELSE IF size = 2 THEN AsSigned(v % 65536, 16) ELSE AsSigned(v % 256, 8)

\* value < 2^32
Below32(g) == g[5] < 16 /\ \A k \in 6 .. 10 : g[k] = 0

\* Each returns what the member is set to, and whether the value fits there.
pb_dec_varint(g, size) ==
  [value |-> Cast(Low32(g), size), ok |-> Cast(Low32(g), size) = Low32(g)]

pb_dec_uvarint(g, size) ==
  LET value == IF size = 4 THEN Low32(g) ELSE Low32(g) % 2^(8 * size) IN
    [value |-> value, ok |-> Below32(g) /\ value = Low32(g)]

\* ~(value >> 1) when the lowest bit is set.
pb_decode_svarint(g) == IF g[1] % 2 = 1 THEN -1 - Half32(g) ELSE Half32(g)

pb_dec_svarint(g, size) ==
  LET svalue == pb_decode_svarint(g) IN
    [value |-> Cast(svalue, size), ok |-> Below32(g) /\ Cast(svalue, size) = svalue]

-----------------------------------------------------------------------------
\* Writing.

\* The groups of (pb_uint64_t)value.
GroupsOf(v) ==
  [k \in 1 .. 10 |->
     CASE k = 1 -> v % 128
       [] k = 2 -> (v \div 128) % 128
       [] k = 3 -> (v \div 16384) % 128
       [] k = 4 -> (v \div 2097152) % 128
       [] k = 5 -> (v \div 268435456) % 128
       [] k \in 6 .. 9 -> IF v < 0 THEN 127 ELSE 0
       [] k = 10 -> IF v < 0 THEN 1 ELSE 0]

pb_enc_varint(v) == GroupsOf(v)

\* An unsigned member of four bytes has no bits beyond the 32nd.
pb_enc_uvarint(v) ==
  [k \in 1 .. 10 |->
     IF k < 5 THEN GroupsOf(v)[k] ELSE IF k = 5 THEN GroupsOf(v)[k] % 16 ELSE 0]

\* Mutant of pb_enc_svarint: the sign goes to the lowest bit, the rest is not inverted.
SvarintSignOnly(v) ==
  [k \in 1 .. 10 |->
     IF k = 1 THEN 2 * (v % 64) + (IF v < 0 THEN 1 ELSE 0)
     ELSE GroupsOf(v \div 64)[k - 1]]

\* pb_encode_svarint(): the value times two, inverted when it is negative.
pb_enc_svarint(v) ==
  LET n == IF v < 0 THEN -1 - v ELSE v IN
    [k \in 1 .. 10 |->
       IF k = 1 THEN 2 * (n % 64) + (IF v < 0 THEN 1 ELSE 0)
       ELSE GroupsOf(n \div 64)[k - 1]]

\* The bytes of a varint: the groups up to the last one that is not zero.
pb_encode_varint(g) ==
  LET used == { k \in 2 .. 10 : g[k] # 0 }
      n    == IF used = {} THEN 1 ELSE CHOOSE k \in used : \A j \in used : j <= k
  IN  [k \in 1 .. n |-> IF k < n THEN g[k] + 128 ELSE g[k]]

\* The wire type of a field, for its tag.
WireType(ltype) ==
  CASE ltype \in {"VARINT", "UVARINT", "SVARINT"} -> 0
    [] ltype = "FIXED64" -> 1
    [] ltype = "FIXED32" -> 5
    [] OTHER -> 2

pb_encode_tag(wiretype, field_number) ==
  pb_encode_varint(GroupsOf(8 * field_number + wiretype))
=============================================================================
