------------------------------ MODULE PbStream ------------------------------
(***************************************************************************)
(* The input streams of nanopb (lib/nanopb-0.3.9.3/pb_decode.c) that       *)
(* ProtoBuff.c decodes with.                                               *)
(*                                                                         *)
(* A stream is a position in a buffer and the number of bytes that may     *)
(* still be read.  An operator that reads takes the buffer and the stream, *)
(* and returns the stream as the function leaves it, failures included,    *)
(* and whether the function returned true.                                 *)
(*                                                                         *)
(* A byte is one of 0..255, its low seven bits are byte % 128.  The models *)
(* use buffers of at most 36 bytes, so that bitpos, eight bits wide, does  *)
(* not wrap around within a varint.                                        *)
(***************************************************************************)
EXTENDS Integers, Sequences

Octet == 0 .. 255

Stream == [pos : Nat, left : Nat]

\* pb_istream_from_buffer()
FromBuffer(buf) == [pos |-> 0, left |-> Len(buf)]

\* Where the bytes that a stream may read end.
EndOf(s) == s.pos + s.left

\* The k-th byte that the stream will read.
ByteAt(buf, s, k) == buf[s.pos + k]

Advance(s, count) == [pos |-> s.pos + count, left |-> s.left - count]

\* pb_read(): all the bytes or none.
pb_read(s, count) ==
  IF s.left < count THEN [ok |-> FALSE, stream |-> s]
  ELSE [ok |-> TRUE, stream |-> Advance(s, count)]

-----------------------------------------------------------------------------
\* Varints.

\* The k-th byte has no continuation bit.
Ends(buf, s, k) == ByteAt(buf, s, k) < 128

\* What is left of 32 bits for the fifth byte is four bits.
TopBits(buf, s) == ByteAt(buf, s, 5) % 16

\* From the sixth byte on only zeros or the sign extension of a negative number
\* are accepted.
Trails(buf, s, k) ==
  \/ ByteAt(buf, s, k) % 128 = 0
  \/ TopBits(buf, s) >= 8 /\ ByteAt(buf, s, k) = IF k < 10 THEN 255 ELSE 1

\* pb_decode_varint32 finds an overflow at the k-th byte.
Overflows(buf, s, k) ==
  IF k = 5 THEN ByteAt(buf, s, k) \in 16 .. 127 ELSE k > 5 /\ ~Trails(buf, s, k)

Stops(buf, s, k) == Ends(buf, s, k) \/ Overflows(buf, s, k)

\* How many bytes it reads: up to the end of the varint, the overflow or the end
\* of the stream.
VarintLen(buf, s) ==
  CHOOSE n \in 0 .. s.left :
    /\ \A k \in 1 .. n - 1 : ~Stops(buf, s, k)
    /\ n < s.left => n > 0 /\ Stops(buf, s, n)

\* The value; seven stands for any larger value of the top bits: no buffer is as
\* long and no field has such a number.
Group(buf, s, k, n) == IF k <= n THEN ByteAt(buf, s, k) % 128 ELSE 0

TopGroup(buf, s, n) ==
  IF n < 5 THEN 0 ELSE IF TopBits(buf, s) > 7 THEN 7 ELSE TopBits(buf, s)

VarintValue(buf, s, n) ==
  Group(buf, s, 1, n) + 128 * (Group(buf, s, 2, n) + 128 * (Group(buf, s, 3, n)
    + 128 * (Group(buf, s, 4, n) + 128 * TopGroup(buf, s, n))))

pb_decode_varint32(buf, s) ==
  LET n == VarintLen(buf, s) IN
    [ ok     |-> n > 0 /\ Ends(buf, s, n) /\ ~Overflows(buf, s, n),
      stream |-> Advance(s, n),
      value  |-> VarintValue(buf, s, n) ]

\* pb_skip_varint() checks nothing but the continuation bits.
SkippedLen(buf, s) ==
  CHOOSE n \in 0 .. s.left :
    /\ \A k \in 1 .. n - 1 : ~Ends(buf, s, k)
    /\ n < s.left => n > 0 /\ Ends(buf, s, n)

pb_skip_varint(buf, s) ==
  LET n == SkippedLen(buf, s) IN
    [ok |-> n > 0 /\ Ends(buf, s, n), stream |-> Advance(s, n)]

-----------------------------------------------------------------------------
\* Fields.

\* pb_decode_tag(): a zero ends the message like the end of the stream does.
pb_decode_tag(buf, s) ==
  LET tag == pb_decode_varint32(buf, s) IN
    [ ok        |-> tag.ok /\ tag.value # 0,
      eof       |-> s.left = 0 \/ (tag.ok /\ tag.value = 0),
      stream    |-> tag.stream,
      tag       |-> tag.value \div 8,
      wire_type |-> tag.value % 8 ]

\* Mutant of pb_skip_string: the length is taken for the end of the field.
SkipLengthOnly(buf, s) ==
  LET length == pb_decode_varint32(buf, s) IN
    [ok |-> length.ok, stream |-> length.stream]

pb_skip_string(buf, s) ==
  LET length == pb_decode_varint32(buf, s) IN
    IF length.ok THEN pb_read(length.stream, length.value)
    ELSE [ok |-> FALSE, stream |-> length.stream]

\* The wire types: 0 varint, 1 64 bits, 2 string, 5 32 bits.
pb_skip_field(buf, s, wire_type) ==
  CASE wire_type = 0 -> pb_skip_varint(buf, s)
    [] wire_type = 1 -> pb_read(s, 8)
    [] wire_type = 2 -> pb_skip_string(buf, s)
    [] wire_type = 5 -> pb_read(s, 4)
    [] OTHER -> [ok |-> FALSE, stream |-> s]

-----------------------------------------------------------------------------
\* Substreams.

\* Mutant of pb_make_string_substream: the length is not compared with what is left.
MakeSubstreamUnchecked(buf, s) ==
  LET size == pb_decode_varint32(buf, s) IN
    IF size.ok
    THEN [ ok        |-> TRUE,
           stream    |-> [size.stream EXCEPT !.left = @ - size.value],
           substream |-> [size.stream EXCEPT !.left = size.value] ]
    ELSE [ok |-> FALSE, stream |-> size.stream, substream |-> size.stream]

\* The parent gives up the bytes of the substream, but keeps its position until
\* the substream is closed.
pb_make_string_substream(buf, s) ==
  LET size == pb_decode_varint32(buf, s) IN
    IF size.ok /\ size.value <= size.stream.left
    THEN [ ok        |-> TRUE,
           stream    |-> [size.stream EXCEPT !.left = @ - size.value],
           substream |-> [size.stream EXCEPT !.left = size.value] ]
    ELSE [ok |-> FALSE, stream |-> size.stream, substream |-> size.stream]

\* Mutant of pb_close_string_substream: the bytes left in it are not skipped.
CloseWithoutSkip(s, substream) == [s EXCEPT !.pos = substream.pos]

\* Skips what is left of the substream; this read cannot fail.
pb_close_string_substream(s, substream) ==
  [s EXCEPT !.pos = pb_read(substream, substream.left).stream.pos]
=============================================================================
