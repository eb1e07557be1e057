------------------------- MODULE UnionDecode_proofs -------------------------
(***************************************************************************)
(* Whatever the bytes of a message are, and whatever its handler does with *)
(* the stream, positions and counts stay consistent and the scan goes      *)
(* forward: for buffers of every length.                                   *)
(*                                                                         *)
(* When the bytes are those of a message, by the definition of PbWire, the *)
(* scan finds its first submessage of the union, and the handler decodes   *)
(* just that: for messages of every length, with fields of every number.   *)
(***************************************************************************)
EXTENDS UnionDecode, PbStream_proofs

\* Not even an undelimited message moves its parent_stream away from the buffer.
IInv ==
  /\ TypeOK
  /\ StreamsFit
  /\ ~delimited => EndOf(parent) = Len(input.buffer)

\* The stream of a call that is under way lies within the buffer.
LEMMA StreamInside ==
  ASSUME IInv, at # "idle"
  PROVE  input.buffer \in Seq(Octet) /\ Inside(input.buffer, stream)
<1>1. input.buffer \in Seq(Octet) BY InputsAssumption DEF IInv, TypeOK
<1>2. /\ stream \in Stream /\ parent.left \in Nat /\ delimited \in BOOLEAN
      /\ stream.pos \in Nat /\ stream.left \in Nat
  BY DEF IInv, TypeOK, Stream
<1>3. EndOf(stream) + (IF delimited THEN parent.left ELSE 0) = Len(input.buffer)
  BY DEF IInv, StreamsFit
<1> QED BY <1>1, <1>2, <1>3 DEF Inside, EndOf

\* A step inside a call that reads from the stream, and nothing else, keeps the
\* invariant.
LEMMA ReadStep ==
  ASSUME IInv, at # "idle", ReadTo(stream, stream'),
         at' \in {"scan", "lookup", "handler", "explicit", "close"},
         type' \in Types \cup {NULL}, entry' \in Stream \cup {NULL}, result' \in BOOLEAN,
         UNCHANGED <<input, delimited, parent>>
  PROVE  IInv'
<1>1. TypeOK' BY DEF IInv, TypeOK, ReadTo
<1>2. StreamsFit' BY DEF IInv, StreamsFit, ReadTo, EndOf
<1>3. (~delimited => EndOf(parent) = Len(input.buffer))'
  BY DEF IInv, EndOf
<1> QED BY <1>1, <1>2, <1>3 DEF IInv

\* The invariant holds before any call.
LEMMA InitIInv == Init => IInv
<1> SUFFICES ASSUME Init PROVE IInv
  OBVIOUS
<1>1. input.buffer \in Seq(Octet) BY InputsAssumption DEF Init
<1>2. FromBuffer(input.buffer) \in Stream /\ EndOf(FromBuffer(input.buffer)) = Len(input.buffer)
  BY <1>1 DEF FromBuffer, Stream, EndOf
<1> QED BY <1>2 DEF Init, IInv, TypeOK, StreamsFit

\* Opening a message keeps the invariant.
LEMMA CallStep ==
  ASSUME IInv, NEW d \in BOOLEAN, NEW explicit \in BOOLEAN, Call(d, explicit)
  PROVE  IInv'
<1> DEFINE whole == FromBuffer(input.buffer)
           open  == pb_make_string_substream(input.buffer, whole)
<1>1. input \in Inputs /\ input.buffer \in Seq(Octet)
  BY InputsAssumption DEF IInv, TypeOK
<1>2. whole \in Stream /\ EndOf(whole) = Len(input.buffer) /\ Inside(input.buffer, whole)
  BY <1>1 DEF FromBuffer, Stream, EndOf, Inside
<1>3. /\ open.ok \in BOOLEAN
      /\ open.stream \in Stream /\ open.substream \in Stream
      /\ ~open.ok => ReadTo(whole, open.stream) /\ open.substream = open.stream
      /\ open.ok => EndOf(open.substream) + open.stream.left = EndOf(whole)
  <2> HIDE DEF whole
  <2> QED BY <1>1, <1>2, MakeSubstream
<1>4. /\ input' = input
      /\ delimited' = d
      /\ type' = NULL
      /\ entry' = NULL
      /\ result' = FALSE
      /\ parent' = IF d THEN open.stream ELSE whole
      /\ stream' = IF d THEN open.substream ELSE whole
      /\ at' = IF d /\ ~open.ok THEN "idle" ELSE Body(explicit)
  BY DEF Call
<1> HIDE DEF whole, open
<1>5. Body(explicit) \in {"explicit", "scan"} BY DEF Body
<1>6. TypeOK' BY <1>1, <1>2, <1>3, <1>4, <1>5 DEF TypeOK
<1>7. CASE ~d BY <1>7, <1>2, <1>4, <1>5, <1>6 DEF IInv, StreamsFit, EndOf
<1>8. CASE d /\ open.ok
  BY <1>8, <1>2, <1>3, <1>4, <1>5, <1>6 DEF IInv, StreamsFit, EndOf
<1>9. CASE d /\ ~open.ok
  BY <1>9, <1>2, <1>3, <1>4, <1>6 DEF IInv, StreamsFit, EndOf, ReadTo
<1> QED BY <1>3, <1>7, <1>8, <1>9

\* A round of the scan reads from the stream, and the round that goes on reads at
\* least a byte.
LEMMA ScanReads ==
  ASSUME IInv, Scan
  PROVE  ReadTo(stream, stream') /\ (at' = "scan" => stream'.left < stream.left)
<1> DEFINE field == pb_decode_tag(input.buffer, stream)
           skip  == pb_skip_field(input.buffer, field.stream, field.wire_type)
<1>1. at = "scan" BY DEF Scan
<1>2. input.buffer \in Seq(Octet) /\ Inside(input.buffer, stream) BY <1>1, StreamInside
<1>3. /\ ReadTo(stream, field.stream)
      /\ Inside(input.buffer, field.stream)
      /\ field.ok => field.stream.left < stream.left
  BY <1>2, TagReads
<1>4. ReadTo(field.stream, skip.stream)
  <2> HIDE DEF field
  <2> QED BY <1>2, <1>3, SkipReads
<1>5. \/ stream' = field.stream /\ at' = "lookup"
      \/ field.ok /\ stream' = skip.stream
  BY DEF Scan
<1> HIDE DEF field, skip
<1>6. stream \in Stream BY DEF IInv, TypeOK
<1> QED BY <1>3, <1>4, <1>5, <1>6 DEF ReadTo, Stream

\* A round of the scan keeps the invariant.
LEMMA ScanStep ==
  ASSUME IInv, Scan
  PROVE  IInv'
<1>1. at = "scan" /\ at' \in {"scan", "lookup"} /\ UNCHANGED <<input, delimited, parent, entry, result>>
  BY DEF Scan
<1>2. type' \in Types \cup {NULL}
  BY DEF Scan, IsSubmessage, Types, IInv, TypeOK
<1>3. ReadTo(stream, stream') BY ScanReads
<1>4. entry' \in Stream \cup {NULL} /\ result' \in BOOLEAN BY <1>1 DEF IInv, TypeOK
<1> QED BY <1>1, <1>2, <1>3, <1>4, ReadStep

\* Closing the message keeps the invariant: the parent takes up where the stream ends.
LEMMA CloseStep ==
  ASSUME IInv, Close
  PROVE  IInv'
<1>1. /\ at = "close" /\ at' = "idle"
      /\ parent' = IF delimited THEN pb_close_string_substream(parent, stream) ELSE parent
      /\ UNCHANGED <<input, delimited, stream, type, entry, result>>
  BY DEF Close
<1>2. parent \in Stream /\ stream \in Stream /\ delimited \in BOOLEAN BY DEF IInv, TypeOK
<1>3. EndOf(stream) + (IF delimited THEN parent.left ELSE 0) = Len(input.buffer)
  BY <1>1 DEF IInv, StreamsFit
<1>4. /\ pb_close_string_substream(parent, stream) \in Stream
      /\ EndOf(pb_close_string_substream(parent, stream)) = EndOf(stream) + parent.left
  BY <1>2, CloseSubstream
<1>5. parent' \in Stream BY <1>1, <1>2, <1>4
<1>6. EndOf(parent') = Len(input.buffer)
  <2>1. CASE delimited BY <2>1, <1>1, <1>3, <1>4
  <2>2. CASE ~delimited BY <2>2, <1>1 DEF IInv
  <2> QED BY <2>1, <2>2
<1>7. TypeOK' BY <1>1, <1>5 DEF IInv, TypeOK
<1> QED BY <1>1, <1>6, <1>7 DEF IInv, StreamsFit, EndOf

\* Decoding the submessage, whatever comes of it, keeps the invariant.
LEMMA DecodeStep ==
  ASSUME IInv, NEW count \in Nat, decode_union(count)
  PROVE  IInv'
<1> DEFINE sub == pb_make_string_substream(input.buffer, stream)
           rest == Advance(sub.substream, count)
           closed == pb_close_string_substream(sub.stream, rest)
<1>1. /\ at \in {"handler", "explicit"}
      /\ UNCHANGED <<input, delimited, at, parent, type, entry, result>>
      /\ \/ ~sub.ok /\ stream' = sub.stream
         \/ sub.ok /\ count <= sub.substream.left /\ stream' = closed
  BY DEF decode_union, InHandler
<1>2. input.buffer \in Seq(Octet) /\ Inside(input.buffer, stream)
  BY <1>1, StreamInside
<1>3. /\ sub.ok \in BOOLEAN
      /\ sub.stream \in Stream /\ sub.substream \in Stream
      /\ ~sub.ok => ReadTo(stream, sub.stream)
      /\ sub.ok => /\ EndOf(sub.substream) + sub.stream.left = EndOf(stream)
                   /\ sub.stream.left <= stream.left
  BY <1>2, MakeSubstream
<1> HIDE DEF sub
<1>4. ASSUME sub.ok, count <= sub.substream.left PROVE ReadTo(stream, closed)
  <2>1. ReadTo(sub.substream, rest) BY <1>3, <1>4, AdvanceReads
  <2>2. rest \in Stream /\ EndOf(rest) = EndOf(sub.substream) BY <2>1 DEF ReadTo
  <2> HIDE DEF rest
  <2>3. /\ closed \in Stream
        /\ closed.left = sub.stream.left
        /\ EndOf(closed) = EndOf(rest) + sub.stream.left
    BY <1>3, <2>2, CloseSubstream
  <2> HIDE DEF closed
  <2> QED BY <1>3, <1>4, <2>2, <2>3 DEF ReadTo
<1>5. ReadTo(stream, stream') BY <1>1, <1>3, <1>4
<1>6. /\ type' \in Types \cup {NULL} /\ entry' \in Stream \cup {NULL} /\ result' \in BOOLEAN
      /\ at # "idle" /\ at' \in {"handler", "explicit"}
  BY <1>1 DEF IInv, TypeOK
<1> QED BY <1>1, <1>5, <1>6, ReadStep

\* Bytes that the handler reads by itself, and its return, keep the invariant.
LEMMA HandlerStep ==
  ASSUME IInv,
         (\E count \in Nat : HandlerReads(count)) \/ (\E answer \in BOOLEAN : HandlerReturns(answer))
  PROVE  IInv'
<1>1. stream \in Stream /\ ReadTo(stream, stream)
  BY DEF IInv, TypeOK, ReadTo, Stream
<1>2. ASSUME NEW count \in Nat, HandlerReads(count) PROVE IInv'
  <2>1. ReadTo(stream, stream') BY <1>1, <1>2, AdvanceReads DEF HandlerReads
  <2>2. /\ at # "idle" /\ at' \in {"handler", "explicit"}
        /\ type' \in Types \cup {NULL} /\ entry' \in Stream \cup {NULL} /\ result' \in BOOLEAN
        /\ UNCHANGED <<input, delimited, parent>>
    BY <1>2 DEF HandlerReads, InHandler, IInv, TypeOK
  <2> QED BY <2>1, <2>2, ReadStep
<1>3. ASSUME NEW answer \in BOOLEAN, HandlerReturns(answer) PROVE IInv'
  <2>1. /\ at # "idle" /\ at' = "close" /\ stream' = stream
        /\ type' \in Types \cup {NULL} /\ entry' \in Stream \cup {NULL} /\ result' \in BOOLEAN
        /\ UNCHANGED <<input, delimited, parent>>
    BY <1>3 DEF HandlerReturns, InHandler, IInv, TypeOK
  <2> QED BY <1>1, <2>1, ReadStep
<1> QED BY <1>2, <1>3

\* The lookup keeps the invariant.
LEMMA LookupStep ==
  ASSUME IInv, Lookup
  PROVE  IInv'
<1>1. stream \in Stream /\ ReadTo(stream, stream)
  BY DEF IInv, TypeOK, ReadTo, Stream
<1>2. /\ at # "idle" /\ at' \in {"handler", "close"} /\ stream' = stream
      /\ type' \in Types \cup {NULL} /\ entry' \in Stream \cup {NULL} /\ result' \in BOOLEAN
      /\ UNCHANGED <<input, delimited, parent>>
  BY DEF Lookup, IInv, TypeOK
<1> QED BY <1>1, <1>2, ReadStep

\* Every step keeps the invariant.
LEMMA InductiveStep == IInv /\ [Next]_vars => IInv'
<1> SUFFICES ASSUME IInv, [Next]_vars PROVE IInv'
  OBVIOUS
<1>1. CASE Callers BY <1>1, CallStep DEF Callers
<1>2. CASE System BY <1>2, ScanStep, LookupStep, CloseStep DEF System
<1>3. CASE Handlers
  <2>1. Len(input.buffer) \in Nat BY InputsAssumption DEF IInv, TypeOK
  <2>2. ASSUME NEW count \in 1 .. Len(input.buffer), HandlerReads(count) PROVE IInv'
    BY <2>1, <2>2, HandlerStep
  <2>3. ASSUME NEW count \in 0 .. Len(input.buffer), decode_union(count) PROVE IInv'
    BY <2>1, <2>3, DecodeStep
  <2> QED BY <1>3, <2>2, <2>3 DEF Handlers
<1>4. CASE HandlerEnds BY <1>4, HandlerStep DEF HandlerEnds
<1>5. CASE UNCHANGED vars BY <1>5 DEF vars, IInv, TypeOK, StreamsFit
<1> QED BY <1>1, <1>2, <1>3, <1>4, <1>5 DEF Next

\* The inductive invariant holds in every reachable state.
THEOREM InductiveInvariant == Spec => []IInv
  BY InitIInv, InductiveStep, PTL DEF Spec

\* No position and no count of bytes left ever leaves the natural numbers, whatever
\* lengths a message claims.
THEOREM TypeCorrect == Spec => []TypeOK
<1>1. IInv => TypeOK BY DEF IInv
<1> QED BY <1>1, InductiveInvariant, PTL

\* No read leaves the buffer, or the delimited message, and closing a message
\* leaves its parent exactly behind it.
THEOREM StreamsAlwaysFit == Spec => []StreamsFit
<1>1. IInv => StreamsFit BY DEF IInv
<1> QED BY <1>1, InductiveInvariant, PTL

\* Every round of the scan that goes on to another has read at least a byte.
THEOREM ScanAlwaysAdvances == Spec => ScanAdvances
<1>1. ASSUME IInv, [Next]_vars
      PROVE  [at = "scan" /\ at' = "scan" => stream'.left < stream.left]_vars
  <2>1. CASE Scan BY <2>1, ScanReads, <1>1
  <2>2. CASE UNCHANGED vars BY <2>2
  <2>3. CASE Next /\ ~Scan
    <3>1. ~(at = "scan" /\ at' = "scan")
      BY <2>3 DEF Next, Callers, Call, System, Lookup, Close, Handlers, HandlerReads,
                  decode_union, HandlerEnds, HandlerReturns, InHandler
    <3> QED BY <3>1
  <2> QED BY <1>1, <2>1, <2>2, <2>3
<1> QED BY <1>1, InductiveInvariant, PTL DEF Spec, ScanAdvances

-----------------------------------------------------------------------------
\* The operators of PbStream, on the bytes of an encoding.

\* The bytes that a stream begins with, when they are those of a number.
LEMMA ContinuedBytes ==
  ASSUME NEW buf \in Seq(Octet), NEW s, Inside(buf, s), NEW to \in Nat, to <= EndOf(s),
         IsContinued(buf, s.pos, to)
  PROVE  /\ to - s.pos \in 1 .. s.left
         /\ \A k \in 1 .. to - s.pos : /\ ByteAt(buf, s, k) = buf[s.pos + k]
                                       /\ ByteAt(buf, s, k) \in Octet
                                       /\ Ends(buf, s, k) <=> k = to - s.pos
<1>1. s.pos \in Nat /\ s.left \in Nat
  BY DEF Inside, Stream
<1>2. to - s.pos \in 1 .. s.left
  BY <1>1 DEF IsContinued, EndOf
<1>3. \A k \in 1 .. to - s.pos : k \in 1 .. s.left
  BY <1>1, <1>2
<1> QED BY <1>2, <1>3, ByteIsOctet DEF IsContinued, ByteAt, Ends

\* The last byte of a number of five.
LEMMA SmallOctet ==
  ASSUME NEW b \in Octet, b < 8
  PROVE  b \in 0 .. 7 /\ b \notin 16 .. 127
  BY DEF Octet

\* The decoder of the firmware agrees with the encoding about the numbers below 2^31.
LEMMA VarintDecodes ==
  ASSUME NEW buf \in Seq(Octet), NEW s, Inside(buf, s), NEW to \in Nat, to <= EndOf(s),
         NEW n, IsVarint(buf, s.pos, to, n)
  PROVE  LET r == pb_decode_varint32(buf, s) IN
           r.ok /\ r.value = n /\ r.stream = Advance(s, to - s.pos)
<1> DEFINE m == to - s.pos
           l == VarintLen(buf, s)
<1>1. s \in Stream /\ s.pos \in Nat /\ s.left \in Nat
  BY DEF Inside, Stream
<1>2. /\ m \in 1 .. s.left /\ m <= 5
      /\ \A k \in 1 .. m : /\ ByteAt(buf, s, k) = buf[s.pos + k]
                           /\ ByteAt(buf, s, k) \in Octet
                           /\ Ends(buf, s, k) <=> k = m
  BY ContinuedBytes DEF IsVarint
<1>3. m = 5 => ByteAt(buf, s, 5) < 8
  <2>1. m = 5 => buf[to] < 8
    BY DEF IsVarint
  <2>2. m = 5 => to = s.pos + 5
    BY <1>1
  <2> QED BY <1>2, <2>1, <2>2
<1>4. n = Digit(buf, s.pos, to, 1) + 128 * (Digit(buf, s.pos, to, 2)
           + 128 * (Digit(buf, s.pos, to, 3) + 128 * (Digit(buf, s.pos, to, 4)
           + 128 * Digit(buf, s.pos, to, 5))))
  BY DEF IsVarint
<1>5. \A k \in Nat : s.pos + k <= to <=> k <= m
  BY <1>1
<1>6. \A k \in 1 .. 5 : Digit(buf, s.pos, to, k) = IF k <= m THEN ByteAt(buf, s, k) % 128 ELSE 0
  BY <1>2, <1>5 DEF Digit
<1>7. m \in 1 .. 5
  BY <1>1, <1>2
<1> HIDE DEF m
<1>8. \A k \in 1 .. m : ~Overflows(buf, s, k)
  <2> TAKE k \in 1 .. m
  <2>1. k \in 1 .. 5 /\ (k = 5 => m = 5)
    BY <1>7
  <2>2. CASE k = 5
    <3>1. ByteAt(buf, s, 5) < 8 /\ ByteAt(buf, s, 5) \in Octet
      BY <1>2, <1>3, <2>1, <2>2
    <3>2. ByteAt(buf, s, 5) \notin 16 .. 127
      BY <3>1, SmallOctet
    <3> QED BY <2>2, <3>2 DEF Overflows
  <2>3. CASE k < 5
    BY <2>1, <2>3 DEF Overflows
  <2> QED BY <2>1, <2>2, <2>3
<1>9. l = m
  <2> DEFINE P(k) == /\ \A j \in 1 .. k - 1 : ~Stops(buf, s, j)
                     /\ k < s.left => k > 0 /\ Stops(buf, s, k)
  <2>1. P(m)
    BY <1>1, <1>2, <1>7, <1>8 DEF Stops
  <2>2. l = CHOOSE k \in 0 .. s.left : P(k)
    BY DEF VarintLen
  <2>3. l \in 0 .. s.left /\ P(l)
    <3> HIDE DEF P, l
    <3> QED BY <1>2, <2>1, <2>2
  <2> HIDE DEF l
  <2>4. ASSUME l < m PROVE FALSE
    <3>1. l \in 1 .. m /\ l # m /\ Stops(buf, s, l)
      BY <1>1, <1>2, <2>3, <2>4
    <3> QED BY <1>2, <1>8, <3>1 DEF Stops
  <2>5. ASSUME l > m PROVE FALSE
    <3>1. m \in 1 .. l - 1
      BY <1>1, <1>7, <2>3, <2>5
    <3>2. Stops(buf, s, m)
      BY <1>2, <1>7 DEF Stops
    <3> QED BY <2>3, <3>1, <3>2
  <2> QED BY <1>1, <1>7, <2>3, <2>4, <2>5
<1>10. \A k \in 1 .. 4 : Group(buf, s, k, m) = Digit(buf, s.pos, to, k)
  BY <1>6, <1>7 DEF Group
<1>11. TopGroup(buf, s, m) = Digit(buf, s.pos, to, 5)
  <2>1. CASE m < 5
    BY <1>6, <1>7, <2>1 DEF TopGroup
  <2>2. CASE m = 5
    <3>1. ByteAt(buf, s, 5) \in 0 .. 7
      <4>1. 5 \in 1 .. m
        BY <2>2
      <4>2. ByteAt(buf, s, 5) \in Octet /\ ByteAt(buf, s, 5) < 8
        BY <1>2, <1>3, <2>2, <4>1
      <4> QED BY <4>2, SmallOctet
    <3>2. \A b \in 0 .. 7 : b % 16 = b /\ b % 128 = b
      OBVIOUS
    <3>3. TopBits(buf, s) = ByteAt(buf, s, 5) /\ ByteAt(buf, s, 5) % 128 = ByteAt(buf, s, 5)
      BY <3>1, <3>2 DEF TopBits
    <3> QED BY <1>6, <2>2, <3>1, <3>3 DEF TopGroup
  <2> QED BY <1>7, <2>1, <2>2
<1>12. VarintValue(buf, s, m) = n
  BY <1>4, <1>10, <1>11 DEF VarintValue
<1>13. m > 0 /\ Ends(buf, s, m) /\ ~Overflows(buf, s, m)
  BY <1>2, <1>7, <1>8
<1>14. VarintLen(buf, s) = m
  BY <1>9
<1>15. /\ pb_decode_varint32(buf, s).stream = Advance(s, m)
       /\ pb_decode_varint32(buf, s).value = n
       /\ pb_decode_varint32(buf, s).ok
  BY <1>12, <1>13, <1>14 DEF pb_decode_varint32
<1> QED BY <1>15 DEF m

\* What pb_skip_varint() skips is a varint of any size.
LEMMA VarintSkips ==
  ASSUME NEW buf \in Seq(Octet), NEW s, Inside(buf, s), NEW to \in Nat, to <= EndOf(s),
         IsContinued(buf, s.pos, to)
  PROVE  pb_skip_varint(buf, s).stream = Advance(s, to - s.pos)
<1> DEFINE m == to - s.pos
           l == SkippedLen(buf, s)
           P(k) == /\ \A j \in 1 .. k - 1 : ~Ends(buf, s, j)
                   /\ k < s.left => k > 0 /\ Ends(buf, s, k)
<1>1. s.pos \in Nat /\ s.left \in Nat
  BY DEF Inside, Stream
<1>2. m \in 1 .. s.left /\ \A k \in 1 .. m : Ends(buf, s, k) <=> k = m
  BY ContinuedBytes
<1> HIDE DEF m
<1>3. P(m)
  BY <1>1, <1>2
<1>4. l = CHOOSE k \in 0 .. s.left : P(k)
  BY DEF SkippedLen
<1>5. l \in 0 .. s.left /\ P(l)
  <2> HIDE DEF P, l
  <2> QED BY <1>1, <1>2, <1>3, <1>4
<1> HIDE DEF l
<1>6. ~(l < m) /\ ~(l > m)
  BY <1>1, <1>2, <1>5
<1>7. l = m
  BY <1>1, <1>2, <1>5, <1>6
<1> QED BY <1>7 DEF pb_skip_varint, l, m

\* A number is a natural number.
LEMMA NumberIsNat ==
  ASSUME NEW buf \in Seq(Octet), NEW s, Inside(buf, s), NEW to \in Nat, to <= EndOf(s),
         NEW n, IsVarint(buf, s.pos, to, n)
  PROVE  n \in Nat
<1> DEFINE r == pb_decode_varint32(buf, s)
<1>1. r.value = n
  BY VarintDecodes
<1>2. r.value \in Nat
  BY VarintReads
<1> QED BY <1>1, <1>2

\* A shorter way to say where a stream is after a number of its bytes.
LEMMA AdvanceTo ==
  ASSUME NEW buf, NEW s, Inside(buf, s), NEW to \in Nat, to <= EndOf(s), s.pos <= to
  PROVE  /\ Inside(buf, Advance(s, to - s.pos))
         /\ Advance(s, to - s.pos).pos = to
         /\ Advance(s, to - s.pos).left = EndOf(s) - to
         /\ EndOf(Advance(s, to - s.pos)) = EndOf(s)
  BY DEF Inside, Stream, Advance, EndOf

\* A tag and a wire type share a number.
LEMMA TagParts ==
  ASSUME NEW tag \in Nat \ {0}, NEW wire_type \in {0, 1, 2, 5}
  PROVE  LET n == 8 * tag + wire_type IN n # 0 /\ n \div 8 = tag /\ n % 8 = wire_type
  OBVIOUS

\* A field begins with what pb_decode_tag() finds.
LEMMA FieldDecodes ==
  ASSUME NEW buf \in Seq(Octet), NEW s, Inside(buf, s), NEW to \in Nat, to <= EndOf(s),
         NEW field \in Field, IsField(buf, s.pos, to, field)
  PROVE  LET t == pb_decode_tag(buf, s) IN
           /\ t.ok /\ t.tag = field.tag /\ t.wire_type = field.wire_type
           /\ Inside(buf, t.stream) /\ EndOf(t.stream) = EndOf(s)
           /\ IsValue(buf, t.stream.pos, to, field)
<1> DEFINE n == 8 * field.tag + field.wire_type
           v == pb_decode_varint32(buf, s)
<1>1. s.pos \in Nat
  BY DEF Inside, Stream
<1>2. PICK body \in s.pos .. to : IsVarint(buf, s.pos, body, n) /\ IsValue(buf, body, to, field)
  BY DEF IsField
<1>3. /\ body \in Nat /\ body <= EndOf(s) /\ s.pos <= body
  BY <1>1, <1>2 DEF Inside, Stream, EndOf
<1>4. v.ok /\ v.value = n /\ v.stream = Advance(s, body - s.pos)
  <2> HIDE DEF n
  <2> QED BY <1>2, <1>3, VarintDecodes
<1>5. Inside(buf, v.stream) /\ v.stream.pos = body /\ EndOf(v.stream) = EndOf(s)
  BY <1>3, <1>4, AdvanceTo
<1>6. n # 0 /\ n \div 8 = field.tag /\ n % 8 = field.wire_type
  <2>1. field.tag \in Nat \ {0} /\ field.wire_type \in {0, 1, 2, 5}
    BY DEF Field
  <2> QED BY <2>1, TagParts
<1> HIDE DEF n, v
<1>7. pb_decode_tag(buf, s) =
        [ ok        |-> v.ok /\ v.value # 0,
          eof       |-> s.left = 0 \/ (v.ok /\ v.value = 0),
          stream    |-> v.stream,
          tag       |-> v.value \div 8,
          wire_type |-> v.value % 8 ]
  BY DEF pb_decode_tag, v
<1>8. IsValue(buf, v.stream.pos, to, field)
  BY <1>2, <1>5
<1>9. v.ok /\ v.value # 0
  BY <1>4, <1>6
<1> DEFINE t == pb_decode_tag(buf, s)
<1>10. t.ok
  <2>1. t.ok = (v.ok /\ v.value # 0)
    BY DEF pb_decode_tag, v
  <2> QED BY <1>9, <2>1, Zenon
<1>11. t.tag = field.tag /\ t.wire_type = field.wire_type /\ t.stream = v.stream
  BY <1>4, <1>6, <1>7
<1> HIDE DEF t
<1>12. /\ t.ok /\ t.tag = field.tag /\ t.wire_type = field.wire_type
       /\ Inside(buf, t.stream) /\ EndOf(t.stream) = EndOf(s)
       /\ IsValue(buf, t.stream.pos, to, field)
  BY <1>5, <1>8, <1>10, <1>11
<1> QED BY <1>12 DEF t

\* The value of a field has a length, and ends where pb_skip_field() stops.
LEMMA ValueSkips ==
  ASSUME NEW buf \in Seq(Octet), NEW s, Inside(buf, s), NEW to \in Nat, to <= EndOf(s),
         NEW field \in Field, IsValue(buf, s.pos, to, field)
  PROVE  LET t == pb_skip_field(buf, s, field.wire_type).stream IN
           Inside(buf, t) /\ t.pos = to /\ EndOf(t) = EndOf(s)
<1> DEFINE w == field.wire_type
           t == pb_skip_field(buf, s, w).stream
           size == Len(field.payload)
<1>1. s \in Stream /\ s.pos \in Nat /\ s.left \in Nat /\ EndOf(s) = s.pos + s.left
  BY DEF Inside, Stream, EndOf
<1>2. w \in {0, 1, 2, 5} /\ size \in Nat
  BY DEF Field
<1>3. CASE w # 2
  <2>1. /\ to = s.pos + size
        /\ w = 0 => IsContinued(buf, s.pos, to)
        /\ w = 1 => to = s.pos + 8
        /\ w = 5 => to = s.pos + 4
    BY <1>3 DEF IsValue, IsPayload
  <2>2. s.pos <= to
    BY <1>1, <1>2, <2>1
  <2>3. t = Advance(s, to - s.pos)
    <3>1. CASE w = 0
      BY <2>1, <3>1, VarintSkips DEF pb_skip_field
    <3>2. CASE w = 1
      <4>1. ~(s.left < 8) /\ to - s.pos = 8
        BY <1>1, <2>1, <3>2
      <4>2. pb_skip_field(buf, s, w) = pb_read(s, 8)
        BY <3>2 DEF pb_skip_field
      <4> QED BY <4>1, <4>2 DEF pb_read
    <3>3. CASE w = 5
      <4>1. ~(s.left < 4) /\ to - s.pos = 4
        BY <1>1, <2>1, <3>3
      <4>2. pb_skip_field(buf, s, w) = pb_read(s, 4)
        BY <3>3 DEF pb_skip_field
      <4> QED BY <4>1, <4>2 DEF pb_read
    <3> QED BY <1>2, <1>3, <3>1, <3>2, <3>3
  <2> QED BY <2>2, <2>3, AdvanceTo
<1>4. CASE w = 2
  <2> DEFINE v == pb_decode_varint32(buf, s)
  <2>1. PICK body \in s.pos .. to : IsVarint(buf, s.pos, body, size)
                                    /\ IsPayload(buf, body, to, field.payload)
    BY <1>4 DEF IsValue
  <2>2. body \in Nat /\ body <= EndOf(s) /\ s.pos <= body /\ to = body + size
    BY <1>1, <2>1 DEF IsPayload
  <2>3. v.ok /\ v.value = size /\ v.stream = Advance(s, body - s.pos)
    BY <2>1, <2>2, VarintDecodes
  <2>4. Inside(buf, v.stream) /\ v.stream.pos = body /\ EndOf(v.stream) = EndOf(s)
    BY <2>2, <2>3, AdvanceTo
  <2>5. pb_skip_field(buf, s, w) = pb_read(v.stream, size)
    <3>1. pb_skip_field(buf, s, w) = pb_skip_string(buf, s)
      BY <1>4 DEF pb_skip_field
    <3> QED BY <2>3, <3>1 DEF pb_skip_string
  <2> HIDE DEF v
  <2>6. ~(v.stream.left < size) /\ to - body = size /\ body <= to
    <3> DEFINE left == v.stream.left
               end  == EndOf(s)
    <3>1. left \in Nat /\ end = body + left
      BY <2>4 DEF Inside, Stream, EndOf
    <3>2. end \in Nat
      BY <1>1
    <3> HIDE DEF left, end
    <3>3. ~(left < size) /\ to - body = size /\ body <= to
      <4>1. body + size <= end
        BY <2>2 DEF end
      <4> QED BY <1>2, <2>2, <3>1, <3>2, <4>1
    <3> QED BY <3>3 DEF left
  <2>7. t = Advance(v.stream, to - v.stream.pos)
    BY <2>4, <2>5, <2>6 DEF pb_read
  <2>8. Inside(buf, t) /\ t.pos = to /\ EndOf(t) = EndOf(s)
    <3> HIDE DEF t
    <3> QED BY <2>4, <2>6, <2>7, AdvanceTo
  <2> QED BY <2>8
<1> QED BY <1>3, <1>4

\* A substream is what its length says.
LEMMA SubstreamOpens ==
  ASSUME NEW buf \in Seq(Octet), NEW s, Inside(buf, s), NEW body \in Nat, NEW size,
         IsVarint(buf, s.pos, body, size), body <= EndOf(s), body + size <= EndOf(s)
  PROVE  LET r == pb_make_string_substream(buf, s) IN
           r.ok /\ r.substream = [pos |-> body, left |-> size] /\ size \in Nat
<1> DEFINE v == pb_decode_varint32(buf, s)
<1>1. size \in Nat
  BY NumberIsNat
<1>2. s.pos \in Nat /\ s.left \in Nat
  BY DEF Inside, Stream
<1>3. s.pos <= body
  BY <1>2 DEF IsVarint, IsContinued
<1>4. v.ok /\ v.value = size /\ v.stream = Advance(s, body - s.pos)
  BY VarintDecodes
<1>5. Inside(buf, v.stream) /\ v.stream.pos = body /\ v.stream.left = EndOf(s) - body
  BY <1>3, <1>4, AdvanceTo
<1>6. size <= v.stream.left /\ v.stream \in Stream
  BY <1>1, <1>2, <1>5 DEF EndOf, Inside
<1>7. pb_make_string_substream(buf, s) =
        [ ok        |-> TRUE,
          stream    |-> [v.stream EXCEPT !.left = @ - size],
          substream |-> [v.stream EXCEPT !.left = size] ]
  BY <1>4, <1>6 DEF pb_make_string_substream
<1> HIDE DEF v
<1>8. [v.stream EXCEPT !.left = size] = [pos |-> body, left |-> size]
  BY <1>5, <1>6 DEF Stream
<1> QED BY <1>1, <1>7, <1>8

\* The bytes of a sequence, taken out of the buffer.
LEMMA PayloadTaken ==
  ASSUME NEW buf \in Seq(Octet), NEW from \in Nat, NEW to \in Nat, to <= Len(buf),
         NEW payload \in Seq(Octet), IsPayload(buf, from, to, payload)
  PROVE  SubSeq(buf, from + 1, to) = payload
<1> DEFINE taken == SubSeq(buf, from + 1, to)
<1>1. Len(payload) \in Nat /\ to = from + Len(payload) /\ DOMAIN payload = 1 .. Len(payload)
      /\ \A k \in 1 .. Len(payload) : buf[from + k] = payload[k]
  BY DEF IsPayload
<1>2. /\ taken \in Seq(Octet)
      /\ Len(taken) = IF from + 1 <= to THEN to - (from + 1) + 1 ELSE 0
      /\ \A i \in 1 .. to - (from + 1) + 1 : taken[i] = buf[(from + 1) + i - 1]
  BY <1>1, SubSeqProperties
<1>3. Len(taken) = Len(payload)
  <2> HIDE DEF taken
  <2> QED BY <1>1, <1>2
<1>4. \A k \in 1 .. Len(payload) : taken[k] = payload[k]
  <2> HIDE DEF taken
  <2> TAKE k \in 1 .. Len(payload)
  <2>1. k \in 1 .. to - (from + 1) + 1 /\ (from + 1) + k - 1 = from + k
    BY <1>1
  <2> QED BY <1>1, <1>2, <2>1
<1> HIDE DEF taken
<1> QED BY <1>2, <1>3, <1>4, SeqEqual DEF taken

\* What decode_union() decodes of a string is its payload.
LEMMA StringOpens ==
  ASSUME NEW buf \in Seq(Octet), NEW s, Inside(buf, s), NEW to \in Nat, to <= EndOf(s),
         NEW field \in Field, field.wire_type = 2, IsValue(buf, s.pos, to, field)
  PROVE  LET sub == pb_make_string_substream(buf, s) IN
           /\ sub.ok
           /\ SubSeq(buf, sub.substream.pos + 1, EndOf(sub.substream)) = field.payload
<1> DEFINE sub == pb_make_string_substream(buf, s)
           size == Len(field.payload)
<1>1. s.pos \in Nat /\ s.left \in Nat /\ EndOf(s) <= Len(buf) /\ Len(buf) \in Nat
  BY DEF Inside, Stream
<1>2. field.payload \in Seq(Octet) /\ size \in Nat
  BY DEF Field
<1>3. PICK body \in s.pos .. to : IsVarint(buf, s.pos, body, size)
                                  /\ IsPayload(buf, body, to, field.payload)
  BY DEF IsValue
<1>4. body \in Nat /\ body <= EndOf(s) /\ to = body + size
  BY <1>1, <1>3 DEF IsPayload, EndOf
<1>5. sub.ok /\ sub.substream = [pos |-> body, left |-> size]
  BY <1>3, <1>4, SubstreamOpens
<1> HIDE DEF sub
<1>6. sub.substream.pos = body /\ EndOf(sub.substream) = to
  BY <1>4, <1>5 DEF EndOf
<1>7. to <= Len(buf)
  BY <1>1 DEF EndOf
<1>8. SubSeq(buf, body + 1, to) = field.payload
  BY <1>2, <1>3, <1>4, <1>7, PayloadTaken
<1> QED BY <1>5, <1>6, <1>8 DEF sub

\* A zero, and the end of the stream, are no tag.
LEMMA EndIsNoTag ==
  ASSUME NEW buf \in Seq(Octet), NEW s, Inside(buf, s), s.left > 0 => buf[s.pos + 1] = 0
  PROVE  ~pb_decode_tag(buf, s).ok
<1> DEFINE v == pb_decode_varint32(buf, s)
<1>1. s \in Stream /\ s.pos \in Nat /\ s.left \in Nat
  BY DEF Inside, Stream
<1>2. CASE s.left = 0
  <2>1. v.stream \in Stream /\ (v.ok => v.stream.left < s.left)
    BY VarintReads DEF ReadTo
  <2>2. ~v.ok
    BY <1>1, <1>2, <2>1 DEF Stream
  <2> QED BY <2>2 DEF pb_decode_tag
<1>3. CASE s.left > 0
  <2>1. s.pos + 1 <= EndOf(s) /\ s.pos + 1 \in Nat
    BY <1>1, <1>3 DEF EndOf
  <2>2. IsContinued(buf, s.pos, s.pos + 1)
    <3>1. buf[s.pos + 1] = 0
      BY <1>3
    <3>2. s.pos < s.pos + 1 /\ (s.pos + 1) - s.pos = 1
      BY <1>1
    <3> QED BY <3>1, <3>2 DEF IsContinued
  <2>3. IsVarint(buf, s.pos, s.pos + 1, 0)
    <3>1. Digit(buf, s.pos, s.pos + 1, 1) = 0
      BY <1>1, <1>3 DEF Digit
    <3>2. /\ Digit(buf, s.pos, s.pos + 1, 2) = 0 /\ Digit(buf, s.pos, s.pos + 1, 3) = 0
          /\ Digit(buf, s.pos, s.pos + 1, 4) = 0 /\ Digit(buf, s.pos, s.pos + 1, 5) = 0
      BY <1>1 DEF Digit
    <3>3. (s.pos + 1) - s.pos = 1
      BY <1>1
    <3> QED BY <2>2, <3>1, <3>2, <3>3 DEF IsVarint
  <2>4. v.value = 0
    BY <2>1, <2>3, VarintDecodes
  <2> QED BY <2>4 DEF pb_decode_tag
<1> QED BY <1>1, <1>2, <1>3

-----------------------------------------------------------------------------
\* A call that unmarshals a message the way it was encoded.
WellFormed == input.fields # NULL /\ delimited = input.delimited

\* Where the message ends.
MessageEnd ==
  IF delimited THEN input.starts[Len(input.fields) + 1] ELSE Len(input.buffer)

\* The scan is at the k-th field, or behind the last one, and no field before it was
\* a submessage of the union.
IsAt(k) ==
  /\ stream.pos = input.starts[k]
  /\ \A j \in 1 .. k - 1 : j \notin Submessages(input.fields)

Scanning ==
  /\ type = NULL
  /\ EndOf(stream) = MessageEnd
  /\ \E k \in 1 .. Len(input.fields) + 1 : IsAt(k)

\* The type that the scan has to find.
FoundType(fields) ==
  IF Submessages(fields) = {} THEN NULL ELSE UnionFields[fields[Least(Submessages(fields))].tag]

\* The stream is at the submessage: decode_union decodes its payload.
Opens(s) ==
  LET sub == pb_make_string_substream(input.buffer, s) IN
    /\ sub.ok
    /\ SubSeq(input.buffer, sub.substream.pos + 1, EndOf(sub.substream))
         = input.fields[Least(Submessages(input.fields))].payload

\* What the scan of a well-formed message knows, and what it leaves behind.
ScanInv ==
  WellFormed =>
    /\ at = "scan" => Scanning
    /\ at \in {"lookup", "handler"} => type = FoundType(input.fields)
    /\ at = "lookup" /\ Submessages(input.fields) # {} => Opens(stream)
    /\ at = "handler" => Submessages(input.fields) # {} /\ Opens(entry)

\* The least number of a set.
LEMMA LeastIs ==
  ASSUME NEW S, S \subseteq Nat, NEW k \in S, \A j \in S : k <= j
  PROVE  Least(S) = k
<1> DEFINE P(n) == \A m \in S : n <= m
<1>1. P(k)
  OBVIOUS
<1>2. Least(S) = CHOOSE n \in S : P(n)
  BY DEF Least
<1>3. Least(S) \in S /\ P(Least(S))
  <2> HIDE DEF P
  <2> QED BY <1>1, <1>2
<1>4. Least(S) \in Nat /\ k \in Nat /\ Least(S) <= k /\ k <= Least(S)
  BY <1>3
<1> HIDE DEF P
<1> QED BY <1>4

\* The fields of a message follow each other, up to its end.
LEMMA StartsGrow ==
  ASSUME NEW buf \in Seq(Octet), NEW d, NEW fields, NEW starts,
         IsMessage(buf, d, fields, starts)
  PROVE  \A k \in 1 .. Len(fields) + 1 : starts[k] <= starts[Len(fields) + 1]
<1> DEFINE n == Len(fields)
           S == { i \in Nat : i <= n => starts[n + 1 - i] <= starts[n + 1] }
<1>1. /\ n \in Nat
      /\ starts \in [1 .. n + 1 -> 0 .. Len(buf)]
      /\ \A k \in 1 .. n : IsField(buf, starts[k], starts[k + 1], fields[k])
  BY DEF IsMessage
<1> HIDE DEF n
<1>2. \A k \in 1 .. n + 1 : starts[k] \in Nat
  BY <1>1
<1>3. 0 \in S
  <2>1. n + 1 - 0 = n + 1 /\ n + 1 \in 1 .. n + 1
    BY <1>1
  <2>2. starts[n + 1] \in Nat
    BY <1>2, <2>1
  <2> QED BY <2>1, <2>2
<1>4. ASSUME NEW i \in Nat, i \in S PROVE i + 1 \in S
  <2>1. SUFFICES ASSUME i + 1 <= n PROVE starts[n + 1 - (i + 1)] <= starts[n + 1]
    OBVIOUS
  <2>2. PICK k \in 1 .. n : k = n + 1 - (i + 1) /\ k + 1 = n + 1 - i
    BY <1>1, <2>1
  <2>3. PICK body \in starts[k] .. starts[k + 1] : TRUE
    BY <1>1, <2>2 DEF IsField
  <2>4. starts[k] \in Nat /\ starts[k + 1] \in Nat /\ starts[n + 1] \in Nat
    BY <1>1, <1>2, <2>2
  <2>5. starts[k + 1] <= starts[n + 1]
    BY <1>1, <1>4, <2>1, <2>2
  <2>6. starts[k] <= starts[n + 1]
    BY <2>3, <2>4, <2>5
  <2> QED BY <2>2, <2>6
<1>5. \A i \in Nat : i \in S
  <2> HIDE DEF S
  <2> QED BY <1>3, <1>4, SetInduction
<1>6. ASSUME NEW k \in 1 .. n + 1 PROVE starts[k] <= starts[n + 1]
  <2>1. n + 1 - k \in Nat /\ n + 1 - k <= n /\ n + 1 - (n + 1 - k) = k
    BY <1>1
  <2>2. n + 1 - k \in S
    BY <1>5, <2>1
  <2> QED BY <2>1, <2>2
<1> QED BY <1>6 DEF n

\* What the assumption on the inputs says of the message under way.
LEMMA TheMessage ==
  ASSUME IInv, WellFormed
  PROVE  LET n == Len(input.fields) IN
           /\ n \in Nat /\ DOMAIN input.fields = 1 .. n
           /\ \A k \in 1 .. n : input.fields[k] \in Field
           /\ input.buffer \in Seq(Octet) /\ Len(input.buffer) \in Nat
           /\ \A k \in 1 .. n + 1 : /\ input.starts[k] \in Nat
                                    /\ input.starts[k] <= MessageEnd
           /\ MessageEnd \in Nat /\ MessageEnd <= Len(input.buffer)
           /\ \A k \in 1 .. n : IsField(input.buffer, input.starts[k], input.starts[k + 1],
                                        input.fields[k])
           /\ IF delimited
              THEN IsVarint(input.buffer, 0, input.starts[1],
                            input.starts[n + 1] - input.starts[1])
              ELSE /\ input.starts[1] = 0
                   /\ input.starts[n + 1] < Len(input.buffer) =>
                        input.buffer[input.starts[n + 1] + 1] = 0
<1> DEFINE n == Len(input.fields)
<1>1. /\ input.buffer \in Seq(Octet) /\ delimited = input.delimited
      /\ IsMessage(input.buffer, input.delimited, input.fields, input.starts)
  BY InputsAssumption DEF IInv, TypeOK, WellFormed
<1>2. /\ input.fields \in Seq(Field)
      /\ input.starts \in [1 .. n + 1 -> 0 .. Len(input.buffer)]
      /\ \A k \in 1 .. n : IsField(input.buffer, input.starts[k], input.starts[k + 1],
                                   input.fields[k])
      /\ IF delimited
         THEN IsVarint(input.buffer, 0, input.starts[1],
                       input.starts[n + 1] - input.starts[1])
         ELSE /\ input.starts[1] = 0
              /\ input.starts[n + 1] < Len(input.buffer) =>
                   input.buffer[input.starts[n + 1] + 1] = 0
  BY <1>1 DEF IsMessage
<1>3. \A k \in 1 .. n + 1 : input.starts[k] <= input.starts[n + 1]
  BY <1>1, StartsGrow
<1>4. n \in Nat /\ DOMAIN input.fields = 1 .. n /\ \A k \in 1 .. n : input.fields[k] \in Field
  BY <1>2
<1>5. Len(input.buffer) \in Nat
  BY <1>1
<1> HIDE DEF n
<1>6. ASSUME NEW k \in 1 .. n + 1
      PROVE  input.starts[k] \in Nat /\ input.starts[k] <= Len(input.buffer)
  <2>1. input.starts[k] \in 0 .. Len(input.buffer)
    BY <1>2
  <2> QED BY <1>5, <2>1
<1>7. n + 1 \in 1 .. n + 1
  BY <1>4
<1>8. MessageEnd = IF delimited THEN input.starts[n + 1] ELSE Len(input.buffer)
  BY DEF MessageEnd, n
<1>9. MessageEnd \in Nat /\ MessageEnd <= Len(input.buffer)
  BY <1>5, <1>6, <1>7, <1>8
<1>10. \A k \in 1 .. n + 1 : input.starts[k] <= MessageEnd
  BY <1>3, <1>6, <1>8
<1> QED BY <1>1, <1>2, <1>4, <1>5, <1>6, <1>9, <1>10 DEF n

\* What the next round of the scan finds, when it is at the k-th field.
LEMMA ScanFinds ==
  ASSUME IInv, WellFormed, at = "scan", EndOf(stream) = MessageEnd,
         NEW k \in 1 .. Len(input.fields) + 1, IsAt(k)
  PROVE  LET t == pb_decode_tag(input.buffer, stream) IN
           /\ k = Len(input.fields) + 1 => ~t.ok
           /\ k <= Len(input.fields) =>
                /\ t.ok
                /\ t.tag = input.fields[k].tag /\ t.wire_type = input.fields[k].wire_type
                /\ Inside(input.buffer, t.stream) /\ EndOf(t.stream) = MessageEnd
                /\ IsValue(input.buffer, t.stream.pos, input.starts[k + 1], input.fields[k])
<1> DEFINE n == Len(input.fields)
           t == pb_decode_tag(input.buffer, stream)
<1>1. input.buffer \in Seq(Octet) /\ Inside(input.buffer, stream)
  BY StreamInside
<1>2. stream.pos = input.starts[k] /\ stream.pos \in Nat /\ stream.left \in Nat
      /\ EndOf(stream) = stream.pos + stream.left
  BY <1>1 DEF IsAt, Inside, Stream, EndOf
<1>3. CASE k = n + 1
  <2>1. stream.left > 0 => input.buffer[stream.pos + 1] = 0
    <3>1. CASE delimited
      <4>1. MessageEnd = input.starts[k]
        BY <1>3, <3>1 DEF MessageEnd
      <4>2. stream.pos = stream.pos + stream.left
        BY <1>2, <4>1, Zenon
      <4> QED BY <1>2, <4>2
    <3>2. CASE ~delimited
      <4>1. /\ MessageEnd = Len(input.buffer)
            /\ input.starts[k] < Len(input.buffer) => input.buffer[input.starts[k] + 1] = 0
            /\ Len(input.buffer) \in Nat
        BY <1>3, <3>2, TheMessage DEF MessageEnd
      <4>2. stream.pos + stream.left = Len(input.buffer)
        BY <1>2, <4>1, Zenon
      <4>3. stream.left > 0 => stream.pos < Len(input.buffer)
        BY <1>2, <4>1, <4>2
      <4>4. stream.left > 0 => input.starts[k] < Len(input.buffer)
        BY <1>2, <4>3, Zenon
      <4>5. stream.left > 0 => input.buffer[input.starts[k] + 1] = 0
        BY <4>1, <4>4, Zenon
      <4> QED BY <1>2, <4>5, Zenon
    <3> QED BY <3>1, <3>2
  <2>2. ~t.ok
    BY <1>1, <2>1, EndIsNoTag
  <2>3. ~(k <= n)
    BY <1>3, TheMessage
  <2> QED BY <2>2, <2>3
<1>4. CASE k <= n
  <2>1. k \in 1 .. n /\ k + 1 \in 1 .. n + 1 /\ k # n + 1
    BY <1>4, TheMessage
  <2>2. /\ IsField(input.buffer, stream.pos, input.starts[k + 1], input.fields[k])
        /\ input.starts[k + 1] \in Nat /\ input.starts[k + 1] <= EndOf(stream)
        /\ input.fields[k] \in Field
    BY <1>2, <2>1, TheMessage
  <2>3. /\ t.ok /\ t.tag = input.fields[k].tag /\ t.wire_type = input.fields[k].wire_type
        /\ Inside(input.buffer, t.stream) /\ EndOf(t.stream) = EndOf(stream)
        /\ IsValue(input.buffer, t.stream.pos, input.starts[k + 1], input.fields[k])
    BY <1>1, <2>2, FieldDecodes
  <2> QED BY <2>1, <2>3
<1>5. k = n + 1 \/ k <= n
  BY TheMessage
<1> QED BY <1>3, <1>4, <1>5

\* At the first submessage the scan knows what it has to.
LEMMA FirstSubmessage ==
  ASSUME IInv, WellFormed, NEW k \in 1 .. Len(input.fields), k \in Submessages(input.fields),
         \A j \in 1 .. k - 1 : j \notin Submessages(input.fields)
  PROVE  /\ Least(Submessages(input.fields)) = k
         /\ FoundType(input.fields) = UnionFields[input.fields[k].tag]
<1> DEFINE S == Submessages(input.fields)
<1>1. S \subseteq 1 .. Len(input.fields) /\ Len(input.fields) \in Nat
  BY TheMessage DEF Submessages
<1>2. ASSUME NEW j \in S PROVE k <= j
  BY <1>1, <1>2
<1>3. Least(S) = k
  <2>1. S \subseteq Nat
    BY <1>1
  <2> HIDE DEF S
  <2> QED BY <1>2, <2>1, LeastIs DEF S
<1> QED BY <1>3 DEF FoundType

\* The scan of a well-formed message goes from field to field, and stops at the first
\* submessage or at the end.
LEMMA ScanKeeps ==
  ASSUME IInv, ScanInv, Scan
  PROVE  ScanInv'
<1> DEFINE n == Len(input.fields)
           t == pb_decode_tag(input.buffer, stream)
           S == Submessages(input.fields)
           skipped == pb_skip_field(input.buffer, t.stream, t.wire_type).stream
<1>1. /\ at = "scan" /\ at' \in {"scan", "lookup"}
      /\ UNCHANGED <<input, delimited>>
      /\ \/ ~t.ok /\ at' = "lookup" /\ UNCHANGED type
         \/ /\ t.ok /\ IsSubmessage(t) /\ stream' = t.stream
            /\ type' = UnionFields[t.tag] /\ at' = "lookup"
         \/ /\ t.ok /\ ~IsSubmessage(t) /\ stream' = skipped
            /\ at' = "scan" /\ UNCHANGED type
  BY DEF Scan
<1>2. SUFFICES ASSUME WellFormed PROVE ScanInv'
  BY <1>1 DEF ScanInv, WellFormed
<1>3. type = NULL /\ EndOf(stream) = MessageEnd /\ \E k \in 1 .. n + 1 : IsAt(k)
  BY <1>1, <1>2 DEF ScanInv, Scanning
<1>4. PICK k \in 1 .. n + 1 : IsAt(k)
  BY <1>3
<1>5. /\ stream.pos = input.starts[k]
      /\ \A j \in 1 .. k - 1 : j \notin S
  BY <1>4 DEF IsAt
<1>6. /\ n \in Nat /\ DOMAIN input.fields = 1 .. n
      /\ \A j \in 1 .. n : input.fields[j] \in Field
      /\ input.buffer \in Seq(Octet)
      /\ \A j \in 1 .. n + 1 : input.starts[j] \in Nat /\ input.starts[j] <= MessageEnd
  BY <1>2, TheMessage
<1>7. /\ k = n + 1 => ~t.ok
      /\ k <= n =>
           /\ t.ok
           /\ t.tag = input.fields[k].tag /\ t.wire_type = input.fields[k].wire_type
           /\ Inside(input.buffer, t.stream) /\ EndOf(t.stream) = MessageEnd
           /\ IsValue(input.buffer, t.stream.pos, input.starts[k + 1], input.fields[k])
  BY <1>1, <1>2, <1>3, <1>4, ScanFinds
<1>8. k <= n => (IsSubmessage(t) <=> k \in S)
  BY <1>6, <1>7 DEF IsSubmessage, Submessages
<1>9. WellFormed' /\ MessageEnd' = MessageEnd /\ Len(input.fields)' = n
  BY <1>1, <1>2 DEF WellFormed, MessageEnd
<1>10. CASE k = n + 1
  <2>1. S = {}
    BY <1>5, <1>6, <1>10 DEF Submessages
  <2>2. at' = "lookup" /\ type' = NULL
    BY <1>1, <1>3, <1>7, <1>10
  <2> QED BY <1>1, <2>1, <2>2 DEF ScanInv, FoundType
<1>11. CASE k <= n /\ k \in S
  <2>1. k \in 1 .. n /\ k + 1 \in 1 .. n + 1
    BY <1>6, <1>11
  <2>2. /\ at' = "lookup" /\ type' = UnionFields[input.fields[k].tag]
        /\ stream' = t.stream
    BY <1>1, <1>7, <1>8, <1>11
  <2>3. Least(S) = k /\ FoundType(input.fields) = UnionFields[input.fields[k].tag]
    BY <1>2, <1>5, <1>11, <2>1, FirstSubmessage
  <2>4. input.fields[k].wire_type = 2
    BY <1>11 DEF Submessages
  <2>5. LET sub == pb_make_string_substream(input.buffer, t.stream) IN
          /\ sub.ok
          /\ SubSeq(input.buffer, sub.substream.pos + 1, EndOf(sub.substream))
               = input.fields[k].payload
    <3> HIDE DEF t
    <3> QED BY <1>6, <1>7, <1>11, <2>1, <2>4, StringOpens
  <2>6. Opens(stream)'
    <3> HIDE DEF t
    <3> QED BY <1>1, <2>2, <2>3, <2>5 DEF Opens
  <2>7. type' = FoundType(input.fields)'
    BY <1>1, <2>2, <2>3
  <2> QED BY <2>2, <2>6, <2>7 DEF ScanInv
<1>12. CASE k <= n /\ k \notin S
  <2>1. k \in 1 .. n /\ k + 1 \in 1 .. n + 1
    BY <1>6, <1>12
  <2>2. at' = "scan" /\ stream' = skipped /\ type' = NULL
    BY <1>1, <1>3, <1>7, <1>8, <1>12
  <2>3. /\ Inside(input.buffer, skipped) /\ skipped.pos = input.starts[k + 1]
        /\ EndOf(skipped) = MessageEnd
    <3> DEFINE u == t.stream
    <3>1. /\ Inside(input.buffer, u) /\ EndOf(u) = MessageEnd
          /\ IsValue(input.buffer, u.pos, input.starts[k + 1], input.fields[k])
          /\ t.wire_type = input.fields[k].wire_type
      BY <1>7, <1>12
    <3>2. input.starts[k + 1] \in Nat /\ input.starts[k + 1] <= MessageEnd
          /\ input.fields[k] \in Field
      BY <1>6, <2>1
    <3> HIDE DEF t, u
    <3>3. LET v == pb_skip_field(input.buffer, u, input.fields[k].wire_type).stream IN
            Inside(input.buffer, v) /\ v.pos = input.starts[k + 1] /\ EndOf(v) = EndOf(u)
      BY <1>6, <3>1, <3>2, ValueSkips
    <3> QED BY <3>1, <3>3 DEF u
  <2> HIDE DEF skipped, t
  <2>4. ASSUME NEW j \in 1 .. (k + 1) - 1 PROVE j \notin S
    BY <1>5, <1>12, <2>1, <2>4
  <2>5. IsAt(k + 1)'
    BY <1>1, <2>2, <2>3, <2>4 DEF IsAt
  <2>6. Scanning'
    BY <1>9, <2>1, <2>2, <2>3, <2>5 DEF Scanning
  <2> QED BY <2>2, <2>6 DEF ScanInv
<1> QED BY <1>6, <1>10, <1>11, <1>12

\* The scan of a well-formed message begins at its first field.
LEMMA CallKeeps ==
  ASSUME IInv, NEW d \in BOOLEAN, NEW explicit \in BOOLEAN, Call(d, explicit)
  PROVE  ScanInv'
<1> DEFINE whole == FromBuffer(input.buffer)
           open  == pb_make_string_substream(input.buffer, whole)
<1>1. /\ input' = input
      /\ delimited' = d
      /\ type' = NULL
      /\ stream' = IF d THEN open.substream ELSE whole
      /\ at' \in {"idle", "explicit", "scan"}
  BY DEF Call, Body
<1>2. SUFFICES ASSUME WellFormed' PROVE Scanning'
  BY <1>1 DEF ScanInv
<1>3. input.fields # NULL /\ d = input.delimited /\ input \in Inputs
  BY <1>1, <1>2 DEF WellFormed, IInv, TypeOK
<1>4. /\ input.buffer \in Seq(Octet)
      /\ IsMessage(input.buffer, d, input.fields, input.starts)
  BY <1>3, InputsAssumption
<1> DEFINE n == Len(input.fields)
           end == input.starts[n + 1]
<1>5. /\ n \in Nat
      /\ input.starts \in [1 .. n + 1 -> 0 .. Len(input.buffer)]
      /\ IF d THEN IsVarint(input.buffer, 0, input.starts[1], end - input.starts[1])
         ELSE input.starts[1] = 0
  BY <1>4 DEF IsMessage
<1>6. /\ Len(input.buffer) \in Nat
      /\ whole.pos = 0 /\ EndOf(whole) = Len(input.buffer) /\ Inside(input.buffer, whole)
  BY <1>4 DEF FromBuffer, EndOf, Inside, Stream
<1> HIDE DEF n
<1>7. 1 \in 1 .. n + 1 /\ n + 1 \in 1 .. n + 1
  BY <1>5
<1>8. input.starts[1] \in 0 .. Len(input.buffer) /\ end \in 0 .. Len(input.buffer)
  BY <1>5, <1>7
<1> HIDE DEF whole, open, end
<1>9. /\ (IF d THEN open.substream ELSE whole).pos = input.starts[1]
      /\ EndOf(IF d THEN open.substream ELSE whole) = IF d THEN end ELSE Len(input.buffer)
  <2>1. CASE d
    <3> DEFINE size == end - input.starts[1]
    <3>1. IsVarint(input.buffer, whole.pos, input.starts[1], size)
      BY <1>5, <1>6, <2>1
    <3>2. /\ input.starts[1] \in Nat /\ input.starts[1] <= EndOf(whole)
          /\ input.starts[1] + size = end /\ end <= EndOf(whole)
      BY <1>6, <1>8
    <3> HIDE DEF size
    <3>3. open.substream = [pos |-> input.starts[1], left |-> size]
      BY <1>4, <1>6, <3>1, <3>2, SubstreamOpens DEF open
    <3> QED BY <2>1, <3>2, <3>3 DEF EndOf
  <2>2. CASE ~d
    BY <1>5, <1>6, <2>2
  <2> QED BY <2>1, <2>2
<1>10. IsAt(1)'
  <2>1. stream'.pos = input.starts[1]
    BY <1>1, <1>9
  <2>2. \A j \in 1 .. 1 - 1 : FALSE
    OBVIOUS
  <2> QED BY <1>1, <2>1, <2>2 DEF IsAt
<1>11. EndOf(stream') = MessageEnd'
  BY <1>1, <1>9 DEF MessageEnd, end, n
<1> QED BY <1>1, <1>7, <1>10, <1>11 DEF Scanning, n

\* The handler gets the stream as the scan left it, and only if it is its submessage.
LEMMA LookupKeeps ==
  ASSUME IInv, ScanInv, Lookup
  PROVE  ScanInv'
<1>1. /\ at = "lookup" /\ UNCHANGED <<input, delimited, stream, type>>
      /\ \/ type \in Registered /\ at' = "handler" /\ entry' = stream
         \/ at' = "close"
  BY DEF Lookup
<1>2. SUFFICES ASSUME WellFormed PROVE ScanInv'
  BY <1>1 DEF ScanInv, WellFormed
<1>3. /\ type = FoundType(input.fields)
      /\ Submessages(input.fields) # {} => Opens(stream)
  BY <1>1, <1>2 DEF ScanInv
<1>4. CASE at' = "close"
  BY <1>4 DEF ScanInv
<1>5. CASE type \in Registered /\ at' = "handler" /\ entry' = stream
  <2>1. type # NULL
    BY <1>5, TypesAssumption
  <2>2. Submessages(input.fields) # {}
    BY <1>3, <2>1 DEF FoundType
  <2>3. Opens(stream)
    BY <1>3, <2>2
  <2>4. Opens(entry)'
    BY <1>1, <1>5, <2>3 DEF Opens
  <2>5. type' = FoundType(input.fields)'
    BY <1>1, <1>3
  <2> QED BY <1>1, <1>5, <2>2, <2>4, <2>5 DEF ScanInv
<1> QED BY <1>1, <1>4, <1>5

\* Every other step leaves what the scan found alone.
LEMMA OthersKeep ==
  ASSUME ScanInv, UNCHANGED <<input, delimited, type, entry>>,
         at' \in {"idle", "close"} \/ (at' = at /\ at \in {"handler", "explicit"})
           \/ UNCHANGED <<at, stream>>
  PROVE  ScanInv'
<1>1. SUFFICES ASSUME WellFormed PROVE ScanInv'
  BY DEF ScanInv, WellFormed
<1>2. CASE at' \in {"idle", "close"}
  BY <1>2 DEF ScanInv
<1>3. CASE at' = at /\ at \in {"handler", "explicit"}
  BY <1>1, <1>3 DEF ScanInv, Opens
<1>4. CASE UNCHANGED <<at, stream>>
  BY <1>1, <1>4 DEF ScanInv, Opens, Scanning, IsAt, MessageEnd
<1> QED BY <1>2, <1>3, <1>4

\* Every step keeps what the scan knows.
LEMMA ScanInvStep == IInv /\ ScanInv /\ [Next]_vars => ScanInv'
<1> SUFFICES ASSUME IInv, ScanInv, [Next]_vars PROVE ScanInv'
  OBVIOUS
<1>1. CASE Callers
  BY <1>1, CallKeeps DEF Callers
<1>2. CASE System
  <2>1. CASE Close
    BY <2>1, OthersKeep DEF Close
  <2> QED BY <1>2, <2>1, ScanKeeps, LookupKeeps DEF System
<1>3. CASE Handlers
  <2>1. /\ UNCHANGED <<input, delimited, type, entry>>
        /\ at' = at /\ at \in {"handler", "explicit"}
    BY <1>3 DEF Handlers, HandlerReads, decode_union, InHandler
  <2> QED BY <2>1, OthersKeep
<1>4. CASE HandlerEnds
  <2>1. UNCHANGED <<input, delimited, type, entry>> /\ at' = "close"
    BY <1>4 DEF HandlerEnds, HandlerReturns
  <2> QED BY <2>1, OthersKeep
<1>5. CASE UNCHANGED vars
  BY <1>5, OthersKeep DEF vars
<1> QED BY <1>1, <1>2, <1>3, <1>4, <1>5 DEF Next

\* It holds in every reachable state.
THEOREM ScanInvariant == Spec => []ScanInv
<1>1. Init => ScanInv
  BY DEF Init, ScanInv
<1> QED BY <1>1, InductiveInvariant, ScanInvStep, PTL DEF Spec

\* However many fields of other kinds come before it, and however long they are, the
\* first submessage of the union decides the type of a well-formed message.
THEOREM RightTypeAlways == Spec => []RightType
<1>1. ScanInv => RightType
  BY DEF ScanInv, WellFormed, FoundType, RightType
<1> QED BY <1>1, ScanInvariant, PTL

\* What a handler decodes of a well-formed message with decode_union is the payload of
\* that submessage, byte for byte.
THEOREM PayloadAlwaysExact == Spec => []PayloadExact
<1>1. ScanInv => PayloadExact
  BY DEF ScanInv, WellFormed, Opens, PayloadExact
<1> QED BY <1>1, ScanInvariant, PTL
=============================================================================
