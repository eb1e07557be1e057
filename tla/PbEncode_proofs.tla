--------------------------- MODULE PbEncode_proofs --------------------------
(***************************************************************************)
(* Proofs about PbEncode, and about PbOutput, which it implements:         *)
(* whatever program writes through the streams of pb_encode.c, nothing is  *)
(* written behind the buffer (NothingBehindBuffer), and pb_encode() with   *)
(* the callbacks it calls is such a program (EncodeImplementsOutput), for  *)
(* all structs, buffers and callbacks.                                     *)
(*                                                                         *)
(* WithinBuffer is not inductive.  Streams adds that what is left of a     *)
(* stream, not only what was written to it, ends before the buffer does.   *)
(* That the calls of pb_encode are the steps of PbOutput needs Calls: they *)
(* are as many as the streams, and while one is in progress the ones       *)
(* around it still have at the head of their list the submessage that they *)
(* called for.  A call whose stream only counts must not have a body to    *)
(* write, as pb_encode_submessage() opens no second pass inside a first    *)
(* one.  The lists themselves are what a field makes of its data, and most *)
(* of the module is about those: whatever the struct has in memory, they   *)
(* are sequences of chunks, submessages and errors.                        *)
(***************************************************************************)
EXTENDS PbEncode, PbStream_proofs

-----------------------------------------------------------------------------
\* Streams.

OStream == [ of : {"sizing", "caller", "submessage"}, state : Nat, max_size : Nat,
            bytes_written : Nat ]

\* How far a stream may still write is not behind the end of the buffer.
EndsInBuffer(s) ==
  ~Output!Sizing(s) => /\ s.bytes_written <= s.max_size
                /\ s.state + (s.max_size - s.bytes_written) <= bufsize

Streams ==
  /\ bufsize \in Nat
  /\ outs \in Seq(OStream)
  /\ DOMAIN buffer \subseteq 1 .. bufsize
  /\ \A k \in DOMAIN outs : EndsInBuffer(outs[k])
  /\ \A k \in DOMAIN outs : k > 1 => Output!Nested(outs[k - 1], outs[k])
  /\ outs # <<>> => outs[1].of # "submessage"

-----------------------------------------------------------------------------
\* A stream that count bytes were written to differs in its two counters only.
LEMMA WroteStream ==
  ASSUME NEW s \in OStream, NEW count \in Nat
  PROVE  LET t == Output!Wrote(s, count) IN
           /\ t \in OStream /\ t.of = s.of /\ t.max_size = s.max_size
           /\ t.bytes_written = s.bytes_written + count
           /\ t.state = IF Output!Sizing(s) THEN s.state ELSE s.state + count
<1> DEFINE state == IF Output!Sizing(s) THEN s.state ELSE s.state + count
           counted == [s EXCEPT !.bytes_written = s.bytes_written + count]
<1>1. state \in Nat
  BY DEF OStream
<1>2. /\ counted \in OStream /\ counted.state = s.state /\ counted.of = s.of
      /\ counted.max_size = s.max_size
      /\ counted.bytes_written = s.bytes_written + count
  BY DEF OStream
<1>3. Output!Wrote(s, count) = [counted EXCEPT !.state = state]
  BY DEF Output!Wrote
<1> HIDE DEF state, counted
<1>4. /\ Output!Wrote(s, count) \in OStream
      /\ Output!Wrote(s, count).state = state /\ Output!Wrote(s, count).of = counted.of
      /\ Output!Wrote(s, count).max_size = counted.max_size
      /\ Output!Wrote(s, count).bytes_written = counted.bytes_written
  BY <1>1, <1>2, <1>3 DEF OStream
<1> QED BY <1>2, <1>4 DEF state

\* A write that has room leaves the stream's end where it was, and its bytes are
\* before that end.
LEMMA WroteInBuffer ==
  ASSUME bufsize \in Nat, NEW s \in OStream, NEW count \in Nat, EndsInBuffer(s),
         Output!Sizing(s) \/ Output!HasRoom(s, count)
  PROVE  /\ Output!Wrote(s, count) \in OStream
         /\ EndsInBuffer(Output!Wrote(s, count))
         /\ Output!Places(s, count) \subseteq 1 .. bufsize
<1> DEFINE t == Output!Wrote(s, count)
<1>1. s.state \in Nat /\ s.max_size \in Nat /\ s.bytes_written \in Nat
  BY DEF OStream
<1>2. /\ t \in OStream /\ t.of = s.of /\ t.max_size = s.max_size
      /\ t.bytes_written = s.bytes_written + count
      /\ t.state = IF Output!Sizing(s) THEN s.state ELSE s.state + count
  BY WroteStream
<1>3. CASE Output!Sizing(s)
  BY <1>2, <1>3 DEF EndsInBuffer, Output!Places, Output!Sizing
<1>4. CASE ~Output!Sizing(s)
  <2>1. t.state = s.state + count /\ s.bytes_written + count <= s.max_size
    BY <1>2, <1>4 DEF Output!HasRoom
  <2>2. s.state + (s.max_size - s.bytes_written) <= bufsize
    BY <1>4 DEF EndsInBuffer
  <2>3. EndsInBuffer(t)
    BY <1>1, <1>2, <2>1, <2>2 DEF EndsInBuffer
  <2>4. s.state + count <= bufsize
    BY <1>1, <2>1, <2>2
  <2> QED BY <1>1, <1>2, <1>4, <2>3, <2>4 DEF Output!Places
<1> QED BY <1>3, <1>4

\* ... and the stream around it still has all of it.
LEMMA WroteNested ==
  ASSUME NEW outer \in OStream, NEW s \in OStream, NEW count \in Nat, Output!Nested(outer, s)
  PROVE  Output!Nested(outer, Output!Wrote(s, count))
<1> DEFINE t == Output!Wrote(s, count)
<1>1. /\ t.of = s.of /\ t.max_size = s.max_size
      /\ t.bytes_written = s.bytes_written + count
      /\ t.state = IF Output!Sizing(s) THEN s.state ELSE s.state + count
  BY WroteStream
<1>2. /\ s.state \in Nat /\ s.bytes_written \in Nat
      /\ outer.state \in Nat
  BY DEF OStream
<1> QED BY <1>1, <1>2 DEF Output!Nested, Output!Sizing

\* A stream for a submessage ends before the one around it.
LEMMA SubStreamInBuffer ==
  ASSUME bufsize \in Nat, NEW s \in OStream, NEW size \in Nat, EndsInBuffer(s), ~Output!Sizing(s),
         Output!HasRoom(s, size)
  PROVE  /\ Output!SubStream(s, size) \in OStream
         /\ EndsInBuffer(Output!SubStream(s, size))
         /\ Output!Nested(s, Output!SubStream(s, size))
BY DEF Output!SubStream, EndsInBuffer, Output!Nested, Output!Sizing, Output!HasRoom, OStream

\* The outer stream goes on where the submessage has come to.
LEMMA JoinedInBuffer ==
  ASSUME bufsize \in Nat, NEW s \in OStream, NEW sub \in OStream, EndsInBuffer(s),
         EndsInBuffer(sub), ~Output!Sizing(sub), Output!Nested(s, sub)
  PROVE  /\ Output!Joined(s, sub) \in OStream
         /\ EndsInBuffer(Output!Joined(s, sub))
         /\ Output!Joined(s, sub) = Output!Wrote(s, sub.bytes_written)
<1>1. /\ sub.state = s.state + sub.bytes_written
      /\ ~Output!Sizing(s)
      /\ s.bytes_written + sub.max_size <= s.max_size
      /\ sub.bytes_written <= sub.max_size
  BY DEF Output!Nested, EndsInBuffer
<1>2. Output!HasRoom(s, sub.bytes_written)
  BY <1>1 DEF Output!HasRoom, OStream
<1>3. Output!Joined(s, sub) = Output!Wrote(s, sub.bytes_written)
  BY <1>1 DEF Output!Joined, Output!Wrote, OStream
<1>4. sub.bytes_written \in Nat
  BY DEF OStream
<1> QED BY <1>2, <1>3, <1>4, WroteInBuffer

\* What Streams says of one stream.
LEMMA StreamsAt ==
  ASSUME Streams, NEW k \in 1 .. Len(outs)
  PROVE  /\ outs[k] \in OStream /\ EndsInBuffer(outs[k])
         /\ k > 1 => outs[k - 1] \in OStream /\ Output!Nested(outs[k - 1], outs[k])
<1>1. Len(outs) \in Nat
  BY DEF Streams
<1>2. DOMAIN outs = 1 .. Len(outs)
  BY DEF Streams
<1>3. \A j \in DOMAIN outs : outs[j] \in OStream
  BY DEF Streams
<1>4. EndsInBuffer(outs[k]) /\ (k > 1 => Output!Nested(outs[k - 1], outs[k]))
  BY <1>2 DEF Streams
<1>5. k > 1 => k - 1 \in 1 .. Len(outs)
  BY <1>1
<1> QED BY <1>2, <1>3, <1>4, <1>5

-----------------------------------------------------------------------------
\* Before the call no stream is open.
LEMMA Initially == Output!Init => Streams
BY OutputAssumption DEF Output!Init, Streams

\* The stream of the caller is as large as the buffer.
LEMMA OpenKeeps == Streams /\ Output!Open => Streams'
<1> SUFFICES ASSUME Streams, Output!Open PROVE Streams'
  OBVIOUS
<1>1. PICK s \in {Output!PB_OSTREAM_SIZING, Output!pb_ostream_from_buffer(bufsize)} : outs' = <<s>>
  BY DEF Output!Open
<1>2. s \in OStream /\ s.of # "submessage"
  BY <1>1 DEF Streams, OStream, Output!PB_OSTREAM_SIZING, Output!pb_ostream_from_buffer
<1>3. EndsInBuffer(s)'
  BY <1>1 DEF Streams, Output!Open, EndsInBuffer, Output!Sizing, Output!PB_OSTREAM_SIZING, Output!pb_ostream_from_buffer
<1> QED BY <1>1, <1>2, <1>3 DEF Streams, Output!Open, EndsInBuffer

\* pb_write() writes only what fits in its stream, which fits in all around it.
LEMMA WriteKeeps == ASSUME NEW count \in Nat PROVE Streams /\ Output!Write(count) => Streams'
<1> SUFFICES ASSUME Streams, Output!Write(count) PROVE Streams'
  OBVIOUS
<1> DEFINE n == Len(outs)
<1>0. n \in Nat
  BY DEF Streams
<1>1. n > 0 /\ DOMAIN outs = 1 .. n /\ outs[n] \in OStream
  BY <1>0 DEF Streams, Output!Write
<1>2. /\ Output!Wrote(Output!Out, count) \in OStream
      /\ EndsInBuffer(Output!Wrote(Output!Out, count))
      /\ Output!Places(Output!Out, count) \subseteq 1 .. bufsize
  BY <1>1, WroteInBuffer DEF Streams, Output!Write, Output!Out
<1>3. /\ outs' \in Seq(OStream) /\ Len(outs') = n /\ DOMAIN outs' = 1 .. n
      /\ outs'[n] = Output!Wrote(Output!Out, count)
      /\ \A k \in 1 .. n - 1 : outs'[k] = outs[k]
  BY <1>1, <1>2 DEF Streams, Output!Write
<1>4. bufsize' = bufsize /\ DOMAIN buffer' \subseteq 1 .. bufsize
  BY <1>2 DEF Streams, Output!Write
<1>5. ASSUME NEW k \in 1 .. n PROVE EndsInBuffer(outs[k])'
  <2>1. EndsInBuffer(outs'[k])
    <3>1. CASE k = n BY <3>1, <1>2, <1>3
    <3>2. CASE k < n BY <3>2, <1>1, <1>3, StreamsAt
    <3> QED BY <3>1, <3>2, <1>0
  <2> QED BY <2>1, <1>4 DEF EndsInBuffer
<1>6. ASSUME NEW k \in 1 .. n, k > 1 PROVE Output!Nested(outs[k - 1], outs[k])'
  <2>1. Output!Nested(outs[k - 1], outs[k]) /\ outs[k - 1] \in OStream
    BY <1>1, <1>6, StreamsAt
  <2>2. CASE k = n
    BY <2>1, <2>2, <1>1, <1>3, <1>6, WroteNested DEF Output!Nested, Output!Out
  <2>3. CASE k < n
    <3>1. outs'[k - 1] = outs[k - 1] /\ outs'[k] = outs[k]
      BY <2>3, <1>1, <1>3, <1>6
    <3> QED BY <2>1, <3>1 DEF Output!Nested
  <2> QED BY <2>2, <2>3, <1>0
<1>7. outs'[1].of # "submessage"
  <2>1. Output!Wrote(Output!Out, count).of = Output!Out.of
    BY <1>1 DEF Output!Wrote, Output!Out, OStream
  <2> QED BY <2>1, <1>1, <1>3 DEF Streams, Output!Out
<1> QED BY <1>3, <1>4, <1>5, <1>6, <1>7 DEF Streams

\* Both passes begin with a stream on top that ends in the buffer and in the one below.
LEMMA AppendKeeps ==
  ASSUME Streams, outs # <<>>, NEW s \in OStream, EndsInBuffer(s), Output!Nested(Output!Out, s),
         outs' = Append(outs, s), UNCHANGED <<bufsize, DOMAIN buffer>>
  PROVE  Streams'
<1> DEFINE n == Len(outs)
<1>0. n \in Nat
  BY DEF Streams
<1>1. n > 0 /\ DOMAIN outs = 1 .. n
  BY <1>0 DEF Streams
<1>2. /\ outs' \in Seq(OStream) /\ DOMAIN outs' = 1 .. n + 1 /\ outs'[n + 1] = s
      /\ \A k \in 1 .. n : outs'[k] = outs[k]
  BY <1>1 DEF Streams
<1>3. ASSUME NEW k \in 1 .. n + 1 PROVE EndsInBuffer(outs[k])'
  <2>1. EndsInBuffer(outs'[k])
    <3>1. CASE k = n + 1 BY <3>1, <1>2
    <3>2. CASE k <= n BY <3>2, <1>1, <1>2, StreamsAt
    <3> QED BY <3>1, <3>2, <1>0
  <2> QED BY <2>1 DEF EndsInBuffer
<1>4. ASSUME NEW k \in 1 .. n + 1, k > 1 PROVE Output!Nested(outs[k - 1], outs[k])'
  <2>1. CASE k = n + 1
    <3>1. k - 1 = n
      BY <2>1, <1>1
    <3>2. outs'[n] = outs[n] /\ outs'[n + 1] = s
      <4>1. n \in 1 .. n
        BY <1>0, <1>1
      <4> QED BY <4>1, <1>2
    <3>3. outs'[k - 1] = Output!Out /\ outs'[k] = s
      BY <3>1, <3>2, <2>1 DEF Output!Out
    <3> QED BY <3>3 DEF Output!Nested
  <2>2. CASE k <= n
    <3>1. Output!Nested(outs[k - 1], outs[k])
      BY <2>2, <1>1, <1>4, StreamsAt
    <3>2. outs'[k - 1] = outs[k - 1] /\ outs'[k] = outs[k]
      BY <2>2, <1>1, <1>2, <1>4
    <3> QED BY <3>1, <3>2 DEF Output!Nested
  <2>3. k = n + 1 \/ k <= n
    BY <1>0
  <2> QED BY <2>1, <2>2, <2>3
<1>5. outs'[1].of # "submessage"
  BY <1>1, <1>2 DEF Streams
<1> QED BY <1>2, <1>3, <1>4, <1>5 DEF Streams

\* A first pass counts and touches nothing.
LEMMA SizePassKeeps == Streams /\ Output!SizePass => Streams'
<1> SUFFICES ASSUME Streams, Output!SizePass PROVE Streams'
  OBVIOUS
<1>1. /\ Output!PB_OSTREAM_SIZING \in OStream
      /\ EndsInBuffer(Output!PB_OSTREAM_SIZING)
      /\ Output!Nested(Output!Out, Output!PB_OSTREAM_SIZING)
  BY DEF Output!PB_OSTREAM_SIZING, OStream, EndsInBuffer, Output!Sizing, Output!Nested
<1> QED BY <1>1, AppendKeeps DEF Output!SizePass

\* A second pass begins only if its size fits in the stream around it.
LEMMA WritePassKeeps == ASSUME NEW size \in Nat PROVE Streams /\ Output!WritePass(size) => Streams'
<1> SUFFICES ASSUME Streams, Output!WritePass(size) PROVE Streams'
  OBVIOUS
<1>1. Output!Out \in OStream /\ EndsInBuffer(Output!Out) /\ bufsize \in Nat
  BY DEF Streams, Output!Out, Output!WritePass
<1>2. /\ Output!SubStream(Output!Out, size) \in OStream
      /\ EndsInBuffer(Output!SubStream(Output!Out, size))
      /\ Output!Nested(Output!Out, Output!SubStream(Output!Out, size))
  BY <1>1, SubStreamInBuffer DEF Output!WritePass
<1> QED BY <1>2, AppendKeeps DEF Output!WritePass

\* The streams below the innermost one.
LEMMA OuterStreams ==
  ASSUME Streams, Len(outs) > 1
  PROVE  /\ Len(outs) \in Nat /\ Output!Outer \in Seq(OStream) /\ DOMAIN Output!Outer = 1 .. Len(outs) - 1
         /\ \A k \in 1 .. Len(outs) - 1 : Output!Outer[k] = outs[k]
BY DEF Streams, Output!Outer

\* The end of a first pass leaves the streams around it as they were.
LEMMA EndSizePassKeeps == Streams /\ Output!EndSizePass => Streams'
<1> SUFFICES ASSUME Streams, Output!EndSizePass PROVE Streams'
  OBVIOUS
<1>1. /\ Len(outs) \in Nat /\ outs' \in Seq(OStream) /\ DOMAIN outs' = 1 .. Len(outs) - 1
      /\ \A k \in 1 .. Len(outs) - 1 : outs'[k] = outs[k]
  BY OuterStreams DEF Output!EndSizePass
<1>2. ASSUME NEW k \in 1 .. Len(outs) - 1 PROVE EndsInBuffer(outs[k])'
  BY <1>1 DEF Streams, Output!EndSizePass, EndsInBuffer
<1>3. ASSUME NEW k \in 1 .. Len(outs) - 1, k > 1 PROVE Output!Nested(outs[k - 1], outs[k])'
  <2>1. Output!Nested(outs[k - 1], outs[k])
    BY <1>1, <1>3, StreamsAt
  <2>2. outs'[k - 1] = outs[k - 1] /\ outs'[k] = outs[k]
    BY <1>1, <1>3
  <2> QED BY <2>1, <2>2 DEF Output!Nested
<1>4. outs'[1].of # "submessage"
  BY <1>1 DEF Streams, Output!EndSizePass
<1> QED BY <1>1, <1>2, <1>3, <1>4 DEF Streams, Output!EndSizePass

\* The end of a second pass counts its bytes in the stream around it.
LEMMA EndWritePassKeeps == Streams /\ Output!EndWritePass => Streams'
<1> SUFFICES ASSUME Streams, Output!EndWritePass PROVE Streams'
  OBVIOUS
<1> DEFINE n == Len(outs) - 1
           s == outs[n]
<1>0. n \in Nat
  BY OuterStreams DEF Output!EndWritePass
<1>1. /\ n > 0 /\ Output!Outer \in Seq(OStream) /\ DOMAIN Output!Outer = 1 .. n
      /\ \A k \in 1 .. n : Output!Outer[k] = outs[k]
  BY <1>0, OuterStreams DEF Output!EndWritePass
<1>2. /\ s \in OStream /\ Output!Out \in OStream /\ bufsize \in Nat
      /\ EndsInBuffer(s) /\ EndsInBuffer(Output!Out) /\ Output!Nested(s, Output!Out) /\ ~Output!Sizing(Output!Out)
  BY <1>1 DEF Streams, Output!EndWritePass, Output!Out
<1>3. /\ Output!Joined(s, Output!Out) \in OStream
      /\ EndsInBuffer(Output!Joined(s, Output!Out))
      /\ Output!Joined(s, Output!Out) = Output!Wrote(s, Output!Out.bytes_written)
  BY <1>2, JoinedInBuffer
<1>4. /\ outs' \in Seq(OStream) /\ Len(outs') = n /\ DOMAIN outs' = 1 .. n
      /\ outs'[n] = Output!Joined(s, Output!Out)
      /\ \A k \in 1 .. n - 1 : outs'[k] = outs[k]
  <2>1. outs' = [Output!Outer EXCEPT ![n] = Output!Joined(s, Output!Out)]
    BY <1>1 DEF Output!EndWritePass
  <2> QED BY <2>1, <1>1, <1>3
<1>5. ASSUME NEW k \in 1 .. n PROVE EndsInBuffer(outs[k])'
  <2>1. EndsInBuffer(outs'[k])
    <3>1. CASE k = n BY <3>1, <1>3, <1>4
    <3>2. CASE k < n
      <4>1. k \in 1 .. Len(outs) /\ outs'[k] = outs[k]
        BY <3>2, <1>1, <1>4
      <4> QED BY <4>1, StreamsAt
    <3> QED BY <3>1, <3>2, <1>0
  <2> QED BY <2>1 DEF EndsInBuffer, Output!EndWritePass
<1>6. ASSUME NEW k \in 1 .. n, k > 1 PROVE Output!Nested(outs[k - 1], outs[k])'
  <2>1. Output!Nested(outs[k - 1], outs[k]) /\ outs[k - 1] \in OStream
    BY <1>1, <1>6, StreamsAt
  <2>2. CASE k = n
    <3>1. Output!Out.bytes_written \in Nat
      BY <1>2 DEF OStream
    <3>2. Output!Nested(outs[k - 1], Output!Wrote(s, Output!Out.bytes_written))
      BY <2>1, <2>2, <3>1, <1>2, WroteNested
    <3> QED BY <3>2, <2>2, <1>1, <1>3, <1>4, <1>6 DEF Output!Nested
  <2>3. CASE k < n
    <3>1. outs'[k - 1] = outs[k - 1] /\ outs'[k] = outs[k]
      BY <2>3, <1>1, <1>4, <1>6
    <3> QED BY <2>1, <3>1 DEF Output!Nested
  <2> QED BY <2>2, <2>3, <1>0
<1>7. outs'[1].of # "submessage"
  <2>1. Output!Joined(s, Output!Out).of = s.of
    BY <1>2 DEF Output!Joined, OStream
  <2> QED BY <2>1, <1>1, <1>4 DEF Streams
<1> QED BY <1>4, <1>5, <1>6, <1>7 DEF Streams, Output!EndWritePass

\* Any step of PbOutput, with any number of bytes.
OutputStep ==
  \/ Output!Open
  \/ \E count \in Nat : Output!Write(count)
  \/ Output!SizePass
  \/ \E size \in Nat : Output!WritePass(size)
  \/ Output!EndSizePass
  \/ Output!EndWritePass
  \/ Output!Close

\* It keeps the streams within the buffer and within each other.
LEMMA OutputStepKeeps ==
  ASSUME Streams, OutputStep \/ UNCHANGED Output!vars PROVE Streams'
<1>1. CASE Output!Open BY <1>1, OpenKeeps
<1>2. CASE \E count \in Nat : Output!Write(count) BY <1>2, WriteKeeps
<1>3. CASE Output!SizePass BY <1>3, SizePassKeeps
<1>4. CASE \E size \in Nat : Output!WritePass(size) BY <1>4, WritePassKeeps
<1>5. CASE Output!EndSizePass BY <1>5, EndSizePassKeeps
<1>6. CASE Output!EndWritePass BY <1>6, EndWritePassKeeps
<1>7. CASE Output!Close BY <1>7 DEF Output!Close, Streams
<1>8. CASE UNCHANGED Output!vars
  BY <1>8 DEF Output!vars, Streams, EndsInBuffer, Output!Nested, Output!Sizing
<1> QED BY <1>1, <1>2, <1>3, <1>4, <1>5, <1>6, <1>7, <1>8 DEF OutputStep

\* The invariant implies what the run checks.
LEMMA StreamsWithinBuffer == ASSUME Streams PROVE WithinBuffer
<1>1. ASSUME NEW k \in DOMAIN outs, ~Output!Sizing(outs[k])
      PROVE  outs[k].bytes_written <= outs[k].max_size /\ outs[k].state <= bufsize
  <2>1. outs[k] \in OStream /\ EndsInBuffer(outs[k])
    BY DEF Streams
  <2> QED BY <2>1, <1>1 DEF EndsInBuffer, OStream, Streams
<1> QED BY <1>1 DEF WithinBuffer, Output!WithinBuffer, Streams

\* Every program that writes as PbOutput says writes nothing behind the buffer that was
\* given to pb_ostream_from_buffer(), for every buffer and every nesting of submessages.
THEOREM NothingBehindBuffer == ImplementsOutput => []WithinBuffer
<1>1. Streams /\ [Output!Next]_(Output!vars) => Streams'
  <2>1. Output!Next => OutputStep BY OutputAssumption DEF Output!Next, OutputStep
  <2> QED BY <2>1, OutputStepKeeps
<1>2. Streams => WithinBuffer BY StreamsWithinBuffer
<1> QED BY <1>1, <1>2, Initially, PTL DEF ImplementsOutput, Output!Spec
-----------------------------------------------------------------------------
\* Lists of what is to be written.

Kinds == {"write", "error", "submessage", "body"}

IsItem(i) ==
  /\ DOMAIN i = {"do", "bytes", "msg", "base", "size"}
  /\ i.do \in Kinds
  /\ IsSeq(i.bytes)
  /\ i.size \in Nat
  /\ i.do \in {"submessage", "body"} => i.msg \in DOMAIN Structs

IsList(todo) == \E S : todo \in Seq(S) /\ \A i \in S : IsItem(i)

\* A list that was made for a field, before any submessage in it was sized.
IsPlan(todo) == \E S : todo \in Seq(S) /\ \A i \in S : IsItem(i) /\ i.do # "body"

\* A function on 1 .. n is a sequence, even for a negative n.
LEMMA FunctionIsSeq ==
  ASSUME NEW n \in Int, NEW f, f = [k \in 1 .. n |-> f[k]]
  PROVE  IsSeq(f)
<1> DEFINE S == { f[k] : k \in 1 .. n }
<1>1. CASE n \in Nat
  <2>1. f \in Seq(S) BY <1>1
  <2> QED BY <2>1 DEF IsSeq
<1>2. CASE n \notin Nat
  <2>1. 1 .. n = 1 .. 0 BY <1>2
  <2>2. f \in [1 .. 0 -> {}] BY <2>1
  <2>3. f \in Seq({}) BY <2>2
  <2> QED BY <2>3 DEF IsSeq
<1> QED BY <1>1, <1>2

\* The bytes of a varint: some group is the last one.
LEMMA VarintIsSeq == ASSUME NEW g PROVE IsSeq(pb_encode_varint(g))
<1> DEFINE used == { k \in 2 .. 10 : g[k] # 0 }
           n == IF used = {} THEN 1 ELSE CHOOSE k \in used : \A j \in used : j <= k
           bytes == [k \in 1 .. n |-> IF k < n THEN g[k] + 128 ELSE g[k]]
<1>1. n \in Nat
  <2>1. CASE used = {} BY <2>1
  <2>2. CASE used # {}
    <3> DEFINE below == { 10 - k : k \in used }
    <3>1. below \subseteq Nat /\ below # {} BY <2>2
    <3>2. PICK m \in below : \A j \in below : m <= j BY <3>1, LeastElement
    <3>3. PICK k \in used : m = 10 - k BY <3>2
    <3>4. \A j \in used : j <= k
      <4> TAKE j \in used
      <4>1. 10 - j \in below OBVIOUS
      <4>2. m <= 10 - j BY <3>2, <4>1
      <4>3. j \in 2 .. 10 /\ k \in 2 .. 10 OBVIOUS
      <4> QED BY <3>3, <4>2, <4>3
    <3>5. \E i \in used : \A j \in used : j <= i BY <3>4
    <3>6. n \in used
      <4> HIDE DEF used
      <4> QED BY <2>2, <3>5
    <3>7. used \subseteq Nat OBVIOUS
    <3> QED BY <3>6, <3>7, Zenon
  <2> QED BY <2>1, <2>2
<1>2. pb_encode_varint(g) = bytes BY DEF pb_encode_varint
<1> HIDE DEF n
<1>3. n \in Int /\ bytes = [k \in 1 .. n |-> bytes[k]] BY <1>1
<1> HIDE DEF bytes
<1> QED BY <1>2, <1>3, FunctionIsSeq

\* What the items of a list are.
LEMMA ItemsAreItems ==
  /\ \A bytes : IsSeq(bytes) => IsItem(Write(bytes)) /\ Write(bytes).do = "write"
  /\ IsItem(Error) /\ Error.do = "error"
  /\ \A msg \in DOMAIN Structs : \A base :
       IsItem(Submessage(msg, base)) /\ Submessage(msg, base).do = "submessage"
  /\ \A item : \A size \in Nat : IsItem(item) /\ item.msg \in DOMAIN Structs =>
       IsItem(Body(item, size))
<1>1. IsSeq(<<>>)
  <2>1. <<>> \in Seq({}) BY EmptySeq
  <2> QED BY <2>1 DEF IsSeq
<1>2. \A item : \A size \in Nat : IsItem(item) /\ item.msg \in DOMAIN Structs =>
         IsItem(Body(item, size))
  BY DEF IsItem, Body, Kinds
<1> QED BY <1>1, <1>2 DEF IsItem, Write, Error, Submessage, Kinds

\* Plans of one item, and of two.
LEMMA OneItem ==
  ASSUME NEW i, IsItem(i), i.do # "body" PROVE IsPlan(<<i>>)
<1> DEFINE p == <<i>>
<1>1. p \in Seq({i}) /\ \A k \in {i} : IsItem(k) /\ k.do # "body" OBVIOUS
<1> HIDE DEF p
<1>2. IsPlan(p) BY <1>1 DEF IsPlan
<1> QED BY <1>2 DEF p

LEMMA TwoItems ==
  ASSUME NEW i, IsItem(i), i.do # "body", NEW j, IsItem(j), j.do # "body"
  PROVE  IsPlan(<<i, j>>)
<1> DEFINE p == <<i, j>>
<1>1. p \in Seq({i, j}) /\ \A k \in {i, j} : IsItem(k) /\ k.do # "body" OBVIOUS
<1> HIDE DEF p
<1>2. IsPlan(p) BY <1>1 DEF IsPlan
<1> QED BY <1>2 DEF p

LEMMA NoItems == IsPlan(<<>>)
<1> DEFINE p == <<>>
<1>1. p \in Seq({}) BY EmptySeq
<1> HIDE DEF p
<1>2. IsPlan(p) BY <1>1 DEF IsPlan
<1> QED BY <1>2 DEF p

\* One after the other.
LEMMA PlansJoined ==
  ASSUME NEW p, IsPlan(p), NEW q, IsPlan(q) PROVE IsPlan(p \o q)
<1>1. PICK S : p \in Seq(S) /\ \A i \in S : IsItem(i) /\ i.do # "body" BY DEF IsPlan
<1>2. PICK T : q \in Seq(T) /\ \A i \in T : IsItem(i) /\ i.do # "body" BY DEF IsPlan
<1>3. p \in Seq(S \cup T) /\ q \in Seq(S \cup T) BY <1>1, <1>2, SeqMonotonic
<1>4. p \o q \in Seq(S \cup T) BY <1>3, ConcatProperties
<1>5. \A i \in S \cup T : IsItem(i) /\ i.do # "body" BY <1>1, <1>2
<1> QED BY <1>4, <1>5 DEF IsPlan

LEMMA ListsJoined ==
  ASSUME NEW p, IsList(p), NEW q, IsList(q) PROVE IsList(p \o q)
<1>1. PICK S : p \in Seq(S) /\ \A i \in S : IsItem(i) BY DEF IsList
<1>2. PICK T : q \in Seq(T) /\ \A i \in T : IsItem(i) BY DEF IsList
<1>3. p \in Seq(S \cup T) /\ q \in Seq(S \cup T) BY <1>1, <1>2, SeqMonotonic
<1>4. p \o q \in Seq(S \cup T) BY <1>3, ConcatProperties
<1>5. \A i \in S \cup T : IsItem(i) BY <1>1, <1>2
<1> QED BY <1>4, <1>5 DEF IsList

\* A plan is a list without bodies.
LEMMA PlanIsList ==
  ASSUME NEW p
  PROVE  IsPlan(p) <=> IsList(p) /\ \A k \in DOMAIN p : p[k].do # "body"
<1>1. ASSUME IsPlan(p) PROVE IsList(p) /\ \A k \in DOMAIN p : p[k].do # "body"
  <2>1. PICK S : p \in Seq(S) /\ \A i \in S : IsItem(i) /\ i.do # "body" BY <1>1 DEF IsPlan
  <2>2. \A k \in DOMAIN p : p[k] \in S BY <2>1
  <2> QED BY <2>1, <2>2 DEF IsList
<1>2. ASSUME IsList(p), \A k \in DOMAIN p : p[k].do # "body" PROVE IsPlan(p)
  <2>1. PICK S : p \in Seq(S) /\ \A i \in S : IsItem(i) BY <1>2 DEF IsList
  <2> DEFINE T == { i \in S : i.do # "body" }
  <2>2. \A k \in DOMAIN p : p[k] \in T BY <1>2, <2>1
  <2>3. p \in Seq(T)
    <3>1. Len(p) \in Nat /\ DOMAIN p = 1 .. Len(p) /\ p \in [1 .. Len(p) -> S]
      BY <2>1, LenProperties
    <3>2. p \in [1 .. Len(p) -> T] BY <2>2, <3>1
    <3> QED BY <3>1, <3>2
  <2> QED BY <2>1, <2>3 DEF IsPlan
<1> QED BY <1>1, <1>2
-----------------------------------------------------------------------------
\* Flattening a sequence of sequences: the recursive function exists.
LEMMA FlattenSeqInSeq ==
  ASSUME NEW S, NEW seqs \in Seq(Seq(S))
  PROVE  FlattenSeq(seqs) \in Seq(S)
<1> DEFINE IsFlatten(f, n) ==
             f = [i \in 1 .. n |-> IF i = 1 THEN seqs[i] ELSE f[i - 1] \o seqs[i]]
<1>1. Len(seqs) \in Nat /\ \A i \in 1 .. Len(seqs) : seqs[i] \in Seq(S)
  BY LenProperties, ElementOfSeq
<1>2. CASE Len(seqs) = 0
  <2>1. seqs = <<>> BY <1>2
  <2>2. <<>> \in Seq(S) BY EmptySeq
  <2> QED BY <1>2, <2>1, <2>2 DEF FlattenSeq
<1>3. CASE Len(seqs) # 0
  <2>1. \A n \in Nat : n \in { m \in Nat : \E f : IsFlatten(f, m) }
    <3> DEFINE T == { m \in Nat : \E f : IsFlatten(f, m) }
    <3>1. 0 \in T
      <4>1. IsFlatten([i \in {} |-> <<>>], 0) OBVIOUS
      <4> HIDE DEF IsFlatten
      <4> QED BY <4>1
    <3>2. ASSUME NEW n \in Nat, n \in T PROVE n + 1 \in T
      <4>1. PICK f : IsFlatten(f, n) BY <3>2
      <4> DEFINE g == [i \in 1 .. n + 1 |-> IF i = 1 THEN seqs[i] ELSE f[i - 1] \o seqs[i]]
      <4>2. \A i \in 1 .. n : f[i] = IF i = 1 THEN seqs[i] ELSE f[i - 1] \o seqs[i] BY <4>1
      <4>3. \A i \in 1 .. n : i \in 1 .. n + 1 OBVIOUS
      <4>4. \A i \in 1 .. n : g[i] = f[i] BY <4>2, <4>3
      <4>5. \A i \in 1 .. n + 1 : i # 1 => i - 1 \in 1 .. n OBVIOUS
      <4>6. \A i \in 1 .. n + 1 : i # 1 => g[i - 1] = f[i - 1] BY <4>4, <4>5, Zenon
      <4>7. g = [i \in 1 .. n + 1 |-> IF i = 1 THEN seqs[i] ELSE g[i - 1] \o seqs[i]]
        <5> DEFINE h == [i \in 1 .. n + 1 |-> IF i = 1 THEN seqs[i] ELSE g[i - 1] \o seqs[i]]
        <5>1. \A i \in 1 .. n + 1 : g[i] = h[i]
          <6> TAKE i \in 1 .. n + 1
          <6>1. g[i] = IF i = 1 THEN seqs[i] ELSE f[i - 1] \o seqs[i] OBVIOUS
          <6>2. h[i] = IF i = 1 THEN seqs[i] ELSE g[i - 1] \o seqs[i]
            <7> HIDE DEF g
            <7> QED OBVIOUS
          <6> HIDE DEF g, h
          <6> QED BY <4>6, <6>1, <6>2
        <5>2. DOMAIN g = 1 .. n + 1 /\ g = [i \in 1 .. n + 1 |-> g[i]] OBVIOUS
        <5>3. DOMAIN h = 1 .. n + 1 /\ h = [i \in 1 .. n + 1 |-> h[i]]
          <6> HIDE DEF g
          <6> QED OBVIOUS
        <5>4. g = h
          <6> HIDE DEF g, h
          <6> QED BY <5>1, <5>2, <5>3
        <5> QED BY <5>4
      <4>8. IsFlatten(g, n + 1)
        <5> HIDE DEF g
        <5> QED BY <4>7
      <4> HIDE DEF IsFlatten, g
      <4> QED BY <4>8
    <3> HIDE DEF T
    <3>3. \A n \in Nat : n \in T BY <3>1, <3>2, SetInduction
    <3> QED BY <3>3 DEF T
  <2> DEFINE flatten == CHOOSE f : IsFlatten(f, Len(seqs))
  <2>2. IsFlatten(flatten, Len(seqs))
    <3>1. \E f : IsFlatten(f, Len(seqs)) BY <1>1, <2>1
    <3> HIDE DEF IsFlatten
    <3> QED BY <3>1
  <2>3. FlattenSeq(seqs) = flatten[Len(seqs)] BY <1>3 DEF FlattenSeq
  <2> HIDE DEF flatten
  <2>4. \A i \in 1 .. Len(seqs) :
          flatten[i] = IF i = 1 THEN seqs[i] ELSE flatten[i - 1] \o seqs[i]
    BY <2>2
  <2> DEFINE T == { n \in Nat : n \in 1 .. Len(seqs) => flatten[n] \in Seq(S) }
  <2>5. \A n \in Nat : n \in T
    <3>1. 0 \in T OBVIOUS
    <3>2. ASSUME NEW n \in Nat, n \in T PROVE n + 1 \in T
      <4>1. CASE n + 1 \in 1 .. Len(seqs)
        <5>1. seqs[n + 1] \in Seq(S) BY <1>1, <4>1
        <5>2. CASE n = 0 BY <2>4, <4>1, <5>1, <5>2
        <5>3. CASE n # 0
          <6>1. n \in 1 .. Len(seqs) BY <1>1, <4>1, <5>3
          <6>2. flatten[n] \in Seq(S) BY <3>2, <6>1
          <6>3. (n + 1) - 1 = n /\ n + 1 # 1 BY <5>3
          <6>4. flatten[n + 1] = flatten[n] \o seqs[n + 1] BY <2>4, <4>1, <6>3
          <6>5. flatten[n + 1] \in Seq(S) BY <5>1, <6>2, <6>4, ConcatProperties
          <6> QED BY <6>5
        <5> QED BY <5>2, <5>3
      <4>2. CASE n + 1 \notin 1 .. Len(seqs) BY <4>2
      <4> QED BY <4>1, <4>2
    <3> HIDE DEF T
    <3> QED BY <3>1, <3>2, SetInduction
  <2>6. Len(seqs) \in T BY <1>1, <2>5
  <2>7. Len(seqs) \in 1 .. Len(seqs) BY <1>1, <1>3
  <2> QED BY <2>3, <2>6, <2>7
<1> QED BY <1>2, <1>3

\* A sequence of plans is a plan when it is flattened, and sequences of bytes are a
\* sequence of bytes.
LEMMA PlansFlattened ==
  ASSUME NEW n \in Nat, NEW plans, plans = [i \in 1 .. n |-> plans[i]],
         \A i \in 1 .. n : IsPlan(plans[i])
  PROVE  IsPlan(FlattenSeq(plans))
<1> DEFINE S == UNION { { plans[i][k] : k \in DOMAIN plans[i] } : i \in 1 .. n }
<1>1. \A i \in S : IsItem(i) /\ i.do # "body"
  <2>1. \A i \in 1 .. n : \A k \in DOMAIN plans[i] :
           IsItem(plans[i][k]) /\ plans[i][k].do # "body"
    BY DEF IsPlan
  <2> QED BY <2>1
<1>2. \A i \in 1 .. n : plans[i] \in Seq(S)
  <2> TAKE i \in 1 .. n
  <2>1. PICK T : plans[i] \in Seq(T) BY DEF IsPlan
  <2>2. /\ Len(plans[i]) \in Nat /\ DOMAIN plans[i] = 1 .. Len(plans[i])
        /\ plans[i] \in [1 .. Len(plans[i]) -> T]
    BY <2>1, LenProperties
  <2>3. \A k \in DOMAIN plans[i] : plans[i][k] \in S OBVIOUS
  <2> HIDE DEF S
  <2>4. plans[i] \in [1 .. Len(plans[i]) -> S] BY <2>2, <2>3
  <2> QED BY <2>2, <2>4
<1> HIDE DEF S
<1>3. plans \in Seq(Seq(S)) BY <1>2
<1>4. FlattenSeq(plans) \in Seq(S) BY <1>3, FlattenSeqInSeq
<1> QED BY <1>1, <1>4 DEF IsPlan

LEMMA BytesFlattened ==
  ASSUME NEW n \in Nat, NEW parts, parts = [i \in 1 .. n |-> parts[i]],
         \A i \in 1 .. n : IsSeq(parts[i])
  PROVE  IsSeq(FlattenSeq(parts))
<1> DEFINE S == UNION { { parts[i][k] : k \in DOMAIN parts[i] } : i \in 1 .. n }
<1>1. \A i \in 1 .. n : parts[i] \in Seq(S)
  <2> TAKE i \in 1 .. n
  <2>1. PICK T : parts[i] \in Seq(T) BY DEF IsSeq
  <2>2. /\ Len(parts[i]) \in Nat /\ DOMAIN parts[i] = 1 .. Len(parts[i])
        /\ parts[i] \in [1 .. Len(parts[i]) -> T]
    BY <2>1, LenProperties
  <2>3. \A k \in DOMAIN parts[i] : parts[i][k] \in S OBVIOUS
  <2> HIDE DEF S
  <2>4. parts[i] \in [1 .. Len(parts[i]) -> S] BY <2>2, <2>3
  <2> QED BY <2>2, <2>4
<1> HIDE DEF S
<1>2. parts \in Seq(Seq(S)) BY <1>1
<1>3. FlattenSeq(parts) \in Seq(S) BY <1>2, FlattenSeqInSeq
<1> QED BY <1>3 DEF IsSeq
-----------------------------------------------------------------------------
\* The plan for a field, of any kind and with anything in the struct.

IsField(field) == field \in pb_field_t /\ PointsToStruct(field)

LEMMA SizesAreNats ==
  PB_SIZE_MAX \in Nat /\ 0 \in 0 .. PB_SIZE_MAX /\ 1 .. PB_SIZE_MAX \subseteq 0 .. PB_SIZE_MAX
<1>1. PB_SIZE_MAX \in Nat BY DEF PB_SIZE_MAX
<1>2. \A n \in Nat : 0 \in 0 .. n /\ 1 .. n \subseteq 0 .. n OBVIOUS
<1> QED BY ONLY <1>1, <1>2, Zenon

\* The fields of a struct, and the terminator.
LEMMA FieldTyped ==
  ASSUME NEW msg \in DOMAIN Structs, NEW pos \in 1 .. FieldCount(msg) + 1
  PROVE  IsField(FieldAt(msg, pos))
<1> DEFINE members == Structs[msg]
           described == [k \in DOMAIN members |-> PB_FIELD(members, k)]
<1>1. WellLaidOut(members) BY LayoutAssumption
<1>2. /\ members \in Seq(Member) /\ Len(members) \in Nat /\ DOMAIN members = 1 .. Len(members)
      /\ \A k \in 1 .. Len(members) : members[k] \in Member
  BY <1>1, LenProperties, ElementOfSeq DEF WellLaidOut
<1>3. \A k \in 1 .. Len(members) : pb_membersize(members[k]) \in Int
  <2> TAKE k \in 1 .. Len(members)
  <2>1. members[k].item \in Nat /\ members[k].count \in Nat BY <1>2 DEF Member
  <2>2. members[k].item * members[k].count \in Int BY <2>1
  <2> QED BY <2>2 DEF pb_membersize, PointerSize
<1>4. \A k \in 1 .. Len(members) : IsField(PB_FIELD(members, k))
  <2> TAKE k \in 1 .. Len(members)
  <2> DEFINE m == members[k]
             f == PB_FIELD(members, k)
  <2>1. m \in Member BY <1>2
  <2>2. PB_DATAOFFSET(members, k) \in Int
    <3>1. CASE k = 1 BY <2>1, <3>1 DEF PB_DATAOFFSET, Member
    <3>2. CASE k # 1
      <4>1. k - 1 \in 1 .. Len(members) BY <1>2, <3>2
      <4>2. members[k - 1].at \in Int /\ pb_membersize(members[k - 1]) \in Int
        BY <1>2, <1>3, <4>1 DEF Member
      <4>3. m.at \in Int BY <2>1 DEF Member
      <4> QED BY <3>2, <4>2, <4>3, SizesAreNats DEF PB_DATAOFFSET
    <3> QED BY <3>1, <3>2
  <2>3. (IF m.size_at = NULL THEN 0 ELSE m.size_at - m.at) \in Int BY <2>1 DEF Member
  <2>4. (IF IsStaticArray(m) THEN m.count ELSE 0) \in Nat BY <2>1 DEF Member
  <2>5. f \in pb_field_t
    <3>1. /\ m.tag \in 0 .. PB_SIZE_MAX /\ m.ltype \in LTypes /\ m.htype \in HTypes
          /\ m.atype \in ATypes /\ m.item \in Nat
          /\ m.ptr \in {NULL} \cup DOMAIN Structs \cup Int
      <4>1. m.tag \in 1 .. PB_SIZE_MAX BY <2>1 DEF Member
      <4>2. m.ptr \in {NULL} \cup DOMAIN Structs \cup Int BY <2>1, Zenon DEF Member
      <4>3. /\ m.ltype \in LTypes /\ m.htype \in HTypes /\ m.atype \in ATypes /\ m.item \in Nat
        BY <2>1 DEF Member
      <4>4. 1 .. PB_SIZE_MAX \subseteq 0 .. PB_SIZE_MAX BY SizesAreNats
      <4>5. m.tag \in 0 .. PB_SIZE_MAX BY ONLY <4>1, <4>4, Zenon
      <4> QED BY ONLY <4>2, <4>3, <4>5, Zenon
    <3> QED BY <2>2, <2>3, <2>4, <3>1 DEF PB_FIELD, pb_field_t
  <2>6. PointsToStruct(m) BY <1>1, <1>2 DEF WellLaidOut
  <2>7. PointsToStruct(f) BY <2>6 DEF PointsToStruct, PB_FIELD
  <2> QED BY <2>5, <2>7 DEF IsField
<1>5. IsField(PB_LAST_FIELD)
  BY SizesAreNats DEF IsField, PB_LAST_FIELD, pb_field_t, PointsToStruct, LTypes, Packable,
                      HTypes, ATypes
<1> DEFINE S == { described[k] : k \in 1 .. Len(members) } \cup {PB_LAST_FIELD}
<1>6. described \in Seq(S) /\ Len(described) = Len(members) BY <1>2
<1>7. \A f \in S : IsField(f) BY <1>2, <1>4, <1>5
<1> HIDE DEF S, described
<1>8. /\ Append(described, PB_LAST_FIELD) \in Seq(S)
      /\ Len(Append(described, PB_LAST_FIELD)) = Len(members) + 1
  BY <1>6, AppendProperties DEF S
<1>9. fields[msg] = Append(described, PB_LAST_FIELD) BY DEF fields, described
<1>10. fields[msg][pos] \in S BY <1>8, <1>9, ElementOfSeq DEF FieldCount
<1> QED BY <1>7, <1>10 DEF FieldAt

\* Memory of any size.
LEMMA CellsAreBytes == ASSUME NEW addr, NEW size \in Int PROVE IsSeq(Cells(addr, size))
<1> DEFINE f == Cells(addr, size)
<1>1. f = [k \in 1 .. size |-> f[k]] BY DEF Cells
<1> HIDE DEF f
<1>2. IsSeq(f) BY <1>1, FunctionIsSeq
<1> QED BY <1>2 DEF f

LEMMA ZerosAreBytes == ASSUME NEW size \in Int PROVE IsSeq([k \in 1 .. size |-> 0])
<1> DEFINE f == [k \in 1 .. size |-> 0]
<1>1. f = [k \in 1 .. size |-> f[k]] OBVIOUS
<1> HIDE DEF f
<1>2. IsSeq(f) BY <1>1, FunctionIsSeq
<1> QED BY <1>2 DEF f

\* The end of a string, or of the member that it is in.
LEMMA StringEnds ==
  ASSUME NEW addr, NEW max_size \in Nat PROVE StringLength(addr, max_size) \in 0 .. max_size
<1> DEFINE P(n) == /\ \A k \in 0 .. n - 1 : Cell(addr + k) # 0
                   /\ n < max_size => Cell(addr + n) = 0
           Ending == { k \in 0 .. max_size - 1 : Cell(addr + k) = 0 }
<1>1. \E n \in 0 .. max_size : P(n)
  <2>1. CASE Ending = {}
    <3>1. \A k \in 0 .. max_size - 1 : Cell(addr + k) # 0 BY <2>1
    <3> QED BY <3>1
  <2>2. CASE Ending # {}
    <3>1. PICK n \in Ending : \A k \in Ending : n <= k
      BY <2>2, LeastElement, Ending \subseteq Nat
    <3>2. n \in 0 .. max_size - 1 /\ Cell(addr + n) = 0 OBVIOUS
    <3>3. \A k \in 0 .. n - 1 : k \in 0 .. max_size - 1 /\ ~(n <= k) BY <3>2
    <3>4. \A k \in 0 .. n - 1 : k \notin Ending BY <3>1, <3>3
    <3>5. \A k \in 0 .. n - 1 : Cell(addr + k) # 0 BY <3>3, <3>4
    <3> QED BY <3>2, <3>5
  <2> QED BY <2>1, <2>2
<1>2. StringLength(addr, max_size) = CHOOSE n \in 0 .. max_size : P(n) BY DEF StringLength
<1> HIDE DEF P
<1> QED BY <1>1, <1>2

LEMMA VarintItem == ASSUME NEW n PROVE IsItem(Varint(n)) /\ Varint(n).do = "write"
<1>1. IsSeq(pb_encode_varint(GroupsOf(n))) BY VarintIsSeq
<1> QED BY <1>1, ItemsAreItems DEF Varint

LEMMA StringPlan == ASSUME NEW bytes, IsSeq(bytes) PROVE IsPlan(pb_encode_string(bytes))
<1>1. IsItem(Write(bytes)) /\ Write(bytes).do # "body" BY ItemsAreItems
<1>2. IsItem(Varint(Len(bytes))) /\ Varint(Len(bytes)).do # "body" BY VarintItem
<1> QED BY <1>1, <1>2, TwoItems DEF pb_encode_string

LEMMA TagItem ==
  ASSUME NEW field PROVE IsItem(pb_encode_tag_for_field(field))
                         /\ pb_encode_tag_for_field(field).do # "body"
<1>1. \A t, n : IsSeq(pb_encode_tag(t, n)) BY VarintIsSeq DEF pb_encode_tag
<1> QED BY <1>1, ItemsAreItems DEF pb_encode_tag_for_field

\* A scalar.
LEMMA ScalarItem ==
  ASSUME NEW field, NEW addr, field.ltype \in Packable
  PROVE  /\ IsItem(EncodeValue(field, addr)[1]) /\ EncodeValue(field, addr)[1].do # "body"
         /\ EncodeValue(field, addr) = <<EncodeValue(field, addr)[1]>>
<1>1. IsItem(EncodeInteger(field, Cell(addr))) /\ EncodeInteger(field, Cell(addr)).do # "body"
  BY VarintIsSeq, ItemsAreItems DEF EncodeInteger
<1>2. \A n \in {4, 8} : IsItem(Write(Cells(addr, n))) /\ Write(Cells(addr, n)).do # "body"
  BY CellsAreBytes, ItemsAreItems
<1>3. CASE field.ltype \in {"VARINT", "UVARINT", "SVARINT"}
  <2>1. EncodeValue(field, addr) = <<EncodeInteger(field, Cell(addr))>>
    BY <1>3 DEF EncodeValue
  <2> QED BY <1>1, <2>1
<1>4. CASE field.ltype = "FIXED32"
  <2>1. EncodeValue(field, addr) = <<Write(Cells(addr, 4))>> BY <1>4 DEF EncodeValue
  <2> QED BY <1>2, <2>1
<1>5. CASE field.ltype = "FIXED64"
  <2>1. EncodeValue(field, addr) = <<Write(Cells(addr, 8))>> BY <1>5 DEF EncodeValue
  <2> QED BY <1>2, <2>1
<1> QED BY <1>3, <1>4, <1>5 DEF Packable

\* Any value.
LEMMA ValuePlan ==
  ASSUME NEW field, IsField(field), NEW addr PROVE IsPlan(EncodeValue(field, addr))
<1>0. field.data_size \in Nat BY DEF IsField, pb_field_t
<1>e. IsPlan(<<Error>>) /\ IsPlan(pb_encode_string(<<>>))
  <2>1. IsSeq(<<>>)
    <3>1. <<>> \in Seq({}) BY EmptySeq
    <3> QED BY <3>1 DEF IsSeq
  <2>2. Error.do # "body" /\ IsItem(Error) BY ItemsAreItems
  <2> QED BY <2>1, <2>2, OneItem, StringPlan
<1>1. CASE field.ltype \in Packable
  <2>1. IsPlan(<<EncodeValue(field, addr)[1]>>) BY <1>1, ScalarItem, OneItem
  <2> QED BY <1>1, <2>1, ScalarItem
<1>2. CASE field.ltype = "BYTES"
  <2>1. BytesFit(field, addr) => Cell(addr) \in Int
    BY <1>0, SizesAreNats DEF BytesFit, LengthSize
  <2>2. BytesFit(field, addr) => IsPlan(pb_encode_string(Cells(addr + LengthSize, Cell(addr))))
    BY <2>1, CellsAreBytes, StringPlan
  <2>3. \/ EncodeValue(field, addr) = pb_encode_string(<<>>)
        \/ /\ BytesFit(field, addr)
           /\ EncodeValue(field, addr) = pb_encode_string(Cells(addr + LengthSize, Cell(addr)))
        \/ EncodeValue(field, addr) = <<Error>>
    BY <1>2 DEF EncodeValue
  <2> QED BY <1>e, <2>2, <2>3
<1>3. CASE field.ltype = "STRING"
  <2> DEFINE most == IF field.atype = "POINTER" THEN Unbounded ELSE field.data_size
             length == StringLength(addr, most)
  <2>1. most \in Nat BY <1>0, SizesAreNats DEF Unbounded
  <2>2. length \in Int
    <3> HIDE DEF most
    <3>1. length \in 0 .. most BY <2>1, StringEnds
    <3> HIDE DEF length
    <3> QED BY <2>1, <3>1
  <2>3. IsPlan(pb_encode_string(Cells(addr, length)))
    <3> HIDE DEF length
    <3> QED BY <2>2, CellsAreBytes, StringPlan
  <2>4. \/ EncodeValue(field, addr) = pb_encode_string(<<>>)
        \/ EncodeValue(field, addr) = pb_encode_string(Cells(addr, length))
    BY <1>3 DEF EncodeValue
  <2> QED BY <1>e, <2>3, <2>4
<1>4. CASE field.ltype = "SUBMESSAGE"
  <2>1. CASE field.ptr = NULL
    <3>1. EncodeValue(field, addr) = <<Error>> BY <1>4, <2>1 DEF EncodeValue
    <3> QED BY <1>e, <3>1
  <2>2. CASE field.ptr # NULL
    <3>1. EncodeValue(field, addr) = <<Submessage(field.ptr, addr)>>
      BY <1>4, <2>2 DEF EncodeValue
    <3>2. field.ptr \in DOMAIN Structs BY <1>4, <2>2 DEF IsField, PointsToStruct
    <3>3. IsItem(Submessage(field.ptr, addr)) /\ Submessage(field.ptr, addr).do # "body"
      BY <3>2, ItemsAreItems
    <3> QED BY <3>1, <3>3, OneItem
  <2> QED BY <2>1, <2>2
<1>5. CASE field.ltype = "FIXED_LENGTH_BYTES"
  <2>1. EncodeValue(field, addr) = pb_encode_string(Cells(addr, field.data_size))
    BY <1>5 DEF EncodeValue
  <2> QED BY <1>0, <2>1, CellsAreBytes, StringPlan
<1>6. CASE field.ltype \notin
             Packable \cup {"BYTES", "STRING", "SUBMESSAGE", "FIXED_LENGTH_BYTES"}
  <2>1. EncodeValue(field, addr) = <<Error>> BY <1>6 DEF EncodeValue, Packable
  <2> QED BY <1>e, <2>1
<1> QED BY <1>1, <1>2, <1>3, <1>4, <1>5, <1>6

LEMMA TaggedPlan ==
  ASSUME NEW field, IsField(field), NEW addr PROVE IsPlan(Tagged(field, addr))
<1>1. IsPlan(<<pb_encode_tag_for_field(field)>>) BY TagItem, OneItem
<1> QED BY <1>1, ValuePlan, PlansJoined DEF Tagged
\* Sequences of scalars.
LEMMA ValuesPlan ==
  ASSUME NEW n \in Nat, NEW values, values = [i \in 1 .. n |-> values[i]],
         \A i \in 1 .. n : IsItem(values[i]) /\ values[i].do # "body"
  PROVE  IsPlan(values) /\ Len(values) = n
<1> DEFINE S == { values[i] : i \in 1 .. n }
<1>1. \A i \in S : IsItem(i) /\ i.do # "body" OBVIOUS
<1>2. \A i \in 1 .. n : values[i] \in S OBVIOUS
<1> HIDE DEF S
<1>3. values \in Seq(S) /\ Len(values) = n BY <1>2
<1> QED BY <1>1, <1>3 DEF IsPlan

\* The size of a packed array: its values are sequences of bytes.
LEMMA PackedSizeIsInt ==
  ASSUME NEW n \in Nat, NEW values, values = [i \in 1 .. n |-> values[i]],
         \A i \in 1 .. n : IsItem(values[i]) /\ values[i].do # "body", NEW field
  PROVE  PackedSize(field, values) \in Int
<1> DEFINE parts == [i \in DOMAIN values |-> values[i].bytes]
<1>1. Len(values) = n /\ DOMAIN values = 1 .. n BY ValuesPlan
<1>2. parts = [i \in 1 .. n |-> parts[i]] /\ \A i \in 1 .. n : IsSeq(parts[i])
  BY <1>1 DEF IsItem
<1> HIDE DEF parts
<1>3. IsSeq(FlattenSeq(parts)) BY <1>2, BytesFlattened
<1>4. Len(FlattenSeq(parts)) \in Int BY <1>3, LenProperties DEF IsSeq
<1>5. 4 * Len(values) \in Int /\ 8 * Len(values) \in Int BY <1>1
<1> QED BY <1>4, <1>5 DEF PackedSize, parts

LEMMA PackedPlan ==
  ASSUME NEW n \in Nat, NEW values, values = [i \in 1 .. n |-> values[i]],
         \A i \in 1 .. n : IsItem(values[i]) /\ values[i].do # "body", NEW field, NEW sizing
  PROVE  IsPlan(PackedArray(field, values, sizing))
<1> DEFINE tag == Write(pb_encode_tag(2, field.tag))
           size == PackedSize(field, values)
           zeros == Write([k \in 1 .. size |-> 0])
<1>1. IsItem(tag) /\ tag.do # "body"
  <2>1. IsSeq(pb_encode_tag(2, field.tag)) BY VarintIsSeq DEF pb_encode_tag
  <2> QED BY <2>1, ItemsAreItems
<1>2. size \in Int BY PackedSizeIsInt
<1> HIDE DEF tag, size
<1>3. IsPlan(<<tag, Error>>)
  <2>1. IsItem(Error) /\ Error.do # "body" BY ItemsAreItems
  <2> QED BY <1>1, <2>1, TwoItems
<1>4. IsPlan(<<tag, Varint(size)>>)
  <2>1. IsItem(Varint(size)) /\ Varint(size).do # "body" BY VarintItem
  <2> QED BY <1>1, <2>1, TwoItems
<1>5. IsPlan(<<zeros>>)
  <2>1. IsItem(zeros) /\ zeros.do # "body" BY <1>2, ZerosAreBytes, ItemsAreItems
  <2> HIDE DEF zeros
  <2> QED BY <2>1, OneItem
<1>6. IsPlan(values) BY ValuesPlan
<1>7. \/ PackedArray(field, values, sizing) = <<tag, Error>>
      \/ PackedArray(field, values, sizing) = <<tag, Varint(size)>> \o <<zeros>>
      \/ PackedArray(field, values, sizing) = <<tag, Varint(size)>> \o values
  BY DEF PackedArray, tag, size
<1> HIDE DEF zeros
<1> QED BY <1>3, <1>4, <1>5, <1>6, <1>7, PlansJoined

\* An array: its count was compared with what the member or a pb_size_t can hold.
LEMMA ArrayPlan ==
  ASSUME NEW field, IsField(field), NEW data, NEW count, NEW sizing
  PROVE  IsPlan(encode_array(field, data, count, sizing))
<1>0. MaxEntries(field) \in Nat BY SizesAreNats DEF MaxEntries, IsField, pb_field_t
<1>1. CASE count = 0 BY <1>1, NoItems DEF encode_array
<1>2. CASE count # 0 /\ count \notin 0 .. MaxEntries(field)
  <2>1. encode_array(field, data, count, sizing) = <<Error>> BY <1>2 DEF encode_array
  <2>2. IsItem(Error) /\ Error.do # "body" BY ItemsAreItems
  <2> QED BY <2>1, <2>2, OneItem
<1>3. CASE count # 0 /\ count \in 0 .. MaxEntries(field)
  <2>1. count \in Nat BY <1>0, <1>3
  <2>2. CASE field.ltype \in Packable
    <3> DEFINE values ==
          [i \in 1 .. count |-> EncodeValue(field, data + field.data_size * (i - 1))[1]]
    <3>1. values = [i \in 1 .. count |-> values[i]] OBVIOUS
    <3>2. \A i \in 1 .. count : IsItem(values[i]) /\ values[i].do # "body"
      BY <2>2, ScalarItem
    <3>3. encode_array(field, data, count, sizing) = PackedArray(field, values, sizing)
      BY <1>3, <2>2 DEF encode_array
    <3> HIDE DEF values
    <3> QED BY <2>1, <3>1, <3>2, <3>3, PackedPlan
  <2>3. CASE field.ltype \notin Packable
    <3> DEFINE plans == [i \in 1 .. count |-> Tagged(field, EntryOf(field, data, i))]
    <3>1. plans = [i \in 1 .. count |-> plans[i]] OBVIOUS
    <3>2. \A i \in 1 .. count : IsPlan(plans[i]) BY TaggedPlan
    <3>3. encode_array(field, data, count, sizing) = FlattenSeq(plans)
      BY <1>3, <2>3 DEF encode_array
    <3> HIDE DEF plans
    <3> QED BY <2>1, <3>1, <3>2, <3>3, PlansFlattened
  <2> QED BY <2>2, <2>3
<1> QED BY <1>1, <1>2, <1>3

\* Whatever encode_basic_field() is asked to write is a plan.
LEMMA FieldPlan ==
  ASSUME NEW field, IsField(field), NEW addr, NEW sizing
  PROVE  IsPlan(encode_basic_field(field, addr, sizing))
<1> DEFINE data == IF field.atype = "POINTER" THEN Cell(addr) ELSE addr
<1>0. IsPlan(<<Error>>)
  <2>1. IsItem(Error) /\ Error.do # "body" BY ItemsAreItems
  <2> QED BY <2>1, OneItem
<1>1. encode_basic_field(field, addr, sizing) = BasicField(field, addr, data, sizing)
  BY DEF encode_basic_field
<1> HIDE DEF data
<1>2. IsPlan(Tagged(field, data)) BY TaggedPlan
<1>3. \A count : IsPlan(encode_array(field, data, count, sizing)) BY ArrayPlan
<1>4. field.htype \in HTypes BY DEF IsField, pb_field_t
<1>5. \/ BasicField(field, addr, data, sizing) \in {<<Error>>, Tagged(field, data), <<>>}
      \/ \E count : BasicField(field, addr, data, sizing)
                      = encode_array(field, data, count, sizing)
  BY <1>4 DEF BasicField, HTypes
<1> QED BY <1>0, <1>1, <1>2, <1>3, <1>5, NoItems

-----------------------------------------------------------------------------
\* The calls of pb_encode in progress.

FrameFields == {"msg", "base", "it", "at", "todo", "then", "ext", "chunks"}

IsFrame(f) ==
  /\ DOMAIN f = FrameFields
  /\ f.msg \in DOMAIN Structs
  /\ "pos" \in DOMAIN f.it
  /\ f.it.pos \in 1 .. FieldCount(f.msg) + 1
  /\ f.ext \in Nat
  /\ "extension" \in {f.at, f.then} => f.ext # 0
  /\ IsList(f.todo)

\* Where bytes are only counted, no body of a submessage is to be written.
Allowed(f, s) == Sizing(s) => \A k \in DOMAIN f.todo : f.todo[k].do # "body"

\* It has called for a submessage.
Waits(f) == f.todo # <<>> /\ Head(f.todo).do \in {"submessage", "body"}

\* Each call has a stream, and each but the innermost waits for a submessage.
Calls ==
  /\ source \in DOMAIN Sources
  /\ IsSeq(stack)
  /\ Len(stack) = Len(outs)
  /\ \A k \in DOMAIN stack : IsFrame(stack[k]) /\ Allowed(stack[k], outs[k])
  /\ \A k \in 1 .. Len(stack) - 1 : Waits(stack[k])

IInv == Streams /\ Calls

\* What a step of PbOutput, or none, does to the streams.
OutputSteps == OutputStep \/ UNCHANGED Output!vars

\* As many calls as streams.
LEMMA AsManyStreams ==
  ASSUME IInv
  PROVE  /\ Len(stack) \in Nat /\ Len(outs) = Len(stack)
         /\ DOMAIN stack = 1 .. Len(stack) /\ DOMAIN outs = 1 .. Len(stack)
         /\ stack # <<>> <=> Len(stack) # 0
         /\ outs # <<>> <=> Len(stack) # 0
<1>1. PICK S : stack \in Seq(S) BY DEF IInv, Calls, IsSeq
<1>2. /\ Len(stack) \in Nat /\ DOMAIN stack = 1 .. Len(stack)
      /\ stack # <<>> <=> Len(stack) # 0
  BY <1>1, LenProperties, EmptySeq
<1>3. outs \in Seq(OStream) /\ Len(outs) = Len(stack) BY DEF IInv, Streams, Calls
<1>4. DOMAIN outs = 1 .. Len(outs) /\ (outs # <<>> <=> Len(outs) # 0)
  BY <1>3, LenProperties, EmptySeq
<1> QED BY <1>2, <1>3, <1>4

\* Calls after a step.
LEMMA CallsAfter ==
  ASSUME NEW n \in Nat, source' \in DOMAIN Sources, IsSeq(stack'), DOMAIN stack' = 1 .. n,
         Len(stack') = n, Len(outs') = n,
         \A k \in 1 .. n : IsFrame(stack'[k]) /\ Allowed(stack'[k], outs'[k]),
         \A k \in 1 .. n - 1 : Waits(stack'[k])
  PROVE  Calls'
<1>1. ASSUME NEW k \in 1 .. n PROVE IsFrame(stack[k])'
  <2>1. IsFrame(stack'[k]) OBVIOUS
  <2> QED BY ONLY <2>1 DEF IsFrame
<1>2. ASSUME NEW k \in 1 .. n PROVE Allowed(stack[k], outs[k])'
  <2>1. Allowed(stack'[k], outs'[k]) OBVIOUS
  <2> QED BY ONLY <2>1 DEF Allowed, Sizing
<1>3. ASSUME NEW k \in 1 .. n - 1 PROVE Waits(stack[k])'
  <2>1. Waits(stack'[k]) OBVIOUS
  <2> QED BY ONLY <2>1 DEF Waits
<1>4. IsSeq(stack)'
  <2>1. IsSeq(stack') OBVIOUS
  <2> QED BY ONLY <2>1 DEF IsSeq
<1>5. (Len(stack) = Len(outs))' OBVIOUS
<1>6. (\A k \in DOMAIN stack : IsFrame(stack[k]) /\ Allowed(stack[k], outs[k]))'
  BY <1>1, <1>2
<1>7. (\A k \in 1 .. Len(stack) - 1 : Waits(stack[k]))' BY <1>3
<1> QED BY ONLY <1>4, <1>5, <1>6, <1>7, source' \in DOMAIN Sources DEF Calls

\* The innermost call and its stream.
LEMMA TopCall ==
  ASSUME IInv, stack # <<>>
  PROVE  /\ IsFrame(Top) /\ Allowed(Top, Out) /\ Out \in OStream
         /\ Len(stack) \in Nat \ {0} /\ Len(stack) \in DOMAIN stack
<1>1. /\ Len(stack) \in Nat \ {0} /\ Len(outs) = Len(stack)
      /\ DOMAIN stack = 1 .. Len(stack) /\ DOMAIN outs = 1 .. Len(stack)
  BY AsManyStreams
<1>2. Len(stack) \in DOMAIN stack /\ Len(stack) \in 1 .. Len(outs) BY <1>1
<1>3. outs[Len(stack)] \in OStream BY <1>2, ElementOfSeq DEF IInv, Streams
<1>4. Top = stack[Len(stack)] /\ Out = outs[Len(stack)] BY <1>1 DEF Top, Out
<1>5. IsFrame(stack[Len(stack)]) /\ Allowed(stack[Len(stack)], outs[Len(stack)])
  BY <1>2 DEF IInv, Calls
<1> QED BY <1>1, <1>2, <1>3, <1>4, <1>5

\* A step of the innermost call.
LEMMA TopStep ==
  ASSUME IInv, stack # <<>>, NEW g, SetTop(g), IsFrame(g), Allowed(g, Out),
         source' = source, Len(outs') = Len(outs),
         \A k \in DOMAIN outs : Sizing(outs'[k]) <=> Sizing(outs[k])
  PROVE  Calls'
<1> DEFINE n == Len(stack)
<1>1. /\ n \in Nat \ {0} /\ Len(outs) = n
      /\ DOMAIN stack = 1 .. n /\ DOMAIN outs = 1 .. n
  BY AsManyStreams
<1>2. LET t == [stack EXCEPT ![Len(stack)] = g] IN
        /\ IsSeq(t)
        /\ Len(t) = Len(stack) /\ Len(stack) \in Nat \ {0}
        /\ \A k \in 1 .. Len(stack) - 1 : t[k] = stack[k]
        /\ t[Len(stack)] = g
        /\ DOMAIN stack = 1 .. Len(stack) /\ DOMAIN t = 1 .. Len(stack)
  <2>1. IsSeq(stack) /\ stack # <<>> BY DEF IInv, Calls
  <2> QED BY ONLY <2>1, Replaced, Zenon
<1>3. stack' = [stack EXCEPT ![Len(stack)] = g] BY DEF SetTop
<1>4. /\ IsSeq(stack') /\ Len(stack') = n /\ DOMAIN stack' = 1 .. n
      /\ \A k \in 1 .. n - 1 : stack'[k] = stack[k]
      /\ stack'[n] = g
  BY ONLY <1>2, <1>3, Zenon
<1>5. Out = outs[n] BY <1>1 DEF Out
<1> HIDE DEF n
<1>6. ASSUME NEW k \in 1 .. n PROVE IsFrame(stack'[k]) /\ Allowed(stack'[k], outs'[k])
  <2>1. Sizing(outs'[k]) <=> Sizing(outs[k]) BY <1>1, <1>6
  <2>2. CASE k = n BY <2>1, <2>2, <1>4, <1>5 DEF Allowed
  <2>3. CASE k # n
    <3>1. k \in 1 .. n - 1 BY <1>1, <1>6, <2>3
    <3>2. stack'[k] = stack[k] BY <1>4, <3>1
    <3>3. IsFrame(stack[k]) /\ Allowed(stack[k], outs[k]) BY <1>1, <1>6 DEF IInv, Calls
    <3> QED BY <2>1, <3>2, <3>3 DEF Allowed
  <2> QED BY <2>2, <2>3
<1>7. ASSUME NEW k \in 1 .. n - 1 PROVE Waits(stack'[k])
  BY <1>4, <1>7 DEF IInv, Calls, n
<1>8. Len(outs') = n BY <1>1
<1>9. source' \in DOMAIN Sources BY DEF IInv, Calls
<1>10. n \in Nat BY <1>1
<1> QED BY <1>4, <1>6, <1>7, <1>8, <1>9, <1>10, CallsAfter

\* ... that writes nothing.
LEMMA QuietStep ==
  ASSUME IInv, stack # <<>>, NEW g, SetTop(g), IsFrame(g), Allowed(g, Out),
         UNCHANGED <<source, bufsize, buffer, outs>>
  PROVE  Calls' /\ OutputSteps
<1>1. Calls' BY TopStep
<1>2. UNCHANGED Output!vars BY DEF Output!vars
<1> QED BY <1>1, <1>2 DEF OutputSteps

\* ... that writes some bytes, or fails to.
LEMMA WriteStep ==
  ASSUME IInv, stack # <<>>, NEW bytes, IsSeq(bytes),
         NEW g, IsFrame(g), Allowed(g, Out), NEW h, IsFrame(h), Allowed(h, Out),
         pb_write(bytes, g, h), UNCHANGED <<source, bufsize>>
  PROVE  Calls' /\ OutputSteps
<1> DEFINE count == Len(bytes)
           places == Places(Out, count)
<1>1. count \in Nat BY LenProperties DEF IsSeq
<1>2. CASE ~(Sizing(Out) \/ HasRoom(Out, count))
  <2>1. SetTop(h) /\ UNCHANGED <<outs, buffer>> BY <1>2 DEF pb_write
  <2> QED BY <2>1, QuietStep
<1>3. CASE Sizing(Out) \/ HasRoom(Out, count)
  <2>1. /\ outs' = [outs EXCEPT ![Len(outs)] = Wrote(Out, count)]
        /\ buffer' = [a \in DOMAIN buffer \cup places |->
                         IF a \in places THEN bytes[a - Out.state] ELSE buffer[a]]
        /\ SetTop(g)
    BY <1>3 DEF pb_write
  <2>2. DOMAIN buffer' = DOMAIN buffer \cup Places(Out, count) BY <2>1
  <2> HIDE DEF count
  <2>3. Output!Write(count)
    <3>1. outs # <<>> BY AsManyStreams
    <3>2. Output!Sizing(Out) \/ Output!HasRoom(Out, count)
      BY <1>3 DEF Output!Sizing, Output!HasRoom, Sizing, HasRoom
    <3>3. Output!Wrote(Out, count) = Wrote(Out, count)
      BY DEF Output!Wrote, Wrote, Output!Sizing, Sizing
    <3>4. Output!Places(Out, count) = Places(Out, count)
      BY DEF Output!Places, Places, Output!Sizing, Sizing
    <3>5. Output!Out = Out BY DEF Output!Out, Out
    <3> QED BY <2>1, <2>2, <3>1, <3>2, <3>3, <3>4, <3>5 DEF Output!Write
  <2>4. Out \in OStream BY TopCall
  <2>5. Wrote(Out, count).of = Out.of BY <2>4 DEF Wrote, OStream
  <2>6. Len(outs') = Len(outs) /\ \A k \in DOMAIN outs : Sizing(outs'[k]) <=> Sizing(outs[k])
    <3>1. outs \in Seq(OStream) BY DEF IInv, Streams
    <3>2. DOMAIN outs' = DOMAIN outs /\ Len(outs') = Len(outs) BY <2>1, <3>1
    <3>3. \A k \in DOMAIN outs : outs'[k].of = outs[k].of
      <4> TAKE k \in DOMAIN outs
      <4> HIDE DEF count
      <4>1. CASE k = Len(outs) BY <2>1, <2>5, <4>1 DEF Out
      <4>2. CASE k # Len(outs) BY <2>1, <4>2
      <4> QED BY <4>1, <4>2
    <3> QED BY <3>2, <3>3 DEF Sizing
  <2>7. Calls' BY <2>1, <2>6, TopStep
  <2> QED BY <1>1, <2>3, <2>7 DEF OutputSteps, OutputStep, count
<1> QED BY <1>2, <1>3

\* A call for a submessage.
LEMMA PushStep ==
  ASSUME IInv, stack # <<>>, Waits(Top), NEW h, IsFrame(h), NEW s, Allowed(h, s),
         s \in OStream, stack' = Append(stack, h), outs' = Append(outs, s), source' = source
  PROVE  Calls'
<1> DEFINE n == Len(stack)
<1>1. /\ n \in Nat \ {0} /\ Len(outs) = n
      /\ DOMAIN stack = 1 .. n /\ DOMAIN outs = 1 .. n
  BY AsManyStreams
<1>2. LET t == Append(stack, h) IN
        /\ IsSeq(t)
        /\ Len(t) = Len(stack) + 1 /\ Len(stack) \in Nat
        /\ \A k \in 1 .. Len(stack) : t[k] = stack[k]
        /\ t[Len(stack) + 1] = h
        /\ DOMAIN stack = 1 .. Len(stack) /\ DOMAIN t = 1 .. Len(stack) + 1
  <2>1. IsSeq(stack) BY DEF IInv, Calls
  <2> QED BY ONLY <2>1, Pushed, Zenon
<1>3. /\ IsSeq(stack') /\ Len(stack') = n + 1 /\ DOMAIN stack' = 1 .. n + 1
      /\ \A k \in 1 .. n : stack'[k] = stack[k]
      /\ stack'[n + 1] = h
  <2>1. stack' = Append(stack, h) OBVIOUS
  <2> QED BY ONLY <1>2, <2>1, Zenon
<1>4. /\ Len(outs') = n + 1
      /\ \A k \in 1 .. n : outs'[k] = outs[k]
      /\ outs'[n + 1] = s
  <2>1. outs \in Seq(OStream) BY DEF IInv, Streams
  <2> QED BY <1>1, <2>1, AppendProperties
<1>5. Top = stack[n] BY DEF Top
<1> HIDE DEF n
<1>6. ASSUME NEW k \in 1 .. n + 1 PROVE IsFrame(stack'[k]) /\ Allowed(stack'[k], outs'[k])
  <2>1. CASE k = n + 1 BY <2>1, <1>3, <1>4
  <2>2. CASE k # n + 1
    <3>1. k \in 1 .. n BY <1>1, <1>6, <2>2
    <3>2. stack'[k] = stack[k] /\ outs'[k] = outs[k] BY <1>3, <1>4, <3>1
    <3> QED BY <1>1, <3>1, <3>2 DEF IInv, Calls
  <2> QED BY <2>1, <2>2
<1>7. ASSUME NEW k \in 1 .. n PROVE Waits(stack'[k])
  <2>1. stack'[k] = stack[k] BY <1>3
  <2>2. CASE k = n BY <2>1, <2>2, <1>5
  <2>3. CASE k # n
    <3>1. k \in 1 .. n - 1 BY <1>1, <1>7, <2>3
    <3> QED BY <2>1, <3>1 DEF IInv, Calls, n
  <2> QED BY <2>2, <2>3
<1>9. source' \in DOMAIN Sources BY DEF IInv, Calls
<1>10. PICK j \in Nat : j = n + 1 BY <1>1
<1>8. j - 1 = n BY <1>1, <1>10
<1>11. \A k \in 1 .. j - 1 : Waits(stack'[k]) BY <1>7, <1>8
<1>12. \A k \in 1 .. j : IsFrame(stack'[k]) /\ Allowed(stack'[k], outs'[k]) BY <1>6, <1>10
<1>13. Len(stack') = j /\ Len(outs') = j /\ DOMAIN stack' = 1 .. j /\ IsSeq(stack')
  BY <1>3, <1>4, <1>10
<1> QED BY <1>9, <1>11, <1>12, <1>13, CallsAfter

\* A return from a submessage.
LEMMA ReturnStep ==
  ASSUME IInv, Len(stack) > 1, NEW g, IsFrame(g), Allowed(g, outs[Len(stack) - 1]),
         stack' = Append(SubSeq(stack, 1, Len(stack) - 2), g), source' = source,
         Len(outs') = Len(stack) - 1,
         \A k \in 1 .. Len(stack) - 1 : Sizing(outs'[k]) <=> Sizing(outs[k])
  PROVE  Calls'
<1>1. /\ Len(stack) \in Nat \ {0} /\ Len(outs) = Len(stack)
      /\ DOMAIN stack = 1 .. Len(stack) /\ DOMAIN outs = 1 .. Len(stack)
  BY AsManyStreams
<1>2. PICK m \in Nat : Len(stack) = m + 2
  <2>1. Len(stack) - 2 \in Nat /\ Len(stack) = (Len(stack) - 2) + 2 BY <1>1
  <2> QED BY <2>1
<1>3. LET t == Append(SubSeq(stack, 1, Len(stack) - 2), g)
          n == Len(stack) - 1
      IN  /\ IsSeq(t)
          /\ Len(t) = n /\ n \in Nat \ {0} /\ Len(stack) = n + 1
          /\ \A k \in 1 .. n - 1 : t[k] = stack[k]
          /\ t[n] = g
          /\ DOMAIN stack = 1 .. n + 1 /\ DOMAIN t = 1 .. n
  <2>1. IsSeq(stack) /\ Len(stack) > 1 BY DEF IInv, Calls
  <2> QED BY ONLY <2>1, Popped, Zenon
<1>4. stack' = Append(SubSeq(stack, 1, Len(stack) - 2), g) OBVIOUS
<1> DEFINE n == Len(stack) - 1
<1>5. /\ IsSeq(stack') /\ Len(stack') = n /\ DOMAIN stack' = 1 .. n
      /\ \A k \in 1 .. n - 1 : stack'[k] = stack[k]
      /\ stack'[n] = g
  BY ONLY <1>3, <1>4, Zenon
<1>6. /\ IsSeq(stack') /\ Len(stack') = m + 1 /\ DOMAIN stack' = 1 .. m + 1
      /\ \A k \in 1 .. m : stack'[k] = stack[k]
      /\ stack'[m + 1] = g
  <2>1. n = m + 1 /\ n - 1 = m BY <1>2
  <2> HIDE DEF n
  <2> QED BY <1>5, <2>1
<1>7. Len(stack) - 1 = m + 1 BY <1>2
<1>8. ASSUME NEW k \in 1 .. m + 1 PROVE IsFrame(stack'[k]) /\ Allowed(stack'[k], outs'[k])
  <2>1. Sizing(outs'[k]) <=> Sizing(outs[k]) BY <1>7, <1>8
  <2>2. CASE k = m + 1 BY <2>1, <2>2, <1>6, <1>7 DEF Allowed
  <2>3. CASE k # m + 1
    <3>1. k \in 1 .. m /\ k \in DOMAIN stack BY <1>1, <1>2, <1>8, <2>3
    <3>2. stack'[k] = stack[k] BY <1>6, <3>1
    <3>3. IsFrame(stack[k]) /\ Allowed(stack[k], outs[k]) BY <3>1 DEF IInv, Calls
    <3> QED BY <2>1, <3>2, <3>3 DEF Allowed
  <2> QED BY <2>2, <2>3
<1>9. ASSUME NEW k \in 1 .. m PROVE Waits(stack'[k])
  <2>1. stack'[k] = stack[k] /\ k \in 1 .. Len(stack) - 1 BY <1>6, <1>7
  <2> QED BY <2>1 DEF IInv, Calls
<1>10. m + 1 - 1 = m /\ Len(outs') = m + 1 BY <1>7
<1>11. source' \in DOMAIN Sources BY DEF IInv, Calls
<1>12. PICK j \in Nat : j = m + 1 OBVIOUS
<1>13. \A k \in 1 .. j - 1 : Waits(stack'[k]) BY <1>9, <1>10, <1>12
<1>14. \A k \in 1 .. j : IsFrame(stack'[k]) /\ Allowed(stack'[k], outs'[k]) BY <1>8, <1>12
<1>15. Len(stack') = j /\ Len(outs') = j /\ DOMAIN stack' = 1 .. j /\ IsSeq(stack')
  BY <1>6, <1>10, <1>12
<1> QED BY <1>11, <1>13, <1>14, <1>15, CallsAfter

-----------------------------------------------------------------------------
\* The actions, each with what it does to the calls and to the streams.

\* The first item of a list and the others.
LEMMA ListParts ==
  ASSUME NEW todo, IsList(todo), todo # <<>>
  PROVE  /\ IsItem(Head(todo)) /\ IsList(Tail(todo))
         /\ IsPlan(todo) => IsPlan(Tail(todo)) /\ Head(todo).do # "body"
<1>1. ASSUME NEW S, todo \in Seq(S) PROVE Head(todo) \in S /\ Tail(todo) \in Seq(S)
  BY <1>1, HeadTailProperties
<1>2. PICK S : todo \in Seq(S) /\ \A i \in S : IsItem(i) BY DEF IsList
<1>3. IsItem(Head(todo)) /\ IsList(Tail(todo)) BY <1>1, <1>2 DEF IsList
<1>4. ASSUME IsPlan(todo) PROVE IsPlan(Tail(todo)) /\ Head(todo).do # "body"
  <2>1. PICK T : todo \in Seq(T) /\ \A i \in T : IsItem(i) /\ i.do # "body"
    BY <1>4 DEF IsPlan
  <2> QED BY <1>1, <2>1 DEF IsPlan
<1> QED BY <1>3, <1>4

\* What is allowed, in terms of plans.
LEMMA AllowedPlan ==
  ASSUME NEW f, IsList(f.todo), NEW s
  PROVE  Allowed(f, s) <=> (Sizing(s) => IsPlan(f.todo))
BY PlanIsList DEF Allowed

\* The frame that a call begins with.
LEMMA FrameTyped ==
  ASSUME NEW msg \in DOMAIN Structs, NEW base
  PROVE  LET f == Frame(msg, base) IN IsFrame(f) /\ IsPlan(f.todo)
<1> DEFINE f == Frame(msg, base)
<1>1. /\ DOMAIN f = FrameFields /\ f.msg = msg /\ f.it = pb_field_iter_begin(msg, base)
      /\ f.at \in {"done", "field"} /\ f.then = "next" /\ f.ext = 0 /\ f.todo = <<>>
  BY DEF Frame, FrameFields
<1>2. f.it.pos = 1 /\ "pos" \in DOMAIN f.it
  BY <1>1 DEF pb_field_iter_begin, BeginAt, Iter
<1>3. FieldCount(msg) \in Nat
  <2>1. Structs[msg] \in Seq(Member) BY LayoutAssumption DEF WellLaidOut
  <2> QED BY <2>1, LenProperties DEF FieldCount
<1>4. IsPlan(<<>>) /\ IsList(<<>>) BY NoItems, PlanIsList
<1> HIDE DEF f
<1>5. 1 \in 1 .. FieldCount(msg) + 1 BY <1>3
<1>6. IsFrame(f) BY <1>1, <1>2, <1>4, <1>5 DEF IsFrame
<1> QED BY <1>1, <1>4, <1>6 DEF f

\* A frame that only goes on to something else.
LEMMA FrameMoved ==
  ASSUME NEW f, IsFrame(f), NEW s, Allowed(f, s), NEW g, DOMAIN g = FrameFields,
         g.msg = f.msg, g.it = f.it, g.todo = f.todo, g.ext \in Nat,
         "extension" \in {g.at, g.then} => g.ext # 0
  PROVE  IsFrame(g) /\ Allowed(g, s)
BY DEF IsFrame, Allowed

\* A frame with something else to do.
LEMMA FramePlanned ==
  ASSUME NEW f, IsFrame(f), NEW s, NEW todo, IsPlan(todo),
         NEW then, then = "extension" => f.ext # 0
  PROVE  LET g == [f EXCEPT !.at = "write", !.todo = todo, !.then = then] IN
           IsFrame(g) /\ Allowed(g, s)
<1> DEFINE g == [f EXCEPT !.at = "write", !.todo = todo, !.then = then]
<1>1. /\ DOMAIN g = FrameFields /\ g.msg = f.msg /\ g.it = f.it /\ g.ext = f.ext
      /\ g.at = "write" /\ g.then = then /\ g.todo = todo
  BY DEF IsFrame, FrameFields
<1> HIDE DEF g
<1>2. IsList(todo) BY PlanIsList
<1>3. IsFrame(g) BY <1>1, <1>2 DEF IsFrame
<1>4. Allowed(g, s) BY <1>1, <1>2, AllowedPlan
<1> QED BY <1>3, <1>4 DEF g

\* A call gets the stream that its entry makes, and a frame for the struct.
LEMMA CallSteps == ASSUME IInv, Call PROVE Calls' /\ OutputSteps
<1> DEFINE f == Frame(Struct.msg, 1)
           todo == <<Submessage(Struct.msg, 1)>>
           g == [f EXCEPT !.at = "write", !.then = "closed", !.todo = todo]
           h == IF entry = "pb_encode_delimited" THEN g ELSE f
           s == IF entry = "pb_get_encoded_size" THEN PB_OSTREAM_SIZING
                ELSE pb_ostream_from_buffer(bufsize)
<1>1. stack' = <<h>> /\ outs' = <<s>> /\ UNCHANGED <<source, bufsize, buffer>>
  BY DEF Call
<1>2. Struct.msg \in DOMAIN Structs
  BY SourcesAssumption DEF Struct, AllStructs, IInv, Calls
<1>3. IsFrame(f) /\ IsPlan(f.todo) BY <1>2, FrameTyped
<1>4. IsPlan(todo)
  <2>1. IsItem(Submessage(Struct.msg, 1)) /\ Submessage(Struct.msg, 1).do # "body"
    BY <1>2, ItemsAreItems
  <2> QED BY <2>1, OneItem
<1> HIDE DEF f, todo
<1>5. IsFrame(g) /\ IsPlan(g.todo)
  <2>1. /\ DOMAIN g = FrameFields /\ g.msg = f.msg /\ g.it = f.it /\ g.ext = f.ext
        /\ g.at = "write" /\ g.then = "closed" /\ g.todo = todo
    BY <1>3 DEF IsFrame, FrameFields
  <2> HIDE DEF g
  <2>2. IsList(todo) BY <1>4, PlanIsList
  <2> QED BY <1>3, <1>4, <2>1, <2>2 DEF IsFrame
<1> HIDE DEF g
<1>6. IsFrame(h) /\ IsPlan(h.todo) BY <1>3, <1>5
<1> HIDE DEF h
<1>7. Allowed(h, s) BY <1>6, PlanIsList, AllowedPlan
<1>8. Calls'
  <2> HIDE DEF s
  <2>1. source' \in DOMAIN Sources BY <1>1 DEF IInv, Calls
  <2>2. IsSeq(<<h>>)
    <3>1. <<h>> \in Seq({h}) OBVIOUS
    <3> DEFINE p == <<h>>
    <3> HIDE DEF p
    <3>2. IsSeq(p) BY <3>1 DEF IsSeq, p
    <3> QED BY <3>2 DEF p
  <2>3. Len(stack') = 1 /\ Len(outs') = 1 /\ DOMAIN stack' = 1 .. 1 BY <1>1
  <2>4. \A k \in 1 .. 1 : IsFrame(stack'[k]) /\ Allowed(stack'[k], outs'[k])
    BY <1>1, <1>6, <1>7
  <2>5. \A k \in 1 .. 1 - 1 : Waits(stack'[k]) OBVIOUS
  <2>6. 1 \in Nat OBVIOUS
  <2>7. IsSeq(stack') BY <1>1, <2>2
  <2> QED BY <2>1, <2>3, <2>4, <2>5, <2>6, <2>7, CallsAfter
<1>9. Output!Open
  <2>1. outs = <<>> BY AsManyStreams DEF Call
  <2>2. s \in {Output!PB_OSTREAM_SIZING, Output!pb_ostream_from_buffer(bufsize)}
    BY DEF Output!PB_OSTREAM_SIZING, PB_OSTREAM_SIZING, Output!pb_ostream_from_buffer,
           pb_ostream_from_buffer
  <2> HIDE DEF s
  <2> QED BY <1>1, <2>1, <2>2 DEF Output!Open
<1> QED BY <1>8, <1>9 DEF OutputSteps, OutputStep

\* A field, by the type of its description.
LEMMA EncodeFieldSteps == ASSUME IInv, EncodeField PROVE Calls' /\ OutputSteps
<1>0. stack # <<>> /\ UNCHANGED <<source, bufsize, buffer, outs>> BY DEF EncodeField, At
<1>1. IsFrame(Top) /\ Allowed(Top, Out) BY <1>0, TopCall
<1>2. IsField(Field(Top)) BY <1>1, FieldTyped DEF Field, IsFrame
<1> DEFINE f == Top
<1>f. IsFrame(f) /\ Allowed(f, Out) BY <1>1
<1> HIDE DEF f
<1>3. CASE SetTop([f EXCEPT !.at = "extension", !.ext = 1])
  <2> DEFINE g == [f EXCEPT !.at = "extension", !.ext = 1]
  <2>1. /\ DOMAIN g = FrameFields /\ g.msg = f.msg /\ g.it = f.it /\ g.todo = f.todo
        /\ g.ext = 1
    BY <1>f DEF IsFrame, FrameFields
  <2>2. SetTop(g) BY <1>3
  <2> HIDE DEF g
  <2>3. IsFrame(g) /\ Allowed(g, Out) BY <1>f, <2>1, FrameMoved
  <2> QED BY <1>0, <2>2, <2>3, QuietStep
<1>4. CASE AskCallback(f, f.it.pData, "next")
  <2> DEFINE g == [f EXCEPT !.at = IF Cell(f.it.pData) = 0 THEN "next" ELSE "callback",
                            !.then = "next", !.chunks = 0]
  <2>1. SetTop(g) BY <1>4 DEF AskCallback
  <2>2. /\ DOMAIN g = FrameFields /\ g.msg = f.msg /\ g.it = f.it /\ g.todo = f.todo
        /\ g.ext = f.ext /\ g.at \in {"next", "callback"} /\ g.then = "next"
    BY <1>f DEF IsFrame, FrameFields
  <2> HIDE DEF g
  <2>3. g.ext \in Nat BY <1>f, <2>2 DEF IsFrame
  <2>4. IsFrame(g) /\ Allowed(g, Out) BY <1>f, <2>2, <2>3, FrameMoved
  <2> QED BY <1>0, <2>1, <2>4, QuietStep
<1>5. CASE Planned(f, encode_basic_field(Field(f), f.it.pData, Sizing(Out)), "next")
  <2> DEFINE todo == encode_basic_field(Field(f), f.it.pData, Sizing(Out))
             g == [f EXCEPT !.at = "write", !.todo = todo, !.then = "next"]
  <2>1. SetTop(g) BY <1>5 DEF Planned
  <2>2. IsPlan(todo) BY <1>2, FieldPlan DEF f
  <2> HIDE DEF todo
  <2>3. IsFrame(g) /\ Allowed(g, Out)
    <3>1. "next" = "extension" => f.ext # 0 OBVIOUS
    <3> QED BY <1>f, <2>2, <3>1, FramePlanned
  <2> HIDE DEF g
  <2> QED BY <1>0, <2>1, <2>3, QuietStep
<1> QED BY <1>3, <1>4, <1>5 DEF EncodeField, f

\* The next field, while there is one.
LEMMA NextFieldSteps == ASSUME IInv, NextField PROVE Calls' /\ OutputSteps
<1>0. stack # <<>> /\ UNCHANGED <<source, bufsize, buffer, outs>> BY DEF NextField, At
<1>1. IsFrame(Top) /\ Allowed(Top, Out) BY <1>0, TopCall
<1> DEFINE f == Top
           it == pb_field_iter_next(f.msg, f.base, f.it)
<1>f. IsFrame(f) /\ Allowed(f, Out) BY <1>1
<1>2. CASE HasNext(f.msg, f.it) /\ SetTop([f EXCEPT !.it = it, !.at = "field"])
  <2>1. FieldCount(f.msg) \in Nat
    <3>1. Structs[f.msg] \in Seq(Member) BY <1>f, LayoutAssumption DEF IsFrame, WellLaidOut
    <3> QED BY <3>1, LenProperties DEF FieldCount
  <2>2. f.it.pos \in 1 .. FieldCount(f.msg) + 1 /\ "pos" \in DOMAIN f.it
    BY <1>f DEF IsFrame
  <2>3. f.it.pos < FieldCount(f.msg) BY <1>2 DEF HasNext
  <2>4. it = Advanced(FieldAt(f.msg, f.it.pos), FieldAt(f.msg, f.it.pos + 1), f.it)
    BY <1>2, <2>1, <2>2, <2>3 DEF pb_field_iter_next
  <2> HIDE DEF it
  <2>5. it.pos = f.it.pos + 1 /\ "pos" \in DOMAIN it
    BY <2>2, <2>4 DEF Advanced, Iter
  <2>6. it.pos \in 1 .. FieldCount(f.msg) + 1 BY <2>1, <2>2, <2>3, <2>5
  <2> DEFINE g == [f EXCEPT !.it = it, !.at = "field"]
  <2> HIDE DEF f
  <2>7. /\ DOMAIN g = FrameFields /\ g.msg = f.msg /\ g.it = it /\ g.todo = f.todo
        /\ g.ext = f.ext /\ g.at = "field" /\ g.then = f.then
    BY <1>f DEF IsFrame, FrameFields
  <2>8. SetTop(g) BY <1>2
  <2> HIDE DEF g
  <2>9. IsFrame(g) /\ Allowed(g, Out) BY <1>f, <2>5, <2>6, <2>7 DEF IsFrame, Allowed
  <2> QED BY <1>0, <2>8, <2>9, QuietStep
<1>3. CASE SetTop([f EXCEPT !.at = "done"])
  <2> DEFINE g == [f EXCEPT !.at = "done"]
  <2> HIDE DEF f
  <2>1. /\ DOMAIN g = FrameFields /\ g.msg = f.msg /\ g.it = f.it /\ g.todo = f.todo
        /\ g.ext = f.ext /\ g.at = "done" /\ g.then = f.then
    BY <1>f DEF IsFrame, FrameFields
  <2>2. SetTop(g) BY <1>3
  <2> HIDE DEF g
  <2>3. g.ext \in Nat /\ ("extension" \in {g.at, g.then} => g.ext # 0)
    BY <1>f, <2>1 DEF IsFrame
  <2>4. IsFrame(g) /\ Allowed(g, Out) BY <1>f, <2>1, <2>3, FrameMoved
  <2> QED BY <1>0, <2>2, <2>4, QuietStep
<1> QED BY <1>2, <1>3 DEF NextField

\* The next extension, while there is one.
LEMMA EncodeExtensionSteps == ASSUME IInv, EncodeExtension PROVE Calls' /\ OutputSteps
<1>0. stack # <<>> /\ UNCHANGED <<source, bufsize, buffer, outs>> BY DEF EncodeExtension, At
<1>1. IsFrame(Top) /\ Allowed(Top, Out) /\ Top.at = "extension"
  BY <1>0, TopCall DEF EncodeExtension, At
<1> DEFINE f == Top
           e == Linked(f)[f.ext]
           g == [f EXCEPT !.ext = @ + 1]
<1>f. IsFrame(f) /\ Allowed(f, Out) /\ f.ext \in Nat \ {0} BY <1>1 DEF IsFrame
<1>e. \/ SetTop([f EXCEPT !.at = "next"])
      \/ SetTop([g EXCEPT !.at = "callback", !.then = "extension", !.chunks = 0])
      \/ AskCallback(g, e.dest, "extension")
      \/ /\ f.ext <= Len(Linked(f))
         /\ Planned(g, encode_basic_field(e.field, e.dest, Sizing(Out)), "extension")
  BY DEF EncodeExtension
<1>2. ASSUME f.ext <= Len(Linked(f)) PROVE IsField(e.field)
  <2>1. Linked(f) \in Seq(Extension)
    <3>1. Extensions[f.msg] \in Seq(Extension) BY <1>f, ExtensionsAssumption DEF IsFrame
    <3>2. <<>> \in Seq(Extension) BY EmptySeq
    <3> QED BY <3>1, <3>2 DEF Linked
  <2>2. Len(Linked(f)) \in Nat BY <2>1, LenProperties
  <2>3. f.ext \in 1 .. Len(Linked(f)) BY <1>2, <1>f, <2>2
  <2>4. e \in Extension BY <2>1, <2>3, ElementOfSeq
  <2> HIDE DEF e
  <2> QED BY <2>4 DEF Extension, IsField
<1> HIDE DEF f, e
<1>g. /\ DOMAIN g = FrameFields /\ g.msg = f.msg /\ g.it = f.it /\ g.todo = f.todo
      /\ g.ext \in Nat \ {0} /\ g.at = f.at /\ g.then = f.then
  BY <1>f DEF IsFrame, FrameFields
<1> HIDE DEF g
<1>3. IsFrame(g) /\ Allowed(g, Out) BY <1>f, <1>g, FrameMoved
<1>4. CASE SetTop([f EXCEPT !.at = "next"])
  <2> DEFINE h == [f EXCEPT !.at = "next"]
  <2>1. /\ DOMAIN h = FrameFields /\ h.msg = f.msg /\ h.it = f.it /\ h.todo = f.todo
        /\ h.ext = f.ext
    BY <1>f DEF IsFrame, FrameFields
  <2>2. SetTop(h) BY <1>4
  <2> HIDE DEF h
  <2>3. IsFrame(h) /\ Allowed(h, Out) BY <1>f, <2>1, FrameMoved
  <2> QED BY <1>0, <2>2, <2>3, QuietStep
<1>5. ASSUME NEW at,
             SetTop([g EXCEPT !.at = at, !.then = "extension", !.chunks = 0])
      PROVE  Calls' /\ OutputSteps
  <2> DEFINE h == [g EXCEPT !.at = at, !.then = "extension", !.chunks = 0]
  <2>1. /\ DOMAIN h = FrameFields /\ h.msg = g.msg /\ h.it = g.it /\ h.todo = g.todo
        /\ h.ext = g.ext
    BY <1>g DEF FrameFields
  <2>2. SetTop(h) BY <1>5
  <2> HIDE DEF h
  <2>3. h.ext \in Nat /\ h.ext # 0 BY <1>g, <2>1
  <2>4. IsFrame(h) /\ Allowed(h, Out) BY <1>3, <2>1, <2>3, FrameMoved
  <2> QED BY <1>0, <2>2, <2>4, QuietStep
<1>6. CASE AskCallback(g, e.dest, "extension") BY <1>5, <1>6 DEF AskCallback
<1>7. CASE /\ f.ext <= Len(Linked(f))
           /\ Planned(g, encode_basic_field(e.field, e.dest, Sizing(Out)), "extension")
  <2> DEFINE todo == encode_basic_field(e.field, e.dest, Sizing(Out))
             h == [g EXCEPT !.at = "write", !.todo = todo, !.then = "extension"]
  <2>1. SetTop(h) BY <1>7 DEF Planned
  <2>2. IsPlan(todo) BY <1>2, <1>7, FieldPlan
  <2> HIDE DEF todo
  <2>3. IsFrame(h) /\ Allowed(h, Out)
    <3>1. "extension" = "extension" => g.ext # 0 BY <1>g
    <3> QED BY <1>3, <2>2, <3>1, FramePlanned
  <2> HIDE DEF h
  <2> QED BY <1>0, <2>1, <2>3, QuietStep
<1> QED BY <1>e, <1>4, <1>5, <1>6, <1>7

\* Whatever a callback writes, and whatever it returns, the stream knows how much it was.
LEMMA CallbackWritesSteps ==
  ASSUME IInv, NEW bytes \in Chunks, CallbackWrites(bytes) PROVE Calls' /\ OutputSteps
<1>0. stack # <<>> /\ UNCHANGED <<source, bufsize>> BY DEF CallbackWrites, At
<1> DEFINE f == Top
           g == [f EXCEPT !.chunks = @ + 1]
<1>1. IsFrame(f) /\ Allowed(f, Out) BY <1>0, TopCall
<1>2. pb_write(bytes, g, g) BY DEF CallbackWrites
<1>3. IsSeq(bytes) BY ChunksAssumption DEF IsSeq
<1> HIDE DEF f
<1>4. /\ DOMAIN g = FrameFields /\ g.msg = f.msg /\ g.it = f.it /\ g.todo = f.todo
      /\ g.ext = f.ext /\ g.at = f.at /\ g.then = f.then
  BY <1>1 DEF IsFrame, FrameFields
<1> HIDE DEF g
<1>5. IsFrame(g) /\ Allowed(g, Out)
  <2>1. g.ext \in Nat /\ ("extension" \in {g.at, g.then} => g.ext # 0)
    BY <1>1, <1>4 DEF IsFrame
  <2> QED BY <1>1, <1>4, <2>1, FrameMoved
<1> QED BY <1>0, <1>2, <1>3, <1>5, WriteStep

\* A call that goes on at some other place.
LEMMA MovedSteps ==
  ASSUME IInv, stack # <<>>, NEW at, at = "extension" => Top.ext # 0,
         SetTop([Top EXCEPT !.at = at]), UNCHANGED <<source, bufsize, buffer, outs>>
  PROVE  Calls' /\ OutputSteps
<1> DEFINE f == Top
           g == [f EXCEPT !.at = at]
<1>1. IsFrame(f) /\ Allowed(f, Out) BY TopCall
<1>2. SetTop(g) OBVIOUS
<1>3. at = "extension" => f.ext # 0 OBVIOUS
<1> HIDE DEF f
<1>4. /\ DOMAIN g = FrameFields /\ g.msg = f.msg /\ g.it = f.it /\ g.todo = f.todo
      /\ g.ext = f.ext /\ g.at = at /\ g.then = f.then
  BY <1>1 DEF IsFrame, FrameFields
<1> HIDE DEF g
<1>5. g.ext \in Nat /\ ("extension" \in {g.at, g.then} => g.ext # 0)
  BY <1>1, <1>3, <1>4 DEF IsFrame
<1>6. IsFrame(g) /\ Allowed(g, Out) BY <1>1, <1>4, <1>5, FrameMoved
<1> QED BY <1>2, <1>6, QuietStep

LEMMA CallbackReturnsSteps ==
  ASSUME IInv, NEW ok, CallbackReturns(ok) PROVE Calls' /\ OutputSteps
<1>0. stack # <<>> /\ UNCHANGED <<source, bufsize, buffer, outs>> BY DEF CallbackReturns, At
<1> DEFINE at == IF ok THEN Top.then ELSE "failed"
<1>1. SetTop([Top EXCEPT !.at = at]) BY DEF CallbackReturns
<1>2. at = "extension" => Top.ext # 0 BY <1>0, TopCall DEF IsFrame
<1> HIDE DEF at
<1> QED BY <1>0, <1>1, <1>2, MovedSteps

LEMMA FieldWrittenSteps == ASSUME IInv, FieldWritten PROVE Calls' /\ OutputSteps
<1>0. stack # <<>> /\ UNCHANGED <<source, bufsize, buffer, outs>> BY DEF FieldWritten, At
<1>1. SetTop([Top EXCEPT !.at = Top.then]) BY DEF FieldWritten
<1>2. Top.then = "extension" => Top.ext # 0 BY <1>0, TopCall DEF IsFrame
<1> QED BY <1>0, <1>1, <1>2, MovedSteps

LEMMA GiveUpSteps == ASSUME IInv, GiveUp PROVE Calls' /\ OutputSteps
<1>0. stack # <<>> /\ UNCHANGED <<source, bufsize, buffer, outs>> BY DEF GiveUp, ToDo, At
<1>1. SetTop([Top EXCEPT !.at = "failed"]) BY DEF GiveUp, Fail
<1> QED BY <1>0, <1>1, MovedSteps

\* What was planned is written, or the call fails.
LEMMA WriteChunkSteps == ASSUME IInv, WriteChunk PROVE Calls' /\ OutputSteps
<1>0. stack # <<>> /\ UNCHANGED <<source, bufsize>> BY DEF WriteChunk, ToDo, At
<1> DEFINE f == Top
           g == [f EXCEPT !.todo = Tail(@)]
           h == [f EXCEPT !.at = "failed"]
           bytes == Head(f.todo).bytes
<1>1. IsFrame(f) /\ Allowed(f, Out) /\ f.todo # <<>> BY <1>0, TopCall DEF WriteChunk, ToDo
<1>2. pb_write(bytes, g, h) BY DEF WriteChunk
<1> HIDE DEF f
<1>3. IsList(f.todo) BY <1>1 DEF IsFrame
<1>4. /\ IsItem(Head(f.todo)) /\ IsList(Tail(f.todo))
      /\ IsPlan(f.todo) => IsPlan(Tail(f.todo))
  BY <1>1, <1>3, ListParts
<1>5. IsSeq(bytes) BY <1>4 DEF IsItem
<1>6. /\ DOMAIN g = FrameFields /\ g.msg = f.msg /\ g.it = f.it /\ g.todo = Tail(f.todo)
      /\ g.ext = f.ext /\ g.at = f.at /\ g.then = f.then
  BY <1>1 DEF IsFrame, FrameFields
<1>7. /\ DOMAIN h = FrameFields /\ h.msg = f.msg /\ h.it = f.it /\ h.todo = f.todo
      /\ h.ext = f.ext /\ h.at = "failed" /\ h.then = f.then
  BY <1>1 DEF IsFrame, FrameFields
<1> HIDE DEF g, h, bytes
<1>8. IsFrame(g) BY <1>1, <1>4, <1>6 DEF IsFrame
<1>9. Allowed(g, Out)
  <2>1. Sizing(Out) => IsPlan(f.todo) BY <1>1, <1>3, AllowedPlan
  <2>2. IsList(g.todo) BY <1>4, <1>6
  <2>3. Sizing(Out) => IsPlan(g.todo) BY <1>4, <1>6, <2>1
  <2> QED BY <2>2, <2>3, AllowedPlan
<1>10. IsFrame(h) /\ Allowed(h, Out)
  <2>1. h.ext \in Nat /\ ("extension" \in {h.at, h.then} => h.ext # 0)
    BY <1>1, <1>7 DEF IsFrame
  <2> QED BY <1>1, <1>7, <2>1, FrameMoved
<1> QED BY <1>0, <1>2, <1>5, <1>8, <1>9, <1>10, WriteStep

\* The zero of pb_encode_nullterminated().
LEMMA TerminateSteps == ASSUME IInv, Terminate PROVE Calls' /\ OutputSteps
<1>0. stack # <<>> /\ UNCHANGED <<source, bufsize, buffer, outs>> BY DEF Terminate, At
<1> DEFINE f == Top
           zero == <<0>>
           todo == <<Write(zero)>>
           g == [f EXCEPT !.at = "write", !.todo = todo, !.then = "closed"]
<1>1. SetTop(g) BY DEF Terminate, Planned
<1>2. IsFrame(f) BY <1>0, TopCall
<1> HIDE DEF f
<1>3. IsSeq(zero)
  <2>1. zero \in Seq({0}) OBVIOUS
  <2> HIDE DEF zero
  <2> QED BY <2>1 DEF IsSeq
<1> HIDE DEF zero
<1>4. IsPlan(todo)
  <2>1. IsItem(Write(zero)) /\ Write(zero).do # "body" BY <1>3, ItemsAreItems
  <2> QED BY <2>1, OneItem
<1> HIDE DEF todo
<1>5. IsFrame(g) /\ Allowed(g, Out)
  <2>1. "closed" = "extension" => f.ext # 0 OBVIOUS
  <2> QED BY <1>2, <1>4, <2>1, FramePlanned
<1> HIDE DEF g
<1> QED BY <1>0, <1>1, <1>5, QuietStep

\* The first pass over a submessage only counts.
LEMMA SizeSubmessageSteps == ASSUME IInv, SizeSubmessage PROVE Calls' /\ OutputSteps
<1>0. /\ stack # <<>> /\ UNCHANGED <<source, bufsize, buffer>>
      /\ Top.todo # <<>> /\ Head(Top.todo).do = "submessage"
  BY DEF SizeSubmessage, ToDo, At
<1> DEFINE item == Head(Top.todo)
           h == Frame(item.msg, item.base)
<1>1. stack' = Append(stack, h) /\ outs' = Append(outs, PB_OSTREAM_SIZING)
  BY DEF SizeSubmessage
<1>2. IsFrame(Top) BY <1>0, TopCall
<1>3. IsItem(item) BY <1>0, <1>2, ListParts DEF IsFrame
<1>4. item.msg \in DOMAIN Structs BY <1>0, <1>3 DEF IsItem
<1>5. IsFrame(h) /\ IsPlan(h.todo)
  <2> HIDE DEF item
  <2> QED BY <1>4, FrameTyped
<1> HIDE DEF h
<1>6. Allowed(h, PB_OSTREAM_SIZING) BY <1>5, PlanIsList, AllowedPlan
<1>7. PB_OSTREAM_SIZING \in OStream BY DEF PB_OSTREAM_SIZING, OStream
<1>8. Waits(Top) BY <1>0 DEF Waits
<1>9. Calls' BY <1>0, <1>1, <1>5, <1>6, <1>7, <1>8, PushStep
<1>10. Output!SizePass
  <2>1. outs # <<>> BY <1>0, AsManyStreams
  <2> QED BY <1>0, <1>1, <2>1 DEF Output!SizePass, Output!PB_OSTREAM_SIZING, PB_OSTREAM_SIZING
<1> QED BY <1>9, <1>10 DEF OutputSteps, OutputStep

\* The second one writes to a stream of its own, inside one that writes.
LEMMA WriteSubmessageSteps == ASSUME IInv, WriteSubmessage PROVE Calls' /\ OutputSteps
<1>0. /\ stack # <<>> /\ UNCHANGED <<source, bufsize, buffer>>
      /\ Top.todo # <<>> /\ Head(Top.todo).do = "body"
  BY DEF WriteSubmessage, ToDo, At
<1> DEFINE item == Head(Top.todo)
           h == Frame(item.msg, item.base)
           s == SubStream(Out, item.size)
<1>1. IsFrame(Top) /\ Allowed(Top, Out) /\ Out \in OStream BY <1>0, TopCall
<1>2. IsItem(item) /\ ~IsPlan(Top.todo) BY <1>0, <1>1, ListParts DEF IsFrame
<1>3. item.msg \in DOMAIN Structs /\ item.size \in Nat BY <1>0, <1>2 DEF IsItem
<1>4. ~Sizing(Out) BY <1>1, <1>2, AllowedPlan DEF IsFrame
<1>5. CASE ~BodyFits(item.size)
  <2>1. SetTop([Top EXCEPT !.at = "failed"]) /\ UNCHANGED outs
    BY <1>5 DEF WriteSubmessage, Fail
  <2> QED BY <1>0, <2>1, MovedSteps
<1>6. CASE BodyFits(item.size)
  <2>1. stack' = Append(stack, h) /\ outs' = Append(outs, s)
    BY <1>6 DEF WriteSubmessage
  <2>2. IsFrame(h) /\ IsPlan(h.todo)
    <3> HIDE DEF item
    <3> QED BY <1>3, FrameTyped
  <2> HIDE DEF item, h
  <2>3. s \in OStream BY <1>1, <1>3 DEF SubStream, OStream
  <2>4. Output!WritePass(item.size)
    <3>1. outs # <<>> BY <1>0, AsManyStreams
    <3>2. ~Output!Sizing(Output!Out) BY <1>4 DEF Output!Sizing, Sizing, Output!Out, Out
    <3>3. Output!HasRoom(Output!Out, item.size)
      BY <1>6 DEF Output!HasRoom, HasRoom, Output!Out, Out, BodyFits
    <3>4. Output!SubStream(Output!Out, item.size) = s
      BY DEF Output!SubStream, SubStream, Output!Out, Out
    <3> HIDE DEF s
    <3> QED BY <1>0, <2>1, <3>1, <3>2, <3>3, <3>4 DEF Output!WritePass
  <2> HIDE DEF s
  <2>5. Allowed(h, s) BY <2>2, PlanIsList, AllowedPlan
  <2>6. Waits(Top) BY <1>0 DEF Waits
  <2>7. Calls' BY <1>0, <2>1, <2>2, <2>3, <2>5, <2>6, PushStep
  <2> QED BY <1>3, <2>4, <2>7 DEF OutputSteps, OutputStep
<1> QED BY <1>5, <1>6

\* A return to the caller closes its stream.
LEMMA ReturnToCallerSteps == ASSUME IInv, ReturnToCaller PROVE Calls' /\ OutputSteps
<1>1. Len(stack) = 1 /\ stack' = <<>> /\ outs' = <<>> /\ UNCHANGED <<source, bufsize, buffer>>
  BY DEF ReturnToCaller
<1>2. Calls'
  <2>1. source' \in DOMAIN Sources BY <1>1 DEF IInv, Calls
  <2>2. IsSeq(stack')
    <3>1. stack' \in Seq({}) BY <1>1, EmptySeq
    <3> QED BY ONLY <3>1 DEF IsSeq
  <2>3. Len(stack') = 0 /\ Len(outs') = 0 /\ DOMAIN stack' = 1 .. 0 BY <1>1
  <2>4. \A k \in 1 .. 0 : IsFrame(stack'[k]) /\ Allowed(stack'[k], outs'[k]) OBVIOUS
  <2>5. \A k \in 1 .. 0 - 1 : Waits(stack'[k]) OBVIOUS
  <2>6. 0 \in Nat OBVIOUS
  <2> QED BY <2>1, <2>2, <2>3, <2>4, <2>5, <2>6, CallsAfter
<1>3. Output!Close
  <2>1. Len(outs) = 1 BY <1>1, AsManyStreams
  <2> QED BY <1>1, <2>1 DEF Output!Close
<1> QED BY <1>2, <1>3 DEF OutputSteps, OutputStep

\* When the size of a submessage is known, it is a plan again but for the body.
LEMMA SizedTyped ==
  ASSUME NEW f, IsFrame(f), Waits(f), NEW s, Allowed(f, s), NEW size \in Nat
  PROVE  LET g == Sized(f, size, Sizing(s)) IN IsFrame(g) /\ Allowed(g, s)
<1> DEFINE zeros == [k \in 1 .. size |-> 0]
           item == IF Sizing(s) THEN Write(zeros) ELSE Body(Head(f.todo), size)
           begin == << Varint(size), item >>
           todo == begin \o Tail(f.todo)
           g == [f EXCEPT !.todo = todo]
<1>1. Sized(f, size, Sizing(s)) = g BY DEF Sized
<1>2. IsList(f.todo) /\ f.todo # <<>> /\ Head(f.todo).do \in {"submessage", "body"}
  BY DEF IsFrame, Waits
<1>3. /\ IsItem(Head(f.todo)) /\ IsList(Tail(f.todo))
      /\ IsPlan(f.todo) => IsPlan(Tail(f.todo))
  BY <1>2, ListParts
<1>4. Head(f.todo).msg \in DOMAIN Structs BY <1>2, <1>3 DEF IsItem
<1>5. IsItem(Varint(size)) /\ Varint(size).do # "body" BY VarintItem
<1>6. IsItem(item) /\ (Sizing(s) => item.do # "body")
  <2>1. IsSeq(zeros) BY ZerosAreBytes
  <2> HIDE DEF zeros
  <2>2. IsItem(Write(zeros)) /\ Write(zeros).do # "body" BY <2>1, ItemsAreItems
  <2>3. IsItem(Body(Head(f.todo), size)) BY <1>3, <1>4, ItemsAreItems
  <2> QED BY <2>2, <2>3
<1> HIDE DEF item
<1>7. IsList(begin)
  <2> DEFINE v == Varint(size)
  <2>v. IsItem(v) BY <1>5
  <2> HIDE DEF v
  <2>1. <<v, item>> \in Seq({v, item}) /\ \A i \in {v, item} : IsItem(i) BY <2>v, <1>6
  <2> DEFINE p == <<v, item>>
  <2>2. p \in Seq({v, item}) BY <2>1
  <2> HIDE DEF p
  <2>3. IsList(p) BY <2>1, <2>2 DEF IsList
  <2> QED BY <2>3 DEF p, v
<1>8. Sizing(s) => IsPlan(begin) BY <1>5, <1>6, TwoItems
<1> HIDE DEF begin
<1>9. IsList(todo) BY <1>3, <1>7, ListsJoined
<1>10. Sizing(s) => IsPlan(todo)
  <2>1. Sizing(s) => IsPlan(f.todo) BY <1>2, AllowedPlan
  <2> QED BY <1>3, <1>8, <2>1, PlansJoined
<1> HIDE DEF todo
<1>11. /\ DOMAIN g = FrameFields /\ g.msg = f.msg /\ g.it = f.it /\ g.todo = todo
       /\ g.ext = f.ext /\ g.at = f.at /\ g.then = f.then
  BY DEF IsFrame, FrameFields
<1> HIDE DEF g
<1>12. IsFrame(g) BY <1>9, <1>11 DEF IsFrame
<1>13. Allowed(g, s)
  <2>1. IsList(g.todo) /\ (Sizing(s) => IsPlan(g.todo)) BY <1>9, <1>10, <1>11
  <2> QED BY <2>1, AllowedPlan
<1> QED BY <1>1, <1>12, <1>13

\* A frame that is left without its first item, or that fails.
LEMMA FrameLeft ==
  ASSUME NEW f, IsFrame(f), Waits(f), NEW s, Allowed(f, s)
  PROVE  /\ IsFrame([f EXCEPT !.at = "failed"]) /\ Allowed([f EXCEPT !.at = "failed"], s)
         /\ IsFrame([f EXCEPT !.todo = Tail(@)]) /\ Allowed([f EXCEPT !.todo = Tail(@)], s)
<1> DEFINE g == [f EXCEPT !.todo = Tail(@)]
           h == [f EXCEPT !.at = "failed"]
<1>1. IsList(f.todo) /\ f.todo # <<>> BY DEF IsFrame, Waits
<1>2. IsList(Tail(f.todo)) /\ (IsPlan(f.todo) => IsPlan(Tail(f.todo))) BY <1>1, ListParts
<1>3. /\ DOMAIN g = FrameFields /\ g.msg = f.msg /\ g.it = f.it /\ g.todo = Tail(f.todo)
      /\ g.ext = f.ext /\ g.at = f.at /\ g.then = f.then
  BY DEF IsFrame, FrameFields
<1>4. /\ DOMAIN h = FrameFields /\ h.msg = f.msg /\ h.it = f.it /\ h.todo = f.todo
      /\ h.ext = f.ext /\ h.at = "failed" /\ h.then = f.then
  BY DEF IsFrame, FrameFields
<1> HIDE DEF g, h
<1>5. IsFrame(g) BY <1>2, <1>3 DEF IsFrame
<1>6. Allowed(g, s)
  <2>1. Sizing(s) => IsPlan(f.todo) BY <1>1, AllowedPlan
  <2>2. IsList(g.todo) /\ (Sizing(s) => IsPlan(g.todo)) BY <1>2, <1>3, <2>1
  <2> QED BY <2>2, AllowedPlan
<1>7. IsFrame(h) /\ Allowed(h, s)
  <2>1. h.ext \in Nat /\ ("extension" \in {h.at, h.then} => h.ext # 0)
    BY <1>4 DEF IsFrame
  <2> QED BY <1>4, <2>1, FrameMoved
<1>8. IsFrame(h) /\ Allowed(h, s) /\ IsFrame(g) /\ Allowed(g, s) BY <1>5, <1>6, <1>7
<1> QED BY ONLY <1>8, Zenon DEF g, h

\* The last but one element is replaced by j, and the last one is left out.
LEMMA LastReplaced ==
  ASSUME NEW S, NEW q \in Seq(S), NEW m \in Nat, Len(q) = m + 2, NEW j \in S
  PROVE  Append(SubSeq(q, 1, m), j) = [SubSeq(q, 1, m + 1) EXCEPT ![m + 1] = j]
<1> DEFINE t == SubSeq(q, 1, m)
           u == SubSeq(q, 1, m + 1)
           a == Append(t, j)
           b == [u EXCEPT ![m + 1] = j]
<1>1. \A i \in 1 .. m + 1 : q[i] \in S OBVIOUS
<1>2. /\ t \in Seq(S) /\ Len(t) = m
      /\ \A i \in 1 .. m : t[i] = q[i]
  <2>1. /\ t \in Seq(S)
        /\ Len(t) = IF 1 <= m THEN m - 1 + 1 ELSE 0
        /\ \A i \in 1 .. m - 1 + 1 : t[i] = q[1 + i - 1]
    BY <1>1, SubSeqProperties
  <2> HIDE DEF t
  <2>2. Len(t) = m BY <2>1
  <2>3. \A i \in 1 .. m : i \in 1 .. m - 1 + 1 /\ 1 + i - 1 = i OBVIOUS
  <2>4. \A i \in 1 .. m : t[i] = q[i] BY ONLY <2>1, <2>3, Zenon
  <2> QED BY <2>1, <2>2, <2>4
<1>3. /\ u \in Seq(S) /\ Len(u) = m + 1
      /\ \A i \in 1 .. m + 1 : u[i] = q[i]
  <2>1. /\ u \in Seq(S)
        /\ Len(u) = IF 1 <= m + 1 THEN m + 1 - 1 + 1 ELSE 0
        /\ \A i \in 1 .. m + 1 - 1 + 1 : u[i] = q[1 + i - 1]
    BY <1>1, SubSeqProperties
  <2> HIDE DEF u
  <2>2. Len(u) = m + 1 BY <2>1
  <2>3. \A i \in 1 .. m + 1 : i \in 1 .. m + 1 - 1 + 1 /\ 1 + i - 1 = i OBVIOUS
  <2>4. \A i \in 1 .. m + 1 : u[i] = q[i] BY ONLY <2>1, <2>3, Zenon
  <2> QED BY <2>1, <2>2, <2>4
<1> HIDE DEF t, u
<1>4. /\ a \in Seq(S) /\ Len(a) = m + 1 /\ a[m + 1] = j
      /\ \A i \in 1 .. m : a[i] = q[i]
  BY <1>2, AppendProperties
<1>5. /\ b \in Seq(S) /\ Len(b) = m + 1 /\ b[m + 1] = j
      /\ \A i \in 1 .. m : b[i] = q[i]
  BY <1>3
<1> HIDE DEF a, b
<1>6. \A i \in 1 .. m + 1 : a[i] = b[i]
  <2> TAKE i \in 1 .. m + 1
  <2>1. CASE i = m + 1 BY <2>1, <1>4, <1>5
  <2>2. CASE i # m + 1
    <3>1. i \in 1 .. m BY <2>2
    <3> QED BY <3>1, <1>4, <1>5
  <2> QED BY <2>1, <2>2
<1>7. a = b BY <1>4, <1>5, <1>6, SeqEqual
<1> QED BY <1>7 DEF a, b, t, u

\* The outer stream after the second pass.
LEMMA JoinedTyped ==
  ASSUME NEW s \in OStream, NEW sub \in OStream
  PROVE  Joined(s, sub).of = s.of /\ Joined(s, sub) \in OStream
<1> DEFINE n == s.bytes_written + sub.bytes_written
           counted == [s EXCEPT !.bytes_written = n]
           t == [counted EXCEPT !.state = sub.state]
<1>1. n \in Nat /\ sub.state \in Nat BY DEF OStream
<1>2. Joined(s, sub) = t BY DEF Joined
<1> HIDE DEF n
<1>3. counted \in OStream /\ counted.of = s.of BY <1>1 DEF OStream
<1> HIDE DEF counted
<1>4. t \in OStream /\ t.of = counted.of BY <1>1, <1>3 DEF OStream
<1> QED BY <1>2, <1>3, <1>4

\* A return to pb_encode_submessage(), from its first pass or from its second.
LEMMA ReturnToSubmessageSteps ==
  ASSUME IInv, ReturnToSubmessage PROVE Calls' /\ OutputSteps
<1> DEFINE n == Len(stack)
           f == stack[Len(stack) - 1]
           s == outs[Len(outs) - 1]
           item == Head(f.todo)
           failed == [f EXCEPT !.at = "failed"]
<1>0. n > 1 /\ stack # <<>> /\ UNCHANGED <<source, bufsize, buffer>>
  BY AsManyStreams DEF ReturnToSubmessage
<1>1. /\ n \in Nat /\ Len(outs) = n /\ DOMAIN stack = 1 .. n /\ DOMAIN outs = 1 .. n
      /\ n - 1 \in 1 .. n - 1 /\ n - 1 \in DOMAIN stack
  BY <1>0, AsManyStreams
<1>2. IsFrame(f) /\ Waits(f) /\ Allowed(f, s) BY <1>1 DEF IInv, Calls
<1>3. Out \in OStream BY <1>0, TopCall
<1>4. Len(outs) > 1 /\ Out = Output!Out /\ s = outs[Len(stack) - 1]
  BY <1>0, <1>1 DEF Out, Output!Out
<1>o. /\ Output!Outer \in Seq(OStream) /\ DOMAIN Output!Outer = 1 .. n - 1
      /\ \A k \in 1 .. n - 1 : Output!Outer[k] = outs[k]
  BY <1>1, <1>4, OuterStreams DEF IInv
<1>m. PICK m \in Nat : n = m + 2 /\ n - 1 = m + 1 /\ n - 2 = m
  <2> HIDE DEF n
  <2>1. n - 2 \in Nat /\ n = (n - 2) + 2 /\ n - 1 = (n - 2) + 1 BY <1>0, <1>1
  <2> QED BY <2>1
<1>l. Len(Output!Outer) = n - 1
  <2> DEFINE outer == Output!Outer
  <2>1. outer \in Seq(OStream) /\ DOMAIN outer = 1 .. m + 1 BY <1>o, <1>m
  <2> HIDE DEF outer
  <2>2. Len(outer) = m + 1 BY <2>1, LenProperties
  <2> QED BY <2>2, <1>m DEF outer
<1>5. ASSUME Sizing(Out),
             stack' = Append(SubSeq(stack, 1, Len(stack) - 2),
                        IF At("failed") THEN failed ELSE Sized(f, Out.bytes_written, Sizing(s))),
             outs' = SubSeq(outs, 1, Len(outs) - 1)
      PROVE  Calls' /\ OutputSteps
  <2> DEFINE g == IF At("failed") THEN failed ELSE Sized(f, Out.bytes_written, Sizing(s))
  <2>1. Out.bytes_written \in Nat BY <1>3 DEF OStream
  <2>2. IsFrame(g) /\ Allowed(g, s)
    <3> HIDE DEF f, s
    <3>1. IsFrame(failed) /\ Allowed(failed, s) BY <1>2, FrameLeft
    <3>2. LET h == Sized(f, Out.bytes_written, Sizing(s)) IN IsFrame(h) /\ Allowed(h, s)
      BY <1>2, <2>1, SizedTyped
    <3> HIDE DEF failed
    <3> QED BY <3>1, <3>2
  <2>3. outs' = Output!Outer BY <1>5 DEF Output!Outer
  <2>4. Len(outs') = n - 1 /\ \A k \in 1 .. n - 1 : Sizing(outs'[k]) <=> Sizing(outs[k])
    BY <1>l, <1>o, <2>3
  <2>5. stack' = Append(SubSeq(stack, 1, Len(stack) - 2), g) BY <1>5
  <2> HIDE DEF g
  <2>6. Calls' BY <1>0, <1>4, <2>2, <2>4, <2>5, ReturnStep
  <2>7. Output!EndSizePass
    <3>1. Output!Sizing(Output!Out) BY <1>4, <1>5 DEF Output!Sizing, Sizing
    <3> QED BY <1>0, <1>4, <2>3, <3>1 DEF Output!EndSizePass
  <2> QED BY <2>6, <2>7 DEF OutputSteps, OutputStep
<1>6. ASSUME ~Sizing(Out),
             stack' = Append(SubSeq(stack, 1, Len(stack) - 2),
                        IF At("failed") \/ ~SizeKept(item, Out) THEN failed
                        ELSE [f EXCEPT !.todo = Tail(@)]),
             outs' = Append(SubSeq(outs, 1, Len(outs) - 2), Joined(s, Out))
      PROVE  Calls' /\ OutputSteps
  <2> DEFINE g == IF At("failed") \/ ~SizeKept(item, Out) THEN failed
                  ELSE [f EXCEPT !.todo = Tail(@)]
             joined == [Output!Outer EXCEPT ![Len(outs) - 1] = Joined(s, Out)]
  <2>1. IsFrame(g) /\ Allowed(g, s)
    <3> HIDE DEF f, s, item
    <3>1. /\ IsFrame(failed) /\ Allowed(failed, s)
          /\ IsFrame([f EXCEPT !.todo = Tail(@)]) /\ Allowed([f EXCEPT !.todo = Tail(@)], s)
      BY <1>2, FrameLeft
    <3> QED BY ONLY <3>1, Zenon
  <2>2. stack' = Append(SubSeq(stack, 1, Len(stack) - 2), g) BY <1>6
  <2> HIDE DEF g
  <2>3. s \in OStream BY <1>1, <1>o, <1>4
  <2>4. Joined(s, Out).of = s.of /\ Joined(s, Out) \in OStream
    BY <1>3, <2>3, JoinedTyped
  <2>5. outs' = joined
    <3> DEFINE last == Joined(s, Out)
    <3>1. last \in OStream /\ outs \in Seq(OStream) /\ Len(outs) = m + 2
      BY <2>4, <1>1, <1>m DEF IInv, Streams
    <3>2. Len(outs) - 1 = m + 1 /\ Len(outs) - 2 = m BY <1>1, <1>m
    <3>3. outs' = Append(SubSeq(outs, 1, m), last) BY <1>6, <3>2
    <3>4. joined = [SubSeq(outs, 1, m + 1) EXCEPT ![m + 1] = last] BY <3>2 DEF Output!Outer
    <3> HIDE DEF last, joined
    <3> QED BY <3>1, <3>3, <3>4, LastReplaced
  <2>6. Len(outs') = n - 1 /\ \A k \in 1 .. n - 1 : Sizing(outs'[k]) <=> Sizing(outs[k])
    <3> DEFINE outer == Output!Outer
               last == Joined(s, Out)
    <3>1. /\ outer \in Seq(OStream) /\ DOMAIN outer = 1 .. m + 1 /\ Len(outer) = m + 1
          /\ \A k \in 1 .. m + 1 : outer[k] = outs[k]
      BY <1>o, <1>l, <1>m
    <3>2. last \in OStream /\ last.of = outs[m + 1].of BY <2>4, <1>1, <1>m
    <3>3. outs' = [outer EXCEPT ![m + 1] = last] BY <2>5, <1>1, <1>m
    <3> HIDE DEF outer, last
    <3>4. Len(outs') = m + 1 BY <3>1, <3>2, <3>3
    <3>5. \A k \in 1 .. m + 1 : outs'[k].of = outs[k].of
      <4> TAKE k \in 1 .. m + 1
      <4>1. CASE k = m + 1 BY <4>1, <3>1, <3>2, <3>3
      <4>2. CASE k # m + 1 BY <4>2, <3>1, <3>3
      <4> QED BY <4>1, <4>2
    <3> QED BY <3>4, <3>5, <1>m DEF Sizing
  <2>7. Calls' BY <1>0, <1>4, <2>1, <2>2, <2>6, ReturnStep
  <2>8. Output!EndWritePass
    <3>1. ~Output!Sizing(Output!Out) BY <1>4, <1>6 DEF Output!Sizing, Sizing
    <3>2. Output!Joined(Output!Outer[Len(outs) - 1], Output!Out) = Joined(s, Out)
      BY <1>1, <1>o, <1>4 DEF Output!Joined, Joined
    <3> QED BY <1>0, <1>4, <2>5, <3>1, <3>2 DEF Output!EndWritePass
  <2> QED BY <2>7, <2>8 DEF OutputSteps, OutputStep
<1> QED BY <1>0, <1>5, <1>6 DEF ReturnToSubmessage

-----------------------------------------------------------------------------
\* Before the call there are no calls of pb_encode and no streams.
LEMMA InitialStreams == Init => Output!Init
BY DEF Init, Output!Init

LEMMA InitialCalls == Init => IInv
<1> SUFFICES ASSUME Init PROVE IInv OBVIOUS
<1>1. Streams BY Initially, InitialStreams
<1>2. IsSeq(stack)
  <2>1. stack \in Seq({}) BY EmptySeq DEF Init
  <2> QED BY <2>1 DEF IsSeq
<1>3. Calls BY <1>2 DEF Init, Calls
<1> QED BY <1>1, <1>3 DEF IInv

\* Every step of pb_encode() keeps the calls and their streams together, and is to the
\* streams a step of PbOutput or none.
LEMMA EncodeSteps == IInv /\ [Next]_vars => Calls' /\ OutputSteps
<1> SUFFICES ASSUME IInv, [Next]_vars PROVE Calls' /\ OutputSteps OBVIOUS
<1>1. CASE Call BY <1>1, CallSteps
<1>2. CASE EncodeField BY <1>2, EncodeFieldSteps
<1>3. CASE NextField BY <1>3, NextFieldSteps
<1>4. CASE EncodeExtension BY <1>4, EncodeExtensionSteps
<1>5. CASE WriteChunk BY <1>5, WriteChunkSteps
<1>6. CASE GiveUp BY <1>6, GiveUpSteps
<1>7. CASE FieldWritten BY <1>7, FieldWrittenSteps
<1>8. CASE SizeSubmessage BY <1>8, SizeSubmessageSteps
<1>9. CASE WriteSubmessage BY <1>9, WriteSubmessageSteps
<1>10. CASE Terminate BY <1>10, TerminateSteps
<1>11. CASE ReturnToCaller BY <1>11, ReturnToCallerSteps
<1>12. CASE ReturnToSubmessage BY <1>12, ReturnToSubmessageSteps
<1>13. ASSUME NEW bytes \in Chunks, CallbackWrites(bytes) PROVE Calls' /\ OutputSteps
  BY <1>13, CallbackWritesSteps
<1>14. CASE Callback BY <1>14, CallbackReturnsSteps DEF Callback
<1>15. CASE UNCHANGED vars
  <2>1. UNCHANGED <<source, bufsize, buffer, stack, outs>> BY <1>15 DEF vars
  <2>2. UNCHANGED Output!vars BY <2>1 DEF Output!vars
  <2>3. Calls' BY <2>1 DEF IInv, Calls, Allowed, Waits, IsFrame, IsSeq, Sizing
  <2> QED BY <2>2, <2>3 DEF OutputSteps
<1> QED BY <1>1, <1>2, <1>3, <1>4, <1>5, <1>6, <1>7, <1>8, <1>9, <1>10, <1>11, <1>12,
           <1>13, <1>14, <1>15 DEF Next, Encoder

LEMMA EncodeKeeps == IInv /\ [Next]_vars => IInv'
<1> SUFFICES ASSUME IInv, [Next]_vars PROVE IInv' OBVIOUS
<1>1. Calls' /\ OutputSteps BY EncodeSteps
<1>2. Streams' BY <1>1, OutputStepKeeps DEF IInv, OutputSteps
<1> QED BY <1>1, <1>2 DEF IInv

\* The calls of pb_encode and their streams fit together: each has its own, what a sizing
\* one has to do holds no body of a submessage, and all but the innermost wait for one.
THEOREM Invariance == Spec => []IInv
BY InitialCalls, EncodeKeeps, PTL DEF Spec

\* pb_encode() and the callbacks it calls write nothing behind the buffer, for every
\* struct, every description of it, every buffer and whatever the callbacks write.
THEOREM EncodeWithinBuffer == Spec => []WithinBuffer
<1>1. IInv => WithinBuffer BY StreamsWithinBuffer DEF IInv
<1> QED BY <1>1, Invariance, PTL

\* pb_encode() does to its streams only what PbOutput lets a program do with them: it
\* opens and closes them in order, sizes before it writes, leaves no gaps and opens the
\* second pass over a submessage only where there is room for it.
THEOREM EncodeImplementsOutput ==
  ASSUME Counts = Nat
  PROVE  Spec => ImplementsOutput
<1>1. OutputSteps => [Output!Next]_(Output!vars) BY DEF OutputSteps, OutputStep, Output!Next
<1>2. IInv /\ [Next]_vars => [Output!Next]_(Output!vars) BY <1>1, EncodeSteps
<1> QED BY <1>2, InitialStreams, Invariance, PTL DEF Spec, ImplementsOutput, Output!Spec
=============================================================================
