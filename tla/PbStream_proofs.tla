-------------------------- MODULE PbStream_proofs ---------------------------
(***************************************************************************)
(* What the operators on nanopb's input streams do, for any bytes: a read  *)
(* goes forward and not behind the end of the stream, and a substream and  *)
(* its parent share the bytes of the parent.                               *)
(*                                                                         *)
(* Before that, what the proofs about nanopb need of natural numbers and   *)
(* of sequences of whatever, such as stacks of calls.                      *)
(***************************************************************************)
EXTENDS PbStream, SequenceTheorems, WellFoundedInduction, TLAPS

\* Division with remainder.
LEMMA DivMod ==
  ASSUME NEW a \in Nat, NEW c \in Nat, c > 0
  PROVE  /\ a \div c \in Nat
         /\ a % c \in 0 .. c - 1
         /\ a = c * (a \div c) + (a % c)
  OBVIOUS

\* Every non-empty set of natural numbers has a least element.
LEMMA LeastElement ==
  ASSUME NEW S, S \subseteq Nat, S # {}
  PROVE  \E m \in S : \A k \in S : m <= k
<1> DEFINE R == OpToRel(<, Nat)
<1>1. IsWellFoundedOn(R, Nat) BY NatLessThanWellFounded
<1>2. \A x, y \in Nat : <<y, x>> \in R <=> y < x BY DEF OpToRel
<1> HIDE DEF R
<1>3. PICK x \in S : \A y \in S : ~ (<<y, x>> \in R)
  BY <1>1, WFMin
<1>4. ASSUME NEW y \in S PROVE x <= y
  <2>1. x \in Nat /\ y \in Nat OBVIOUS
  <2>2. ~(y < x) BY <2>1, <1>2, <1>3
  <2> QED BY <2>1, <2>2
<1> QED BY <1>4

\* Induction, over a set instead of a predicate.
LEMMA SetInduction ==
  ASSUME NEW S, 0 \in S, \A n \in Nat : n \in S => n + 1 \in S
  PROVE  \A n \in Nat : n \in S
<1> DEFINE Missing == { n \in Nat : n \notin S }
<1>1. ASSUME Missing # {} PROVE FALSE
  <2>1. PICK m \in Missing : \A k \in Missing : m <= k
    BY <1>1, LeastElement, Missing \subseteq Nat
  <2>2. m \in Nat \ {0} BY <2>1
  <2>3. m - 1 \in Nat /\ m - 1 \notin Missing BY <2>1, <2>2
  <2>4. m - 1 \in S BY <2>3
  <2>5. (m - 1) + 1 \in S BY <2>3, <2>4
  <2> QED BY <2>1, <2>2, <2>5
<1> QED BY <1>1

-----------------------------------------------------------------------------
\* A sequence of whatever.
IsSeq(s) == \E S : s \in Seq(S)

\* A stack with another top.
LEMMA Replaced ==
  ASSUME NEW s, IsSeq(s), s # <<>>, NEW f
  PROVE  LET t == [s EXCEPT ![Len(s)] = f] IN
           /\ IsSeq(t)
           /\ Len(t) = Len(s) /\ Len(s) \in Nat \ {0}
           /\ \A k \in 1 .. Len(s) - 1 : t[k] = s[k]
           /\ t[Len(s)] = f
           /\ DOMAIN s = 1 .. Len(s) /\ DOMAIN t = 1 .. Len(s)
<1> DEFINE t == [s EXCEPT ![Len(s)] = f]
<1>1. PICK S : s \in Seq(S) BY DEF IsSeq
<1>2. s \in Seq(S \cup {f}) BY <1>1
<1>3. Len(s) \in Nat \ {0} BY <1>1
<1>4. t \in Seq(S \cup {f}) BY <1>2, <1>3
<1>5. Len(t) = Len(s) BY <1>2, <1>3
<1>6. DOMAIN s = 1 .. Len(s) /\ DOMAIN t = 1 .. Len(s) BY <1>1, <1>4, <1>5
<1>7. IsSeq(t) BY <1>4 DEF IsSeq
<1>8. t[Len(s)] = f /\ \A k \in 1 .. Len(s) - 1 : t[k] = s[k] BY <1>3, <1>6
<1> QED BY <1>3, <1>5, <1>6, <1>7, <1>8

\* A stack with one more on top.
LEMMA Pushed ==
  ASSUME NEW s, IsSeq(s), NEW f
  PROVE  LET t == Append(s, f) IN
           /\ IsSeq(t)
           /\ Len(t) = Len(s) + 1 /\ Len(s) \in Nat
           /\ \A k \in 1 .. Len(s) : t[k] = s[k]
           /\ t[Len(s) + 1] = f
           /\ DOMAIN s = 1 .. Len(s) /\ DOMAIN t = 1 .. Len(s) + 1
<1> DEFINE t == Append(s, f)
<1>1. PICK S : s \in Seq(S) BY DEF IsSeq
<1>2. s \in Seq(S \cup {f}) BY <1>1
<1>3. t \in Seq(S \cup {f}) BY <1>2, AppendProperties
<1> QED BY <1>2, <1>3, AppendProperties DEF IsSeq

\* A stack without its two topmost elements, and one in their place.
LEMMA Popped ==
  ASSUME NEW s, IsSeq(s), Len(s) > 1, NEW f
  PROVE  LET t == Append(SubSeq(s, 1, Len(s) - 2), f)
             n == Len(s) - 1
         IN  /\ IsSeq(t)
             /\ Len(t) = n /\ n \in Nat \ {0} /\ Len(s) = n + 1
             /\ \A k \in 1 .. n - 1 : t[k] = s[k]
             /\ t[n] = f
             /\ DOMAIN s = 1 .. n + 1 /\ DOMAIN t = 1 .. n
<1> DEFINE u == SubSeq(s, 1, Len(s) - 2)
           t == Append(u, f)
           n == Len(s) - 1
<1>1. PICK S : s \in Seq(S) BY DEF IsSeq
<1>2. s \in Seq(S \cup {f}) BY <1>1
<1>3. Len(s) \in Nat /\ n \in Nat \ {0} /\ Len(s) = n + 1
  <2>1. Len(s) \in Nat /\ Len(s) > 1 BY <1>1, LenProperties
  <2>2. \A a \in Nat : a > 1 => a - 1 \in Nat \ {0} /\ a = (a - 1) + 1 OBVIOUS
  <2> QED BY ONLY <2>1, <2>2, Zenon DEF n
<1>4. /\ u \in Seq(S \cup {f}) /\ Len(u) = n - 1
      /\ \A k \in 1 .. n - 1 : u[k] = s[k]
  BY <1>2, <1>3, SubSeqProperties
<1> HIDE DEF u
<1>5. /\ t \in Seq(S \cup {f}) /\ Len(t) = n /\ t[n] = f
      /\ \A k \in 1 .. n - 1 : t[k] = u[k]
  <2>1. /\ t \in Seq(S \cup {f})
        /\ Len(t) = Len(u) + 1 /\ t[Len(u) + 1] = f
        /\ \A k \in 1 .. Len(u) : t[k] = u[k]
    BY <1>4, AppendProperties
  <2>2. Len(u) + 1 = n BY <1>3, <1>4
  <2> HIDE DEF t, n
  <2> QED BY <1>4, <2>1, <2>2
<1> HIDE DEF t
<1>6. DOMAIN s = 1 .. n + 1 /\ DOMAIN t = 1 .. n BY <1>1, <1>3, <1>5
<1>7. IsSeq(t) BY <1>5 DEF IsSeq
<1>8. \A k \in 1 .. n - 1 : t[k] = s[k] BY <1>4, <1>5
<1> QED BY <1>3, <1>5, <1>6, <1>7, <1>8 DEF t, u

-----------------------------------------------------------------------------
\* t is what a read leaves of s.
ReadTo(s, t) == t \in Stream /\ EndOf(t) = EndOf(s) /\ t.left <= s.left

\* The stream lies within the buffer.
Inside(buf, s) == s \in Stream /\ EndOf(s) <= Len(buf)

\* Reading bytes that are left.
LEMMA AdvanceReads ==
  ASSUME NEW s \in Stream, NEW n \in Nat, n <= s.left
  PROVE  ReadTo(s, Advance(s, n)) /\ Advance(s, n).left = s.left - n
  BY DEF Stream, Advance, ReadTo, EndOf

\* A read without a stop condition that holds ends with the stream; any other read
\* ends at the first byte that stops it.
LEMMA StopExists ==
  ASSUME NEW left \in Nat, NEW Stopping, Stopping \subseteq 1 .. left
  PROVE  \E n \in 0 .. left : /\ \A k \in 1 .. n - 1 : k \notin Stopping
                              /\ n < left => n > 0 /\ n \in Stopping
<1>1. CASE Stopping = {}
  BY <1>1
<1>2. CASE Stopping # {}
  <2>1. PICK m \in Stopping : \A k \in Stopping : m <= k
    BY <1>2, LeastElement, Stopping \subseteq Nat
  <2>2. m \in 1 .. left BY <2>1
  <2>3. \A k \in 1 .. m - 1 : k \notin Stopping BY <2>1, <2>2
  <2> QED BY <2>1, <2>2, <2>3
<1> QED BY <1>1, <1>2

\* A varint of a stream that is not at its end has at least one byte, and no more
\* than are left.
LEMMA VarintLength ==
  ASSUME NEW buf, NEW s \in Stream
  PROVE  VarintLen(buf, s) \in 0 .. s.left /\ (s.left > 0 => VarintLen(buf, s) > 0)
<1> DEFINE Stopping == { k \in 1 .. s.left : Stops(buf, s, k) }
           P(n) == /\ \A k \in 1 .. n - 1 : ~Stops(buf, s, k)
                   /\ n < s.left => n > 0 /\ Stops(buf, s, n)
<1>1. s.left \in Nat BY DEF Stream
<1>2. PICK m \in 0 .. s.left : /\ \A k \in 1 .. m - 1 : k \notin Stopping
                               /\ m < s.left => m > 0 /\ m \in Stopping
  BY <1>1, StopExists
<1>3. P(m) BY <1>1, <1>2
<1>4. VarintLen(buf, s) = CHOOSE n \in 0 .. s.left : P(n) BY DEF VarintLen
<1>5. VarintLen(buf, s) \in 0 .. s.left /\ P(VarintLen(buf, s))
  <2> HIDE DEF P
  <2> QED BY <1>3, <1>4
<1> QED BY <1>1, <1>5

\* The same for a varint that is skipped.
LEMMA SkippedLength ==
  ASSUME NEW buf, NEW s \in Stream
  PROVE  SkippedLen(buf, s) \in 0 .. s.left
<1> DEFINE Stopping == { k \in 1 .. s.left : Ends(buf, s, k) }
           P(n) == /\ \A k \in 1 .. n - 1 : ~Ends(buf, s, k)
                   /\ n < s.left => n > 0 /\ Ends(buf, s, n)
<1>1. s.left \in Nat BY DEF Stream
<1>2. PICK m \in 0 .. s.left : /\ \A k \in 1 .. m - 1 : k \notin Stopping
                               /\ m < s.left => m > 0 /\ m \in Stopping
  BY <1>1, StopExists
<1>3. P(m) BY <1>1, <1>2
<1>4. SkippedLen(buf, s) = CHOOSE n \in 0 .. s.left : P(n) BY DEF SkippedLen
<1>5. SkippedLen(buf, s) \in 0 .. s.left
  <2> HIDE DEF P
  <2> QED BY <1>3, <1>4
<1> QED BY <1>5

\* A byte of a stream that lies within the buffer.
LEMMA ByteIsOctet ==
  ASSUME NEW buf \in Seq(Octet), NEW s, Inside(buf, s), NEW k \in 1 .. s.left
  PROVE  ByteAt(buf, s, k) \in Octet
<1>1. s.pos \in Nat /\ s.left \in Nat /\ s.pos + s.left <= Len(buf)
  BY DEF Inside, Stream, EndOf
<1>2. s.pos + k \in 1 .. Len(buf) BY <1>1
<1> QED BY <1>2 DEF ByteAt

\* One more group of seven bits.
LEMMA MoreBits ==
  ASSUME NEW g \in Nat, NEW v \in Nat
  PROVE  g + 128 * v \in Nat
  OBVIOUS

\* The value of a varint is a natural number.
LEMMA ValueIsNat ==
  ASSUME NEW buf \in Seq(Octet), NEW s, Inside(buf, s), NEW n \in 0 .. s.left
  PROVE  VarintValue(buf, s, n) \in Nat
<1>0. Octet \subseteq Nat BY DEF Octet
<1>1. s.left \in Nat BY DEF Inside, Stream
<1>2. \A k \in 1 .. 4 : Group(buf, s, k, n) \in Nat
  <2> TAKE k \in 1 .. 4
  <2>1. CASE k <= n
    <3>1. ByteAt(buf, s, k) \in Octet BY <1>1, <2>1, ByteIsOctet
    <3>2. ByteAt(buf, s, k) \in Nat BY <3>1, <1>0, Zenon
    <3>3. ByteAt(buf, s, k) % 128 \in Nat BY <3>2, DivMod
    <3> QED BY <3>3, <2>1 DEF Group
  <2>2. CASE ~(k <= n) BY <2>2 DEF Group
  <2> QED BY <2>1, <2>2
<1>3. TopGroup(buf, s, n) \in Nat
  <2>1. CASE n < 5 BY <2>1 DEF TopGroup
  <2>2. CASE ~(n < 5)
    <3>1. 5 \in 1 .. s.left BY <1>1, <2>2
    <3>2. ByteAt(buf, s, 5) \in Octet BY <3>1, ByteIsOctet
    <3>3. ByteAt(buf, s, 5) \in Nat BY <3>2, <1>0, Zenon
    <3>4. TopBits(buf, s) \in Nat BY <3>3, DivMod DEF TopBits
    <3> QED BY <3>4, <2>2 DEF TopGroup
  <2> QED BY <2>1, <2>2
<1>4. /\ Group(buf, s, 1, n) \in Nat /\ Group(buf, s, 2, n) \in Nat
      /\ Group(buf, s, 3, n) \in Nat /\ Group(buf, s, 4, n) \in Nat
  BY <1>2
<1>5. Group(buf, s, 4, n) + 128 * TopGroup(buf, s, n) \in Nat
  BY <1>3, <1>4, MoreBits
<1>6. Group(buf, s, 3, n) + 128 * (Group(buf, s, 4, n) + 128 * TopGroup(buf, s, n)) \in Nat
  BY <1>4, <1>5, MoreBits
<1>7. Group(buf, s, 2, n) + 128 * (Group(buf, s, 3, n)
        + 128 * (Group(buf, s, 4, n) + 128 * TopGroup(buf, s, n))) \in Nat
  BY <1>4, <1>6, MoreBits
<1> QED BY <1>4, <1>7, MoreBits DEF VarintValue

\* Decoding a varint moves forward unless the stream is at its end.
LEMMA VarintReads ==
  ASSUME NEW buf \in Seq(Octet), NEW s, Inside(buf, s),
         NEW r, r = pb_decode_varint32(buf, s)
  PROVE  /\ ReadTo(s, r.stream)
         /\ Inside(buf, r.stream)
         /\ r.ok \in BOOLEAN
         /\ r.ok => r.stream.left < s.left
         /\ r.value \in Nat
<1> DEFINE n == VarintLen(buf, s)
<1>1. s \in Stream /\ s.left \in Nat BY DEF Inside, Stream
<1>2. n \in 0 .. s.left /\ (s.left > 0 => n > 0) BY <1>1, VarintLength
<1>3. VarintValue(buf, s, n) \in Nat
  <2> HIDE DEF n
  <2> QED BY <1>2, ValueIsNat
<1>4. ReadTo(s, Advance(s, n)) /\ Advance(s, n).left = s.left - n
  <2> HIDE DEF n
  <2> QED BY <1>1, <1>2, AdvanceReads
<1>5. /\ r.stream = Advance(s, n)
      /\ r.value = VarintValue(buf, s, n)
      /\ r.ok = (n > 0 /\ Ends(buf, s, n) /\ ~Overflows(buf, s, n))
  BY DEF pb_decode_varint32
<1> HIDE DEF n
<1>6. r.ok => n > 0 BY <1>5
<1> QED BY <1>1, <1>2, <1>3, <1>4, <1>5, <1>6 DEF ReadTo, Inside, EndOf

\* Decoding a tag.
LEMMA TagReads ==
  ASSUME NEW buf \in Seq(Octet), NEW s, Inside(buf, s),
         NEW r, r = pb_decode_tag(buf, s)
  PROVE  /\ ReadTo(s, r.stream)
         /\ Inside(buf, r.stream)
         /\ r.ok => r.stream.left < s.left
<1> DEFINE v == pb_decode_varint32(buf, s)
<1>1. /\ ReadTo(s, v.stream) /\ Inside(buf, v.stream)
      /\ v.ok => v.stream.left < s.left
  BY VarintReads
<1>2. r.stream = v.stream /\ r.ok = (v.ok /\ v.value # 0) BY DEF pb_decode_tag
<1> QED BY <1>1, <1>2

\* Reading a number of bytes.
LEMMA ReadReads ==
  ASSUME NEW s \in Stream, NEW count \in Nat
  PROVE  ReadTo(s, pb_read(s, count).stream)
<1>1. s.left \in Nat BY DEF Stream
<1>2. CASE s.left < count BY <1>2, <1>1 DEF pb_read, ReadTo
<1>3. CASE ~(s.left < count)
  <2>1. ReadTo(s, Advance(s, count)) BY <1>1, <1>3, AdvanceReads
  <2> QED BY <1>3, <2>1 DEF pb_read
<1> QED BY <1>2, <1>3

\* Skipping a field never goes back and never leaves the stream.
LEMMA SkipReads ==
  ASSUME NEW buf \in Seq(Octet), NEW s, Inside(buf, s), NEW wire_type
  PROVE  ReadTo(s, pb_skip_field(buf, s, wire_type).stream)
<1>1. s \in Stream /\ s.left \in Nat /\ s.pos \in Nat BY DEF Inside, Stream
<1>2. ReadTo(s, pb_skip_varint(buf, s).stream)
  <2> DEFINE n == SkippedLen(buf, s)
  <2>1. n \in 0 .. s.left BY <1>1, SkippedLength
  <2>2. pb_skip_varint(buf, s).stream = Advance(s, n) BY DEF pb_skip_varint
  <2> HIDE DEF n
  <2> QED BY <1>1, <2>1, <2>2, AdvanceReads
<1>3. ReadTo(s, pb_skip_string(buf, s).stream)
  <2> DEFINE v == pb_decode_varint32(buf, s)
             t == pb_read(v.stream, v.value)
  <2>1. ReadTo(s, v.stream) /\ v.value \in Nat BY VarintReads
  <2>2. ReadTo(v.stream, t.stream) BY <2>1, ReadReads DEF ReadTo
  <2>3. pb_skip_string(buf, s).stream = t.stream \/ pb_skip_string(buf, s).stream = v.stream
    BY DEF pb_skip_string
  <2> HIDE DEF v, t
  <2>4. ReadTo(s, t.stream) BY <1>1, <2>1, <2>2 DEF ReadTo, Stream
  <2> QED BY <2>1, <2>3, <2>4
<1>4. ReadTo(s, pb_read(s, 8).stream) /\ ReadTo(s, pb_read(s, 4).stream)
  BY <1>1, ReadReads
<1>5. ReadTo(s, s) BY <1>1 DEF ReadTo
<1>6. \/ pb_skip_field(buf, s, wire_type) = pb_skip_varint(buf, s)
      \/ pb_skip_field(buf, s, wire_type) = pb_skip_string(buf, s)
      \/ pb_skip_field(buf, s, wire_type) = pb_read(s, 8)
      \/ pb_skip_field(buf, s, wire_type) = pb_read(s, 4)
      \/ pb_skip_field(buf, s, wire_type) = [ok |-> FALSE, stream |-> s]
  BY DEF pb_skip_field
<1>7. [ok |-> FALSE, stream |-> s].stream = s OBVIOUS
<1> QED BY <1>2, <1>3, <1>4, <1>5, <1>6, <1>7

\* A substream takes its bytes from its parent.
LEMMA MakeSubstream ==
  ASSUME NEW buf \in Seq(Octet), NEW s, Inside(buf, s),
         NEW r, r = pb_make_string_substream(buf, s)
  PROVE  /\ r.ok \in BOOLEAN
         /\ r.stream \in Stream /\ r.substream \in Stream
         /\ ~r.ok => ReadTo(s, r.stream) /\ r.substream = r.stream
         /\ EndOf(r.stream) <= EndOf(s)
         /\ r.ok => /\ EndOf(r.substream) + r.stream.left = EndOf(s)
                    /\ r.stream.left <= s.left
<1> DEFINE v == pb_decode_varint32(buf, s)
<1>1. /\ ReadTo(s, v.stream) /\ v.value \in Nat /\ v.ok \in BOOLEAN
      /\ v.stream \in Stream
  BY VarintReads DEF ReadTo
<1>2. s \in Stream BY DEF Inside
<1>3. CASE v.ok /\ v.value <= v.stream.left
  <2>1. r = [ ok        |-> TRUE,
              stream    |-> [v.stream EXCEPT !.left = @ - v.value],
              substream |-> [v.stream EXCEPT !.left = v.value] ]
    BY <1>3 DEF pb_make_string_substream
  <2> HIDE DEF v
  <2> QED BY <1>1, <1>2, <1>3, <2>1 DEF ReadTo, Stream, EndOf
<1>4. CASE ~(v.ok /\ v.value <= v.stream.left)
  <2>1. r = [ok |-> FALSE, stream |-> v.stream, substream |-> v.stream]
    BY <1>4 DEF pb_make_string_substream
  <2> HIDE DEF v
  <2> QED BY <1>1, <1>2, <2>1 DEF ReadTo, Stream, EndOf
<1> QED BY <1>3, <1>4

\* A parent whose substream is closed continues where the substream ends.
LEMMA CloseSubstream ==
  ASSUME NEW s \in Stream, NEW sub \in Stream
  PROVE  /\ pb_close_string_substream(s, sub) \in Stream
         /\ pb_close_string_substream(s, sub).left = s.left
         /\ EndOf(pb_close_string_substream(s, sub)) = EndOf(sub) + s.left
<1>1. pb_read(sub, sub.left).stream = Advance(sub, sub.left)
  BY DEF pb_read, Stream
<1> QED BY <1>1 DEF pb_close_string_substream, Advance, Stream, EndOf
=============================================================================
