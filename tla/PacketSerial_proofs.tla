------------------------- MODULE PacketSerial_proofs ------------------------
(***************************************************************************)
(* send() keeps its books right, for every buffer, chunk size and handler  *)
(* and any nesting of calls: the running offset never leaves the buffer,   *)
(* the packets of a message delimit it, and the result is honest.  The     *)
(* inductive invariant ties the locals of each call (i, buffer_offset,     *)
(* return_status) to the packets it handed over and the answers it got.    *)
(***************************************************************************)
EXTENDS PacketSerialStream, SequenceTheorems, WellFoundedInduction, TLAPS

-----------------------------------------------------------------------------
\* Natural numbers: products and integer division by a positive divisor.

\* Division with remainder.
LEMMA DivMod ==
  ASSUME NEW a \in Nat, NEW c \in Nat, c > 0
  PROVE  /\ a \div c \in Nat
         /\ a % c \in 0 .. c - 1
         /\ a = c * (a \div c) + (a % c)
  OBVIOUS

\* (n + c - 1) \div c is n / c, rounded up.
LEMMA Ceiling ==
  ASSUME NEW n \in Nat, NEW c \in Nat, c > 0,
         NEW t, t = (n + c - 1) \div c
  PROVE  /\ t \in Nat
         /\ n = 0 => t = 0
         /\ n <= t * c
         /\ t * c <= n + c - 1
<1> DEFINE m == n + c - 1
<1>1. /\ m \div c \in Nat
      /\ m % c \in 0 .. c - 1
      /\ m = c * (m \div c) + (m % c)
  BY DivMod
<1>2. t = m \div c OBVIOUS
<1> QED BY <1>1, <1>2

\* The multiples of a number in order.
LEMMA Multiples ==
  ASSUME NEW c \in Nat, NEW j \in Nat, NEW k \in Nat, j < k
  PROVE  /\ j * c \in Nat
         /\ (j + 1) * c = j * c + c
         /\ (j + 1) * c <= k * c
<1>1. PICK d \in Nat : k = j + 1 + d BY SMT
<1>2. k * c = (j + 1) * c + d * c BY <1>1, SMT
<1>3. d * c \in Nat BY SMT
<1> QED BY <1>2, <1>3, SMT

\* The remainder is what is left after any smaller multiple, at most.
LEMMA Remainder ==
  ASSUME NEW n \in Nat, NEW c \in Nat, c > 0, NEW i \in Nat, i * c < n
  PROVE  n % c \in 0 .. c - 1 /\ i * c + (n % c) <= n
<1> DEFINE q == n \div c
           r == n % c
<1>1. q \in Nat /\ r \in 0 .. c - 1 /\ n = c * q + r
  BY DivMod
<1> HIDE DEF q, r
<1>2. i * c \in Nat /\ q * c \in Nat /\ q * c = c * q
  BY <1>1, SMT
<1>3. i <= q
  <2> SUFFICES ASSUME q < i PROVE FALSE
    BY <1>1
  <2>1. (q + 1) * c = q * c + c /\ (q + 1) * c <= i * c
    BY <1>1, Multiples
  <2> QED BY <2>1, <1>1, <1>2
<1>4. i * c <= q * c
  <2>1. CASE i = q BY <2>1, <1>2
  <2>2. CASE i < q
    <3>1. (i + 1) * c = i * c + c /\ (i + 1) * c <= q * c
      BY <2>2, <1>1, Multiples
    <3> QED BY <3>1, <1>2
  <2> QED BY <1>1, <1>3, <2>1, <2>2
<1>5. i * c + r <= n
  BY <1>1, <1>2, <1>4
<1> QED BY <1>1, <1>5 DEF r

\* Quotient and remainder are unique.
LEMMA RemainderUnique ==
  ASSUME NEW c \in Nat, NEW q \in Nat, NEW r \in 0 .. c - 1
  PROVE  (q * c + r) % c = r
<1> DEFINE n == q * c + r
           p == n \div c
           s == n % c
<1>1. c > 0 /\ r \in Nat /\ q * c \in Nat
  BY SMT
<1>2. n \in Nat BY <1>1
<1>3. p \in Nat /\ s \in 0 .. c - 1 /\ n = c * p + s
  <2> HIDE DEF n
  <2> QED BY <1>1, <1>2, DivMod DEF p, s
<1>4. n = q * c + r OBVIOUS
<1> HIDE DEF n, p, s
<1>5. p * c = c * p /\ p * c \in Nat
  BY <1>3, SMT
<1>6. ~(p < q)
  <2> SUFFICES ASSUME p < q PROVE FALSE
    OBVIOUS
  <2>1. (p + 1) * c = p * c + c /\ (p + 1) * c <= q * c
    BY <1>3, Multiples
  <2> QED BY <2>1, <1>1, <1>3, <1>4, <1>5
<1>7. ~(q < p)
  <2> SUFFICES ASSUME q < p PROVE FALSE
    OBVIOUS
  <2>1. (q + 1) * c = q * c + c /\ (q + 1) * c <= p * c
    BY <1>3, Multiples
  <2> QED BY <2>1, <1>1, <1>3, <1>4, <1>5
<1>8. p = q BY <1>3, <1>6, <1>7
<1>9. s = r BY <1>1, <1>3, <1>4, <1>5, <1>8
<1> QED BY <1>4, <1>9 DEF s

\* Counting modulo a number.
LEMMA Successor ==
  ASSUME NEW a \in Nat, NEW c \in Nat, c > 0
  PROVE  ((a % c) + 1) % c = (a + 1) % c
<1> DEFINE q == a \div c
           r == a % c
<1>1. q \in Nat /\ r \in 0 .. c - 1 /\ a = c * q + r
  BY DivMod
<1> HIDE DEF q, r
<1>2. c * q = q * c /\ q * c \in Nat /\ (q + 1) * c = q * c + c
  BY <1>1, SMT
<1>3. CASE r + 1 < c
  <2>1. r + 1 \in 0 .. c - 1 /\ a + 1 = q * c + (r + 1)
    BY <1>1, <1>2, <1>3
  <2>2. (q * c + (r + 1)) % c = r + 1
    BY <2>1, <1>1, RemainderUnique
  <2>3. (0 * c + (r + 1)) % c = r + 1
    BY <2>1, RemainderUnique
  <2>4. 0 * c + (r + 1) = r + 1 BY <1>1
  <2> QED BY <2>1, <2>2, <2>3, <2>4 DEF r
<1>4. CASE r + 1 = c
  <2>1. a + 1 = (q + 1) * c + 0 /\ r + 1 = 1 * c + 0
    BY <1>1, <1>2, <1>4
  <2>2. 0 \in 0 .. c - 1 /\ q + 1 \in Nat BY <1>1
  <2>3. ((q + 1) * c + 0) % c = 0 BY <2>2, RemainderUnique
  <2>4. (1 * c + 0) % c = 0 BY <2>2, RemainderUnique
  <2>5. (r + 1) % c = (a + 1) % c BY <2>1, <2>3, <2>4
  <2> QED BY <2>5 DEF r
<1> QED BY <1>1, <1>3, <1>4


\* Every non-empty set of natural numbers has a least element.
LEMMA LeastElement ==
  ASSUME NEW S, S \subseteq Nat, S # {}
  PROVE  \E m \in S : \A k \in S : m <= k
<1> DEFINE R == OpToRel(<, Nat)
<1>1. IsWellFoundedOn(R, Nat) BY NatLessThanWellFounded
<1>2. \A x, y \in Nat : <<y, x>> \in R <=> y < x BY DEF OpToRel
<1> HIDE DEF R
<1>3. PICK x \in S : \A y \in S : ~ (<<y, x>> \in R)
  BY <1>1, WFMin
<1>4. ASSUME NEW y \in S PROVE x <= y
  <2>1. x \in Nat /\ y \in Nat OBVIOUS
  <2>2. ~(y < x) BY <2>1, <1>2, <1>3
  <2> QED BY <2>1, <2>2
<1> QED BY <1>4

-----------------------------------------------------------------------------

\* A chunk holds at least one byte.
LEMMA ChunkSizeNat == ChunkSize \in Nat /\ ChunkSize > 0
  BY DataSizeAssumption DEF ChunkSize

\* total_chunks is the number of chunks that cover the buffer: every chunk but the
\* last lies within the buffer, and the last begins in it.
LEMMA TotalChunks ==
  ASSUME NEW b \in Seq(Byte)
  PROVE  /\ total_chunks(b) \in Nat
         /\ Len(b) = 0 => total_chunks(b) = 0
         /\ \A k \in 1 .. total_chunks(b) :
              /\ (k - 1) * ChunkSize < Len(b)
              /\ k < total_chunks(b) => k * ChunkSize < Len(b)
         /\ Len(b) <= total_chunks(b) * ChunkSize
<1> DEFINE c == ChunkSize
           n == Len(b)
           t == (n + c - 1) \div c
<1>1. c \in Nat /\ c > 0 /\ n \in Nat BY ChunkSizeNat
<1>2. /\ t \in Nat
      /\ n = 0 => t = 0
      /\ n <= t * c
      /\ t * c <= n + c - 1
  <2> HIDE DEF c, n
  <2> QED BY <1>1, Ceiling
<1>3. ASSUME NEW k \in 1 .. t
      PROVE  (k - 1) * c < n /\ (k < t => k * c < n)
  <2> HIDE DEF c, n, t
  <2>1. (k - 1) * c \in Nat /\ (k - 1 + 1) * c = (k - 1) * c + c /\ (k - 1 + 1) * c <= t * c
    BY <1>1, <1>2, Multiples
  <2>2. (k - 1) * c < n BY <2>1, <1>1, <1>2
  <2>3. ASSUME k < t PROVE k * c < n
    <3>1. k * c \in Nat /\ (k + 1) * c = k * c + c /\ (k + 1) * c <= t * c
      BY <1>1, <1>2, <2>3, Multiples
    <3> QED BY <3>1, <1>1, <1>2
  <2> QED BY <2>2, <2>3
<1> QED BY <1>2, <1>3 DEF total_chunks

\* The length send() computes for a chunk never exceeds ChunkSize and keeps the
\* chunk within the buffer; only the last chunk can be short.
LEMMA ChunkLengths ==
  ASSUME NEW b \in Seq(Byte), NEW i \in 0 .. total_chunks(b) - 1
  PROVE  /\ ChunkLen(b, i) \in 0 .. ChunkSize
         /\ i + 1 < total_chunks(b) => ChunkLen(b, i) = ChunkSize
         /\ i * ChunkSize \in Nat
         /\ i * ChunkSize + ChunkLen(b, i) <= Len(b)
<1> DEFINE c == ChunkSize
           n == Len(b)
           t == total_chunks(b)
<1>1. c \in Nat /\ c > 0 /\ n \in Nat BY ChunkSizeNat
<1>2. /\ t \in Nat
      /\ i * c < n
      /\ i + 1 < t => (i + 1) * c < n
      /\ n <= t * c
  <2>1. /\ t \in Nat
        /\ \A k \in 1 .. t : (k - 1) * c < n /\ (k < t => k * c < n)
        /\ n <= t * c
    BY TotalChunks
  <2>2. i + 1 \in 1 .. t /\ i + 1 - 1 = i BY <2>1
  <2> HIDE DEF t, n, c
  <2> QED BY <2>1, <2>2
<1>3. i * c \in Nat /\ (i + 1) * c = i * c + c
  BY <1>1, Multiples, i < i + 1
<1>4. CASE t = 1
  <2>1. i = 0 /\ ChunkLen(b, i) = n BY <1>4 DEF ChunkLen, FlagOf
  <2>2. n <= c BY <1>1, <1>2, <1>4
  <2> QED BY <2>1, <2>2, <1>1, <1>3, <1>4
<1>5. CASE t > 1 /\ i < t - 1
  <2>1. ChunkLen(b, i) = c
    BY <1>2, <1>5 DEF ChunkLen, FlagOf
  <2>2. (i + 1) * c < n
    BY <1>2, <1>5
  <2>3. i * c + c <= n
    BY <2>2, <1>3, <1>1
  <2> QED BY <2>1, <2>3, <1>1, <1>3
<1>6. CASE t > 1 /\ i = t - 1
  <2>1. ChunkLen(b, i) = n % c
    BY <1>2, <1>6 DEF ChunkLen, FlagOf
  <2>2. n % c \in 0 .. c - 1 /\ i * c + (n % c) <= n
    <3>1. i \in Nat /\ i * c < n BY <1>2
    <3> HIDE DEF c, n, t
    <3> QED BY <3>1, <1>1, Remainder
  <2>3. ~(i + 1 < t) BY <1>6, <1>2
  <2> QED BY <2>1, <2>2, <2>3, <1>1, <1>3
<1> QED BY <1>2, <1>4, <1>5, <1>6

-----------------------------------------------------------------------------
\* The CRC of anything is a byte.
LEMMA CrcIsByte ==
  ASSUME NEW s
  PROVE  calculate_crc(s) \in Byte
  BY DEF calculate_crc, Byte

\* A string whose m-th byte is NUL is shorter than m and has no NUL in it.
LEMMA StrLen ==
  ASSUME NEW data \in Seq(Byte), NEW m \in 1 .. Len(data), data[m] = NUL
  PROVE  /\ strnlen(data) \in 0 .. m - 1
         /\ \A k \in 1 .. strnlen(data) : data[k] # NUL
<1> DEFINE Zeros == { k \in 1 .. Len(data) : data[k] = NUL }
           Ends(n) == /\ \A k \in 1 .. n : data[k] # NUL
                      /\ n < Len(data) => data[n + 1] = NUL
<1>1. PICK z \in Zeros : \A k \in Zeros : z <= k
  <2>1. Zeros \subseteq Nat /\ Zeros # {} BY Len(data) \in Nat
  <2> HIDE DEF Zeros
  <2> QED BY <2>1, LeastElement
<1>2. z - 1 \in 0 .. Len(data) /\ Ends(z - 1)
  <2>1. z \in 1 .. Len(data) /\ data[z] = NUL OBVIOUS
  <2>2. ASSUME NEW k \in 1 .. z - 1 PROVE data[k] # NUL
    <3>1. k \in 1 .. Len(data) /\ ~(z <= k) BY <2>1
    <3> QED BY <3>1, <1>1
  <2>3. z - 1 + 1 = z BY <2>1
  <2> QED BY <2>1, <2>2, <2>3
<1>3. strnlen(data) \in 0 .. Len(data) /\ Ends(strnlen(data))
  BY <1>2 DEF strnlen
<1>4. ~(m <= strnlen(data))
  <2> HIDE DEF Zeros
  <2> QED BY <1>3
<1> QED BY <1>3, <1>4

\* strncpy() leaves the last byte of Packet.data NUL.
LEMMA CopyType ==
  ASSUME NEW b \in Seq(Byte), NEW off \in Nat, NEW n \in 0 .. ChunkSize,
         off + n <= Len(b)
  PROVE  /\ strncpy(b, off, n) \in Seq(Byte)
         /\ Len(strncpy(b, off, n)) = DataSize
         /\ strncpy(b, off, n)[DataSize] = NUL
<1>1. DataSize \in Nat /\ DataSize > n /\ n \in Nat
  BY DataSizeAssumption DEF ChunkSize
<1> DEFINE copy == strncpy(b, off, n)
<1>2. ASSUME NEW j \in 1 .. DataSize
      PROVE  copy[j] \in Byte
  <2>1. NUL \in Byte BY DEF NUL, Byte
  <2>2. ASSUME j <= n PROVE b[off + j] \in Byte
    <3>1. off + j \in 1 .. Len(b) BY <2>2, <1>1, Len(b) \in Nat
    <3> QED BY <3>1
  <2> QED BY <2>1, <2>2 DEF strncpy
<1>3. copy \in [1 .. DataSize -> Byte] BY <1>2 DEF strncpy
<1>4. copy[DataSize] = NUL BY <1>1 DEF strncpy
<1> QED BY <1>1, <1>3, <1>4

\* A packet built from at most ChunkSize bytes of a buffer fits, marshalled, the
\* Packet_size bytes that send() reserves for it.
LEMMA PacketType ==
  ASSUME NEW b \in Seq(Byte), NEW off \in Nat, NEW n \in 0 .. ChunkSize,
         off + n <= Len(b), NEW i \in Nat, NEW flag \in Flag
  PROVE  marshal(build_packet(b, off, n, i, flag)) \in Packet
<1> DEFINE p == build_packet(b, off, n, i, flag)
           data == strncpy(b, off, n)
           size == EncodedSize(p)
<1>1. data \in Seq(Byte) /\ Len(data) = DataSize /\ data[DataSize] = NUL
  BY CopyType
<1>2. strnlen(data) \in 0 .. DataSize - 1
  BY <1>1, StrLen, DataSizeAssumption
<1>3. CString(data) \in { s \in Seq(Byte) : Len(s) < DataSize }
  <2>1. strnlen(data) \in Int /\ \A j \in 1 .. strnlen(data) : data[j] \in Byte
    BY <1>1, <1>2, DataSizeAssumption
  <2> HIDE DEF data
  <2>2. /\ SubSeq(data, 1, strnlen(data)) \in Seq(Byte)
        /\ Len(SubSeq(data, 1, strnlen(data))) <= strnlen(data)
    BY <2>1, <1>2, SubSeqProperties, DataSizeAssumption
  <2> QED BY <2>2, <1>2, DataSizeAssumption DEF CString
<1>4. p.data = data /\ p.flag = flag /\ p.crc \in Byte
      /\ p.sequence_number = i % SequenceMod
  BY CrcIsByte DEF build_packet
<1>5. i % SequenceMod \in 0 .. SequenceMod - 1
  BY SequenceModAssumption
<1>6. size \in 1 .. PacketSize
  <2> HIDE DEF p, data
  <2>1. Len(CString(data)) \in 0 .. DataSize - 1
    BY <1>3, DataSizeAssumption
  <2>2. ByteVarint(p.crc) \in 1 .. 2 /\ IntVarint(p.sequence_number) \in 1 .. 2
    BY DEF ByteVarint, IntVarint
  <2>3. EncodedSize(p) = 1 + (2 + Len(CString(data))) + (1 + IntVarint(p.sequence_number))
                           + (1 + ByteVarint(p.crc)) + 2
    BY <1>4 DEF EncodedSize
  <2> DEFINE len == Len(CString(data))
             sv  == IntVarint(p.sequence_number)
             cv  == ByteVarint(p.crc)
  <2>4. len \in 0 .. DataSize - 1 /\ sv \in 1 .. 2 /\ cv \in 1 .. 2
    BY <2>1, <2>2
  <2>5. size = 1 + (2 + len) + (1 + sv) + (1 + cv) + 2
    BY <2>3
  <2> HIDE DEF size, len, sv, cv
  <2> QED BY <2>4, <2>5, PacketSizeAssumption, DataSizeAssumption
<1>7. marshal(p) = [ size |-> size, data |-> CString(data), crc |-> p.crc,
                     sequence_number |-> i % SequenceMod, flag |-> flag ]
  <2>1. ~(size > PacketSize) BY <1>6, PacketSizeAssumption
  <2> HIDE DEF p, data
  <2> QED BY <2>1, <1>4 DEF marshal
<1> QED BY <1>3, <1>4, <1>5, <1>6, <1>7 DEF Packet

-----------------------------------------------------------------------------
\* The inductive invariant.

\* How many packets a call has given to its handler.
Sent(f) == IF f.calling THEN f.i + 1 ELSE f.i

\* Where buffer_offset points after n packets.
OffsetAt(b, n) ==
  IF n = 0 THEN 0 ELSE (n - 1) * ChunkSize + ChunkLen(b, n - 1)

\* The k-th packet of a buffer, without the running offset of the loop.
PacketAt(b, k) ==
  marshal(build_packet(b, (k - 1) * ChunkSize, ChunkLen(b, k - 1), k - 1, FlagOf(b, k - 1)))

FrameInv(f) ==
  /\ f.i <= total_chunks(f.buffer)
  /\ f.calling => f.i < total_chunks(f.buffer)
  /\ f.buffer_offset = OffsetAt(f.buffer, Sent(f))
  /\ Len(f.out) = Sent(f)
  /\ \A k \in 1 .. Len(f.out) : f.out[k] = PacketAt(f.buffer, k)
  /\ Len(f.acks) = f.i
  /\ f.return_status <=> \A k \in 1 .. Len(f.acks) : f.acks[k]

ReturnedInv(l) ==
  /\ Len(l.out) <= total_chunks(l.buffer)
  /\ \A k \in 1 .. Len(l.out) : l.out[k] = PacketAt(l.buffer, k)
  /\ Len(l.acks) = Len(l.out)
  /\ l.aborted <=> Len(l.out) < total_chunks(l.buffer)
  /\ l.result <=> ~l.aborted /\ \A k \in 1 .. Len(l.acks) : l.acks[k]

IInv ==
  /\ TypeOK
  /\ \A d \in 1 .. Len(stack) : FrameInv(stack[d])
  /\ last # NULL => ReturnedInv(last)

\* A call of send() begins with its invariant.
LEMMA NewFrameInv ==
  ASSUME NEW b \in Messages
  PROVE  NewFrame(b) \in Frame /\ FrameInv(NewFrame(b))
<1>1. b \in Seq(Byte) BY MessagesAssumption
<1>2. total_chunks(b) \in Nat BY <1>1, TotalChunks
<1> QED BY <1>2 DEF NewFrame, Frame, FrameInv, Sent, OffsetAt

\* A frame that is about to send: its offset is a multiple of ChunkSize and the
\* next chunk lies within the buffer.
LEMMA NextChunk ==
  ASSUME NEW f \in Frame, FrameInv(f), ~f.calling, f.i < total_chunks(f.buffer)
  PROVE  /\ f.buffer \in Seq(Byte)
         /\ f.i \in 0 .. total_chunks(f.buffer) - 1
         /\ f.buffer_offset = f.i * ChunkSize
         /\ f.buffer_offset \in Nat
         /\ ChunkLen(f.buffer, f.i) \in 0 .. ChunkSize
         /\ f.buffer_offset + ChunkLen(f.buffer, f.i) <= Len(f.buffer)
<1> DEFINE b == f.buffer
           i == f.i
           c == ChunkSize
           t == total_chunks(b)
<1>1. b \in Seq(Byte) /\ i \in Nat BY MessagesAssumption DEF Frame
<1>2. t \in Nat /\ c \in Nat BY <1>1, TotalChunks, ChunkSizeNat
<1>3. i \in 0 .. t - 1 BY <1>1, <1>2
<1>4. f.buffer_offset = OffsetAt(b, i) BY DEF FrameInv, Sent
<1>5. OffsetAt(b, i) = i * c
  <2>1. CASE i = 0 BY <2>1, <1>2 DEF OffsetAt
  <2>2. CASE i > 0
    <3>1. i - 1 \in 0 .. t - 1 /\ i - 1 + 1 < t BY <1>2, <1>3, <2>2
    <3>2. ChunkLen(b, i - 1) = c
      <4> HIDE DEF b, c, i
      <4> QED BY <3>1, <1>1, ChunkLengths DEF c
    <3>3. (i - 1 + 1) * c = (i - 1) * c + c
      <4>1. i - 1 \in Nat /\ i \in Nat /\ i - 1 < i BY <1>1, <2>2
      <4> HIDE DEF b, c, i
      <4> QED BY <4>1, <1>2, Multiples
    <3>4. i - 1 + 1 = i BY <1>1
    <3>5. OffsetAt(b, i) = (i - 1) * c + c BY <3>2, <2>2 DEF OffsetAt
    <3> QED BY <3>3, <3>4, <3>5
  <2> QED BY <2>1, <2>2, <1>1
<1>6. /\ ChunkLen(b, i) \in 0 .. c
      /\ i * c \in Nat
      /\ i * c + ChunkLen(b, i) <= Len(b)
  BY <1>1, <1>3, ChunkLengths
<1> QED BY <1>1, <1>3, <1>4, <1>5, <1>6

\* Building a packet and giving it to the handler keeps the invariant of the call.
LEMMA SendFrame ==
  ASSUME NEW f \in Frame, FrameInv(f), ~f.calling, f.i < total_chunks(f.buffer),
         NEW g, g = [f EXCEPT !.buffer_offset = @ + ChunkLen(f.buffer, f.i),
                              !.calling = TRUE,
                              !.out = Append(@, NextPacket(f))]
  PROVE  g \in Frame /\ FrameInv(g)
<1> DEFINE b == f.buffer
           i == f.i
           n == ChunkLen(b, i)
           p == NextPacket(f)
<1>1. /\ b \in Seq(Byte)
      /\ i \in 0 .. total_chunks(b) - 1
      /\ f.buffer_offset = i * ChunkSize
      /\ f.buffer_offset \in Nat
      /\ n \in 0 .. ChunkSize
      /\ f.buffer_offset + n <= Len(b)
  BY NextChunk
<1>2. i \in Nat /\ n \in Nat /\ total_chunks(b) \in Nat
  BY <1>1, ChunkSizeNat, TotalChunks DEF Frame
<1>3. FlagOf(b, i) \in Flag BY DEF FlagOf, Flag
<1>4. p \in Packet
  <2>1. p = marshal(build_packet(b, f.buffer_offset, n, i, FlagOf(b, i)))
    BY DEF NextPacket
  <2> HIDE DEF b, i, n, p
  <2> QED BY <2>1, <1>1, <1>2, <1>3, PacketType
<1>5. p = PacketAt(b, i + 1)
  <2>1. i + 1 - 1 = i BY <1>2
  <2> QED BY <2>1, <1>1 DEF PacketAt, NextPacket
<1>6. /\ f.out \in Seq(Packet) /\ Len(f.out) = i
      /\ \A k \in 1 .. i : f.out[k] = PacketAt(b, k)
  BY DEF Frame, FrameInv, Sent
<1>7. /\ Append(f.out, p) \in Seq(Packet)
      /\ Len(Append(f.out, p)) = i + 1
      /\ \A k \in 1 .. i + 1 : Append(f.out, p)[k] = PacketAt(b, k)
  <2> HIDE DEF b, i, n, p
  <2> QED BY <1>2, <1>4, <1>5, <1>6
<1>8. /\ g.buffer = b /\ g.i = i /\ g.buffer_offset = f.buffer_offset + n
      /\ g.calling = TRUE /\ g.out = Append(f.out, p)
      /\ g.acks = f.acks /\ g.return_status = f.return_status
  BY DEF Frame
<1>9. g \in Frame
  <2> DEFINE status == f.return_status
             out    == Append(f.out, p)
             offset == f.buffer_offset + n
             acks   == f.acks
  <2>1. g = [ buffer |-> b, i |-> i, buffer_offset |-> offset,
              return_status |-> status, calling |-> TRUE,
              out |-> out, acks |-> acks ]
    BY DEF Frame
  <2>2. /\ b \in Messages /\ i \in Nat /\ offset \in Nat
        /\ status \in BOOLEAN /\ acks \in Seq(BOOLEAN)
    BY <1>1, <1>2 DEF Frame
  <2>3. out \in Seq(Packet) BY <1>7
  <2> HIDE DEF b, i, n, p, status, out, offset, acks
  <2>4. [ buffer |-> b, i |-> i, buffer_offset |-> offset,
          return_status |-> status, calling |-> TRUE,
          out |-> out, acks |-> acks ] \in Frame
    BY ONLY <2>2, <2>3, TRUE \in BOOLEAN DEF Frame
  <2> QED BY ONLY <2>1, <2>4
<1>10. g.buffer_offset = OffsetAt(b, i + 1)
  <2>1. i + 1 - 1 = i /\ i + 1 # 0 BY <1>2
  <2> QED BY <2>1, <1>1, <1>8 DEF OffsetAt
<1>11. FrameInv(g)
  <2>1. i < total_chunks(b) /\ Len(f.acks) = i
        /\ (f.return_status <=> \A k \in 1 .. Len(f.acks) : f.acks[k])
    BY DEF FrameInv
  <2>2. Sent(g) = i + 1 BY <1>8 DEF Sent
  <2> HIDE DEF b, i, n, p
  <2> QED BY <2>1, <2>2, <1>2, <1>7, <1>8, <1>10 DEF FrameInv
<1> QED BY <1>9, <1>11

\* The return of the handler keeps the invariant of the call.
LEMMA AckFrame ==
  ASSUME NEW f \in Frame, FrameInv(f), f.calling, NEW r \in BOOLEAN,
         NEW g, g = [f EXCEPT !.calling = FALSE,
                              !.return_status = @ /\ r,
                              !.acks = Append(@, r),
                              !.i = @ + 1]
  PROVE  g \in Frame /\ FrameInv(g)
<1>1. /\ f.i \in Nat /\ f.i < total_chunks(f.buffer) /\ total_chunks(f.buffer) \in Nat
      /\ f.acks \in Seq(BOOLEAN) /\ Len(f.acks) = f.i /\ f.return_status \in BOOLEAN
  BY MessagesAssumption, TotalChunks DEF Frame, FrameInv
<1>2. /\ g.buffer = f.buffer /\ g.i = f.i + 1 /\ g.buffer_offset = f.buffer_offset
      /\ g.calling = FALSE /\ g.out = f.out
      /\ g.acks = Append(f.acks, r) /\ g.return_status = (f.return_status /\ r)
  BY DEF Frame
<1>3. /\ Append(f.acks, r) \in Seq(BOOLEAN)
      /\ Len(Append(f.acks, r)) = f.i + 1
      /\ \A k \in 1 .. f.i : Append(f.acks, r)[k] = f.acks[k]
      /\ Append(f.acks, r)[f.i + 1] = r
  BY <1>1
<1>4. g \in Frame
  <2> DEFINE status == f.return_status /\ r
  <2>1. g = [ buffer |-> f.buffer, i |-> f.i + 1, buffer_offset |-> f.buffer_offset,
              return_status |-> status, calling |-> FALSE,
              out |-> f.out, acks |-> Append(f.acks, r) ]
    BY DEF Frame
  <2>2. /\ f.buffer \in Messages /\ f.i + 1 \in Nat /\ f.buffer_offset \in Nat
        /\ f.out \in Seq(Packet)
    BY <1>1 DEF Frame
  <2>3. status \in BOOLEAN OBVIOUS
  <2> HIDE DEF status
  <2> QED BY <2>1, <2>2, <2>3, <1>3 DEF Frame
<1>5. Sent(g) = Sent(f) BY <1>2 DEF Sent
<1>6. g.return_status <=> \A k \in 1 .. f.i + 1 : Append(f.acks, r)[k]
  <2>1. f.return_status <=> \A k \in 1 .. f.i : f.acks[k]
    BY <1>1 DEF FrameInv
  <2> QED BY <2>1, <1>1, <1>2, <1>3
<1>7. FrameInv(g)
  <2>1. g.i <= total_chunks(g.buffer) /\ ~g.calling
    BY <1>1, <1>2
  <2> QED BY <2>1, <1>1, <1>2, <1>3, <1>5, <1>6 DEF FrameInv
<1> QED BY <1>4, <1>7

-----------------------------------------------------------------------------
\* The invariant holds before any call.
LEMMA InitIInv == Init => IInv
<1> SUFFICES ASSUME Init PROVE IInv
  OBVIOUS
<1> QED BY DEF Init, IInv, TypeOK

\* Replacing the innermost frame.
LEMMA TopReplaced ==
  ASSUME IInv, Depth > 0, NEW g \in Frame, FrameInv(g), SetTop(g)
  PROVE  /\ stack' \in Seq(Frame)
         /\ \A d \in 1 .. Len(stack') : FrameInv(stack'[d])
<1>1. stack \in Seq(Frame) /\ \A d \in 1 .. Len(stack) : FrameInv(stack[d])
  BY DEF IInv, TypeOK
<1> QED BY <1>1 DEF SetTop, Depth

\* Removing the innermost frame.
LEMMA TopRemoved ==
  ASSUME IInv, Depth > 0, PopTop
  PROVE  /\ stack' \in Seq(Frame)
         /\ \A d \in 1 .. Len(stack') : FrameInv(stack'[d])
<1>1. /\ stack \in Seq(Frame) /\ Len(stack) \in Nat
      /\ \A d \in 1 .. Len(stack) : stack[d] \in Frame /\ FrameInv(stack[d])
  BY DEF IInv, TypeOK
<1>2. stack' = SubSeq(stack, 1, Len(stack) - 1)
  BY DEF PopTop, Depth
<1>3. /\ SubSeq(stack, 1, Len(stack) - 1) \in Seq(Frame)
      /\ Len(SubSeq(stack, 1, Len(stack) - 1)) = Len(stack) - 1
      /\ \A d \in 1 .. Len(stack) - 1 : SubSeq(stack, 1, Len(stack) - 1)[d] = stack[d]
  <2>1. \A d \in 1 .. Len(stack) - 1 : stack[d] \in Frame BY <1>1
  <2>2. 1 \in Int /\ Len(stack) - 1 \in Nat BY <1>1 DEF Depth
  <2> DEFINE n == Len(stack) - 1
  <2>3. /\ SubSeq(stack, 1, n) \in Seq(Frame)
        /\ Len(SubSeq(stack, 1, n)) = IF 1 <= n THEN n - 1 + 1 ELSE 0
        /\ \A d \in 1 .. n - 1 + 1 : SubSeq(stack, 1, n)[d] = stack[1 + d - 1]
    <3> HIDE DEF n
    <3> QED BY <2>1, <2>2, SubSeqProperties DEF n
  <2>4. n \in Nat BY <2>2
  <2>5. /\ (IF 1 <= n THEN n - 1 + 1 ELSE 0) = n
        /\ \A d \in 1 .. n : d \in 1 .. n - 1 + 1 /\ 1 + d - 1 = d
    <3> HIDE DEF n
    <3> QED BY <2>4
  <2> QED BY <2>3, <2>4, <2>5
<1> QED BY <1>1, <1>2, <1>3

\* The innermost call is a frame for which the invariant of a call holds.
LEMMA TopInv ==
  ASSUME IInv, Depth > 0
  PROVE  Top \in Frame /\ FrameInv(Top)
<1>1. Len(stack) \in 1 .. Len(stack) BY DEF IInv, TypeOK, Depth
<1> QED BY <1>1 DEF IInv, TypeOK, Top, Depth

\* Every step of send(), of the registry and of the handlers keeps the invariant.
THEOREM InductiveStep == IInv /\ [Next]_vars => IInv'
<1> SUFFICES ASSUME IInv, [Next]_vars PROVE IInv'
  OBVIOUS
<1>1. ASSUME NEW b \in Messages, Send(b) PROVE IInv'
  <2>1. NewFrame(b) \in Frame /\ FrameInv(NewFrame(b)) BY NewFrameInv
  <2>2. stack \in Seq(Frame) /\ \A d \in 1 .. Len(stack) : FrameInv(stack[d])
    BY DEF IInv, TypeOK
  <2>3. /\ stack' \in Seq(Frame)
        /\ \A d \in 1 .. Len(stack') : FrameInv(stack'[d])
    <3>1. stack' = Append(stack, NewFrame(b)) BY <1>1 DEF Send
    <3> QED BY <3>1, <2>1, <2>2
  <2>4. sends' \in Nat /\ last' = last /\ tx_handler' = tx_handler /\ rx_handler' = rx_handler
    BY <1>1 DEF Send, IInv, TypeOK
  <2> QED BY <2>3, <2>4 DEF IInv, TypeOK
<1>2. CASE SendPacket
  <2> DEFINE g == [Top EXCEPT !.buffer_offset = @ + ChunkLen(Top.buffer, Top.i),
                              !.calling = TRUE,
                              !.out = Append(@, NextPacket(Top))]
  <2>1. Depth > 0 /\ ~Top.calling /\ Top.i < total_chunks(Top.buffer) /\ SetTop(g)
    BY <1>2 DEF SendPacket, Running
  <2>2. Top \in Frame /\ FrameInv(Top) BY <2>1, TopInv
  <2>3. g \in Frame /\ FrameInv(g)
    <3> HIDE DEF Top
    <3> QED BY <2>1, <2>2, SendFrame
  <2>4. /\ stack' \in Seq(Frame)
        /\ \A d \in 1 .. Len(stack') : FrameInv(stack'[d])
    <3> HIDE DEF g
    <3> QED BY <2>1, <2>3, TopReplaced
  <2>5. UNCHANGED <<tx_handler, rx_handler, last, sends>> BY <1>2 DEF SendPacket
  <2> QED BY <2>4, <2>5 DEF IInv, TypeOK
<1>3. CASE NoHandler
  <2>1. Depth > 0 /\ ~Top.calling /\ Top.i < total_chunks(Top.buffer) /\ PopTop
        /\ last' = Outcome(Top, TRUE, FALSE)
    BY <1>3 DEF NoHandler, Running
  <2>2. Top \in Frame /\ FrameInv(Top) BY <2>1, TopInv
  <2>3. last' \in Returned /\ ReturnedInv(last')
    BY <2>1, <2>2 DEF Frame, FrameInv, Sent, Outcome, Returned, ReturnedInv
  <2>4. /\ stack' \in Seq(Frame)
        /\ \A d \in 1 .. Len(stack') : FrameInv(stack'[d])
    BY <2>1, TopRemoved
  <2>5. UNCHANGED <<tx_handler, rx_handler, sends>> BY <1>3 DEF NoHandler
  <2> QED BY <2>3, <2>4, <2>5 DEF IInv, TypeOK
<1>4. ASSUME NEW r \in BOOLEAN, HandlerReturns(r) PROVE IInv'
  <2> DEFINE g == [Top EXCEPT !.calling = FALSE,
                              !.return_status = @ /\ r,
                              !.acks = Append(@, r),
                              !.i = @ + 1]
  <2>1. Depth > 0 /\ Top.calling /\ SetTop(g)
    BY <1>4 DEF HandlerReturns
  <2>2. Top \in Frame /\ FrameInv(Top) BY <2>1, TopInv
  <2>3. g \in Frame /\ FrameInv(g)
    BY <2>1, <2>2, AckFrame
  <2>4. /\ stack' \in Seq(Frame)
        /\ \A d \in 1 .. Len(stack') : FrameInv(stack'[d])
    <3> HIDE DEF g
    <3> QED BY <2>1, <2>3, TopReplaced
  <2>5. UNCHANGED <<tx_handler, rx_handler, last, sends>> BY <1>4 DEF HandlerReturns
  <2> QED BY <2>4, <2>5 DEF IInv, TypeOK
<1>5. CASE Return
  <2>1. Depth > 0 /\ ~Top.calling /\ Top.i >= total_chunks(Top.buffer) /\ PopTop
        /\ last' = Outcome(Top, FALSE, Top.return_status)
    BY <1>5 DEF Return, Running
  <2>2. Top \in Frame /\ FrameInv(Top) BY <2>1, TopInv
  <2>3. Top.i = total_chunks(Top.buffer)
    <3>1. total_chunks(Top.buffer) \in Nat
      BY <2>2, MessagesAssumption, TotalChunks DEF Frame
    <3> QED BY <3>1, <2>1, <2>2 DEF Frame, FrameInv
  <2>4. last' \in Returned /\ ReturnedInv(last')
    BY <2>1, <2>2, <2>3 DEF Frame, FrameInv, Sent, Outcome, Returned, ReturnedInv
  <2>5. /\ stack' \in Seq(Frame)
        /\ \A d \in 1 .. Len(stack') : FrameInv(stack'[d])
    BY <2>1, TopRemoved
  <2>6. UNCHANGED <<tx_handler, rx_handler, sends>> BY <1>5 DEF Return
  <2> QED BY <2>4, <2>5, <2>6 DEF IInv, TypeOK
<1>6. ASSUME NEW h \in TxHandlers, RegisterTx(h) PROVE IInv'
  BY <1>6 DEF RegisterTx, IInv, TypeOK
<1>7. ASSUME NEW h \in RxHandlers, RegisterRx(h) PROVE IInv'
  BY <1>7 DEF RegisterRx, IInv, TypeOK
<1>8. CASE clear_handlers
  BY <1>8 DEF clear_handlers, IInv, TypeOK
<1>9. CASE UNCHANGED vars
  BY <1>9 DEF vars, IInv, TypeOK
<1> QED
  BY <1>1, <1>2, <1>3, <1>4, <1>5, <1>6, <1>7, <1>8, <1>9
  DEF Next, System, HandlerStep, Callers

\* The inductive invariant holds in every reachable state.
THEOREM InductiveInvariant == Spec => []IInv
  BY InitIInv, InductiveStep, PTL DEF Spec

\* Every variable keeps its shape: in particular a marshalled packet always fits
\* the buffer of Packet_size bytes, so marshal() never returns -1 to send().
THEOREM TypeCorrect == Spec => []TypeOK
<1>1. IInv => TypeOK BY DEF IInv
<1> QED BY <1>1, InductiveInvariant, PTL
-----------------------------------------------------------------------------
\* The safety properties, each of which follows from the invariant.

\* The last packet, and only it, completes its buffer.
LEMMA CoversAll ==
  ASSUME NEW b \in Seq(Byte), NEW n \in 0 .. total_chunks(b)
  PROVE  Covers(n, b) <=> n = total_chunks(b)
<1> DEFINE t == total_chunks(b)
           c == ChunkSize
<1>1. /\ t \in Nat
      /\ \A k \in 1 .. t : (k - 1) * c < Len(b)
      /\ Len(b) <= t * c
  BY TotalChunks
<1>2. n \in Nat /\ c \in Nat /\ Len(b) \in Nat BY <1>1, ChunkSizeNat
<1>3. CASE n = t
  BY <1>1, <1>3 DEF Covers
<1>4. CASE n < t
  <2>1. n + 1 \in 1 .. t /\ n + 1 - 1 = n BY <1>1, <1>2, <1>4
  <2>2. n * c < Len(b) BY <1>1, <2>1
  <2>3. n * c \in Nat BY <1>2, <1>1, <1>4, Multiples
  <2>4. ~Covers(n, b)
    <3> HIDE DEF c
    <3> QED BY <2>2, <2>3, <1>2 DEF Covers, c
  <2> QED BY <2>4, <1>2, <1>4
<1> QED BY <1>1, <1>2, <1>3, <1>4

\* The flag tells the position of a packet in its message.
LEMMA FlagTells ==
  ASSUME NEW b \in Seq(Byte), NEW k \in 1 .. total_chunks(b)
  PROVE  /\ FlagOf(b, k - 1) \in {"FIRST", "FIRSTLAST"} <=> k = 1
         /\ FlagOf(b, k - 1) \in {"LAST", "FIRSTLAST"} <=> k = total_chunks(b)
<1> DEFINE t == total_chunks(b)
<1>1. t \in Nat /\ k \in Nat /\ k >= 1 /\ k <= t BY TotalChunks
<1> HIDE DEF t
<1>2. CASE k = 1 /\ t = 1
  <2>1. FlagOf(b, k - 1) = "FIRSTLAST" BY <1>2 DEF FlagOf, t
  <2> QED BY <2>1, <1>2 DEF t
<1>3. CASE k = 1 /\ t > 1
  <2>1. FlagOf(b, k - 1) = "FIRST" BY <1>3 DEF FlagOf, t
  <2> QED BY <2>1, <1>3 DEF t
<1>4. CASE k > 1 /\ k < t
  <2>1. k - 1 # 0 /\ k - 1 > 0 /\ k - 1 < t - 1 BY <1>1, <1>4
  <2>2. FlagOf(b, k - 1) = "CONTINUE" BY <2>1 DEF FlagOf, t
  <2> QED BY <2>2, <1>1, <1>4 DEF t
<1>5. CASE k > 1 /\ k = t
  <2>1. k - 1 # 0 /\ ~(k - 1 < t - 1) BY <1>1, <1>5
  <2>2. FlagOf(b, k - 1) = "LAST" BY <2>1 DEF FlagOf, t
  <2> QED BY <2>2, <1>1, <1>5 DEF t
<1> QED BY <1>1, <1>2, <1>3, <1>4, <1>5

\* Packets that are those of the buffer, in order, are framed.
LEMMA PacketsFramed ==
  ASSUME NEW b \in Seq(Byte), NEW out, Len(out) \in 0 .. total_chunks(b),
         \A k \in 1 .. Len(out) : out[k] = PacketAt(b, k)
  PROVE  WellFramed(out, b)
<1> DEFINE t == total_chunks(b)
<1>1. t \in Nat /\ SequenceMod \in Nat /\ SequenceMod > 0
  BY TotalChunks, SequenceModAssumption
<1>2. ASSUME NEW k \in 1 .. Len(out)
      PROVE  out[k].flag = FlagOf(b, k - 1) /\ out[k].sequence_number = (k - 1) % SequenceMod
  <2>1. out[k] = PacketAt(b, k) OBVIOUS
  <2> QED BY <2>1 DEF PacketAt, marshal, build_packet
<1> HIDE DEF t
<1>3. ASSUME NEW k \in 1 .. Len(out)
      PROVE  /\ out[k].flag \in {"FIRST", "FIRSTLAST"} <=> k = 1
             /\ out[k].flag \in {"LAST", "FIRSTLAST"} <=> Covers(k, b)
             /\ Covers(k, b) => k = Len(out)
  <2>1. k \in 1 .. t /\ k \in 0 .. t BY <1>1 DEF t
  <2>2. Covers(k, b) <=> k = t BY <2>1, CoversAll DEF t
  <2>3. /\ FlagOf(b, k - 1) \in {"FIRST", "FIRSTLAST"} <=> k = 1
        /\ FlagOf(b, k - 1) \in {"LAST", "FIRSTLAST"} <=> k = t
    BY <2>1, FlagTells DEF t
  <2>4. k = t => k = Len(out) BY <1>1 DEF t
  <2> QED BY <1>2, <2>2, <2>3, <2>4
<1>4. ASSUME NEW k \in 1 .. Len(out)
      PROVE  out[k].sequence_number =
               IF k = 1 THEN 0 ELSE (out[k - 1].sequence_number + 1) % SequenceMod
  <2>1. CASE k = 1
    <3>1. (1 - 1) % SequenceMod = 0
      <4>1. 0 \in 0 .. SequenceMod - 1 /\ 0 * SequenceMod + 0 = 0 BY <1>1
      <4> QED BY <4>1, <1>1, RemainderUnique
    <3> QED BY <1>2, <2>1, <3>1
  <2>2. CASE k # 1
    <3>1. /\ k - 2 \in Nat /\ k - 1 \in 1 .. Len(out)
          /\ k - 1 - 1 = k - 2 /\ k - 2 + 1 = k - 1
      BY <2>2, <1>1
    <3>2. out[k - 1].sequence_number = (k - 2) % SequenceMod BY <3>1, <1>2
    <3>3. (((k - 2) % SequenceMod) + 1) % SequenceMod = (k - 1) % SequenceMod
      BY <3>1, <1>1, Successor
    <3>4. out[k].sequence_number = (k - 1) % SequenceMod BY <1>2
    <3> QED BY <2>2, <3>2, <3>3, <3>4
  <2> QED BY <2>1, <2>2
<1> QED BY <1>3, <1>4 DEF WellFramed

\* What the invariant says of a call in progress and of the one that returned.
LEMMA FrameFacts ==
  ASSUME NEW f \in Frame, FrameInv(f)
  PROVE  /\ f.buffer \in Seq(Byte)
         /\ Sent(f) \in 0 .. total_chunks(f.buffer)
         /\ Len(f.out) = Sent(f)
         /\ \A k \in 1 .. Len(f.out) : f.out[k] = PacketAt(f.buffer, k)
<1>1. f.buffer \in Seq(Byte) /\ f.i \in Nat /\ f.calling \in BOOLEAN
  BY MessagesAssumption DEF Frame
<1>2. total_chunks(f.buffer) \in Nat BY <1>1, TotalChunks
<1>3. Sent(f) \in 0 .. total_chunks(f.buffer)
  BY <1>1, <1>2 DEF FrameInv, Sent
<1> QED BY <1>1, <1>3 DEF FrameInv

\* What the invariant says of the call that returned last.
LEMMA ReturnedFacts ==
  ASSUME IInv, last # NULL
  PROVE  /\ last.buffer \in Seq(Byte)
         /\ Len(last.out) \in 0 .. total_chunks(last.buffer)
         /\ \A k \in 1 .. Len(last.out) : last.out[k] = PacketAt(last.buffer, k)
<1>1. last \in Returned /\ ReturnedInv(last) BY DEF IInv, TypeOK
<1>2. last.buffer \in Seq(Byte) /\ last.out \in Seq(Packet)
  BY <1>1, MessagesAssumption DEF Returned
<1>3. total_chunks(last.buffer) \in Nat /\ Len(last.out) \in Nat
  BY <1>2, TotalChunks
<1> QED BY <1>1, <1>2, <1>3 DEF ReturnedInv

\* However many calls are nested, strncpy never reads past the end of a caller's
\* buffer nor writes past Packet.data: the offset that the loop accumulates and
\* the number of chunks it counted never come apart.
THEOREM ReadsStayInBounds == Spec => []ReadsInBounds
<1>1. IInv => ReadsInBounds
  <2> SUFFICES ASSUME IInv, NEW d \in 1 .. Depth
               PROVE  /\ stack[d].buffer_offset <= Len(stack[d].buffer)
                      /\ ~stack[d].calling /\ stack[d].i < total_chunks(stack[d].buffer)
                           => /\ ChunkLen(stack[d].buffer, stack[d].i) \in 0 .. ChunkSize
                              /\ stack[d].buffer_offset + ChunkLen(stack[d].buffer, stack[d].i)
                                   <= Len(stack[d].buffer)
    BY DEF ReadsInBounds
  <2> DEFINE f == stack[d]
             n == Sent(f)
  <2>1. f \in Frame /\ FrameInv(f)
    BY DEF IInv, TypeOK, Depth
  <2> HIDE DEF f
  <2>2. f.buffer \in Seq(Byte) /\ n \in 0 .. total_chunks(f.buffer)
        /\ f.buffer_offset = OffsetAt(f.buffer, n)
    BY <2>1, FrameFacts DEF FrameInv
  <2>3. f.buffer_offset <= Len(f.buffer)
    <3> HIDE DEF n
    <3>1. CASE n = 0 BY <3>1, <2>2 DEF OffsetAt
    <3>2. CASE n > 0
      <4>1. n - 1 \in 0 .. total_chunks(f.buffer) - 1 BY <2>2, <3>2, TotalChunks
      <4>2. (n - 1) * ChunkSize + ChunkLen(f.buffer, n - 1) <= Len(f.buffer)
        BY <2>2, <4>1, ChunkLengths
      <4> QED BY <2>2, <3>2, <4>2 DEF OffsetAt
    <3> QED BY <2>2, <3>1, <3>2
  <2>4. ~f.calling /\ f.i < total_chunks(f.buffer)
           => /\ ChunkLen(f.buffer, f.i) \in 0 .. ChunkSize
              /\ f.buffer_offset + ChunkLen(f.buffer, f.i) <= Len(f.buffer)
    BY <2>1, NextChunk
  <2> QED BY <2>3, <2>4 DEF f
<1> QED BY <1>1, InductiveInvariant, PTL

\* Whatever the handlers answer and however calls nest, the flags and the wrapping
\* sequence numbers of every message delimit it.
THEOREM AllMessagesDelimited == Spec => []MessagesDelimited
<1>1. IInv => MessagesDelimited
  <2> SUFFICES ASSUME IInv PROVE MessagesDelimited
    OBVIOUS
  <2>1. ASSUME NEW d \in 1 .. Depth PROVE WellFramed(stack[d].out, stack[d].buffer)
    <3> DEFINE f == stack[d]
    <3>1. f \in Frame /\ FrameInv(f) BY DEF IInv, TypeOK, Depth
    <3> HIDE DEF f
    <3>2. WellFramed(f.out, f.buffer)
      BY <3>1, FrameFacts, PacketsFramed
    <3> QED BY <3>2 DEF f
  <2>2. ASSUME last # NULL PROVE WellFramed(last.out, last.buffer)
    BY <2>2, ReturnedFacts, PacketsFramed
  <2> QED BY <2>1, <2>2 DEF MessagesDelimited
<1> QED BY <1>1, InductiveInvariant, PTL

\* send() answers true exactly when the whole buffer was handed over and accepted,
\* and only a missing handler cuts a message short.
THEOREM ResultsHonest == Spec => []ResultHonest
<1>1. IInv => ResultHonest
  <2> SUFFICES ASSUME IInv, last # NULL
               PROVE  /\ last.result <=> /\ Covers(Len(last.out), last.buffer)
                                         /\ \A k \in 1 .. Len(last.acks) : last.acks[k]
                      /\ Len(last.acks) = Len(last.out)
                      /\ ~Covers(Len(last.out), last.buffer) <=> last.aborted
    BY DEF ResultHonest
  <2>1. ReturnedInv(last) BY DEF IInv
  <2>2. Covers(Len(last.out), last.buffer) <=> Len(last.out) = total_chunks(last.buffer)
    BY ReturnedFacts, CoversAll
  <2>3. Len(last.out) < total_chunks(last.buffer) <=> Len(last.out) # total_chunks(last.buffer)
    <3>1. total_chunks(last.buffer) \in Nat BY ReturnedFacts, TotalChunks
    <3> QED BY <3>1, ReturnedFacts
  <2> QED BY <2>1, <2>2, <2>3 DEF ReturnedInv
<1> QED BY <1>1, InductiveInvariant, PTL

-----------------------------------------------------------------------------
(***************************************************************************)
(* What the packets of PacketSerial carry: of a buffer that send() can     *)
(* carry, each packet holds exactly its piece, and its CRC is the one that *)
(* a receiver computes.  PacketSerial then implements PacketStream.        *)
(***************************************************************************)

\* A number that is no multiple of c is its greatest smaller multiple and the rest.
LEMMA LastPiece ==
  ASSUME NEW n \in Nat, NEW c \in Nat, c > 0, NEW i \in Nat,
         i * c < n, n <= (i + 1) * c, n % c # 0
  PROVE  i * c + (n % c) = n
<1> DEFINE q == n \div c
           r == n % c
<1>1. q \in Nat /\ r \in 0 .. c - 1 /\ n = c * q + r
  BY DivMod
<1>2. r # 0 OBVIOUS
<1> HIDE DEF q, r
<1>3. i * c \in Nat /\ q * c \in Nat /\ q * c = c * q /\ (i + 1) * c = i * c + c
  BY <1>1, SMT
<1>4. ~(q < i)
  <2> SUFFICES ASSUME q < i PROVE FALSE
    OBVIOUS
  <2>1. (q + 1) * c = q * c + c /\ (q + 1) * c <= i * c
    BY <1>1, Multiples
  <2> QED BY <2>1, <1>1, <1>3
<1>5. ~(i < q)
  <2> SUFFICES ASSUME i < q PROVE FALSE
    OBVIOUS
  <2>1. (i + 1) * c <= q * c
    BY <1>1, Multiples
  <2> QED BY <2>1, <1>1, <1>2, <1>3
<1>6. i = q BY <1>1, <1>4, <1>5
<1> QED BY <1>1, <1>3, <1>6 DEF r

\* The k-th chunk of such a buffer ends where its k-th piece ends.
LEMMA ChunkIsPiece ==
  ASSUME NEW b \in Seq(Byte), Carried(b), NEW k \in 1 .. total_chunks(b)
  PROVE  /\ (k - 1) * ChunkSize \in Nat
         /\ ChunkLen(b, k - 1) \in 0 .. ChunkSize
         /\ (k - 1) * ChunkSize + ChunkLen(b, k - 1) <= Len(b)
         /\ (k - 1) * ChunkSize + ChunkLen(b, k - 1) =
              IF k * ChunkSize < Len(b) THEN k * ChunkSize ELSE Len(b)
<1> DEFINE c == ChunkSize
           n == Len(b)
           t == total_chunks(b)
           i == k - 1
           l == ChunkLen(b, i)
<1>1. c \in Nat /\ c > 0 /\ n \in Nat BY ChunkSizeNat
<1>2. t \in Nat /\ n <= t * c
      /\ \A j \in 1 .. t : (j - 1) * c < n /\ (j < t => j * c < n)
  BY TotalChunks
<1>3. i \in 0 .. t - 1 /\ i \in Nat /\ i + 1 = k BY <1>2
<1>4. /\ l \in 0 .. c
      /\ i + 1 < t => l = c
      /\ i * c \in Nat
      /\ i * c + l <= n
  BY <1>3, ChunkLengths
<1>5. k * c = i * c + c
  <2>1. (i + 1) * c = i * c + c BY <1>1, <1>3, Multiples, i < i + 1
  <2> QED BY <2>1, <1>3
<1>6. CASE k < t
  <2>1. l = c /\ k * c < n BY <1>2, <1>3, <1>4, <1>6
  <2> HIDE DEF c, n, t, i, l
  <2> QED BY <2>1, <1>4, <1>5 DEF c, n, i, l
<1>7. CASE k = t
  <2>1. ~(k * c < n)
    <3>1. t * c \in Nat BY <1>1, <1>2, SMT
    <3> HIDE DEF c, n, t
    <3> QED BY <3>1, <1>1, <1>2, <1>7
  <2>2. i * c + l = n
    <3>1. CASE t = 1
      <4>1. i = 0 /\ l = n BY <3>1, <1>7 DEF ChunkLen, FlagOf
      <4>2. 0 * c = 0 BY <1>1
      <4> QED BY <4>1, <4>2, <1>1
    <3>2. CASE t > 1
      <4>1. l = n % c
        <5>1. i # 0 /\ i > 0 /\ ~(i < t - 1) BY <1>2, <1>7, <3>2
        <5>2. FlagOf(b, i) = "LAST" BY <5>1 DEF FlagOf
        <5> QED BY <5>2 DEF ChunkLen
      <4>2. c < n
        <5>1. 1 * c < n BY <1>2, <3>2
        <5> QED BY <5>1, <1>1
      <4>3. n % c # 0 BY <4>2 DEF Carried
      <4>4. i * c < n /\ n <= (i + 1) * c BY <1>2, <1>3, <1>7
      <4> HIDE DEF c, n, i, l, t
      <4>5. i * c + (n % c) = n BY <4>3, <4>4, <1>1, <1>3, LastPiece
      <4> QED BY <4>1, <4>5
    <3>3. t >= 1 BY <1>2, <1>7
    <3> QED BY <1>2, <3>1, <3>2, <3>3
  <2> HIDE DEF c, n, i, l, t
  <2> QED BY <2>1, <2>2, <1>4 DEF c, n, i, l
<1>8. k <= t BY <1>2
<1> QED BY <1>2, <1>6, <1>7, <1>8

\* The string in a copy of bytes that are not NUL is the bytes.
LEMMA CopyIsString ==
  ASSUME NEW b \in Seq(Byte), NEW off \in Nat, NEW n \in 0 .. ChunkSize,
         off + n <= Len(b), \A j \in 1 .. Len(b) : b[j] # NUL
  PROVE  /\ CString(strncpy(b, off, n)) = SubSeq(strncpy(b, off, n), 1, n)
         /\ SubSeq(strncpy(b, off, n), 1, n) = SubSeq(b, off + 1, off + n)
<1> DEFINE copy == strncpy(b, off, n)
<1>1. DataSize \in Nat /\ n \in Nat /\ n < DataSize /\ Len(b) \in Nat
  BY DataSizeAssumption DEF ChunkSize
<1>2. copy \in Seq(Byte) /\ Len(copy) = DataSize BY CopyType
<1>3. \A k \in 1 .. n : off + k \in 1 .. Len(b) /\ b[off + k] # NUL
  BY <1>1
<1>4. \A j \in 1 .. n : copy[j] = b[off + j]
  <2> SUFFICES ASSUME NEW j \in 1 .. n PROVE copy[j] = b[off + j]
    OBVIOUS
  <2>1. j \in 1 .. DataSize /\ j <= n BY <1>1
  <2>2. \A k \in 1 .. j : b[off + k] # NUL BY <1>3, <2>1
  <2> QED BY <2>1, <2>2 DEF strncpy
<1>5. copy[n + 1] = NUL
  <2>1. n + 1 \in 1 .. DataSize /\ ~(n + 1 <= n) BY <1>1
  <2> QED BY <2>1 DEF strncpy
<1> HIDE DEF copy
<1>6. strnlen(copy) = n
  <2> DEFINE Ends(m) == /\ \A k \in 1 .. m : copy[k] # NUL
                        /\ m < Len(copy) => copy[m + 1] = NUL
  <2>1. n \in 0 .. Len(copy) /\ Ends(n)
    <3>1. n \in 0 .. Len(copy) BY <1>1, <1>2
    <3>2. \A k \in 1 .. n : copy[k] # NUL BY <1>3, <1>4
    <3> QED BY <3>1, <3>2, <1>5
  <2>2. strnlen(copy) \in 0 .. Len(copy) /\ Ends(strnlen(copy))
    BY <2>1 DEF strnlen
  <2>3. ~(strnlen(copy) < n)
    <3> SUFFICES ASSUME strnlen(copy) < n PROVE FALSE
      OBVIOUS
    <3>1. strnlen(copy) + 1 \in 1 .. n /\ strnlen(copy) < Len(copy) BY <1>1, <1>2, <2>2
    <3> QED BY <3>1, <2>1, <2>2
  <2>4. ~(n < strnlen(copy))
    <3> SUFFICES ASSUME n < strnlen(copy) PROVE FALSE
      OBVIOUS
    <3>1. n + 1 \in 1 .. strnlen(copy) BY <1>1, <1>2, <2>2
    <3> QED BY <3>1, <1>5, <2>2
  <2> QED BY <2>2, <2>3, <2>4, <1>1, <1>2
<1>7. SubSeq(copy, 1, n) = SubSeq(b, off + 1, off + n)
  <2>1. SubSeq(copy, 1, n) = [j \in 1 .. n |-> copy[j]]
    <3>1. \A j \in 1 .. n - 1 + 1 : copy[1 + j - 1] = copy[j] /\ j \in 1 .. n BY <1>1
    <3>2. 1 .. n - 1 + 1 = 1 .. n BY <1>1
    <3> QED BY <3>1, <3>2
  <2>2. SubSeq(b, off + 1, off + n) = [j \in 1 .. n |-> b[off + j]]
    <3>1. 1 .. (off + n) - (off + 1) + 1 = 1 .. n BY <1>1
    <3>2. \A j \in 1 .. n : (off + 1) + j - 1 = off + j BY <1>1
    <3> QED BY <3>1, <3>2
  <2> QED BY <2>1, <2>2, <1>4
<1> QED BY <1>6, <1>7 DEF CString, copy

\* A packet of such a buffer carries its piece, under the piece's own CRC.
LEMMA PacketCarriesPiece ==
  ASSUME NEW b \in Seq(Byte), Carried(b), NEW k \in 1 .. total_chunks(b)
  PROVE  /\ PacketAt(b, k).data = Slice(b, k)
         /\ PacketAt(b, k).crc = calculate_crc(PacketAt(b, k).data)
<1> DEFINE off == (k - 1) * ChunkSize
           n == ChunkLen(b, k - 1)
           copy == strncpy(b, off, n)
<1>1. /\ off \in Nat /\ n \in 0 .. ChunkSize /\ off + n <= Len(b)
      /\ off + n = IF k * ChunkSize < Len(b) THEN k * ChunkSize ELSE Len(b)
  BY ChunkIsPiece
<1>2. \A j \in 1 .. Len(b) : b[j] # NUL BY DEF Carried
<1>3. CString(copy) = SubSeq(copy, 1, n) /\ SubSeq(copy, 1, n) = SubSeq(b, off + 1, off + n)
  <2> HIDE DEF off, n
  <2> QED BY <1>1, <1>2, CopyIsString
<1>4. /\ PacketAt(b, k).data = CString(copy)
      /\ PacketAt(b, k).crc = calculate_crc(SubSeq(copy, 1, n))
  BY DEF PacketAt, marshal, build_packet
<1>5. Slice(b, k) = SubSeq(b, off + 1, off + n)
  BY <1>1 DEF Slice
<1> QED BY <1>3, <1>4, <1>5

\* The handler receives the buffer piece by piece, nothing lost, repeated or out of
\* place, in the call in progress and in the one that returned.
THEOREM PiecesStayIntact == Spec => []PiecesIntact
<1>1. IInv => PiecesIntact
  <2> SUFFICES ASSUME IInv PROVE PiecesIntact
    OBVIOUS
  <2>1. ASSUME NEW d \in 1 .. Depth, Carried(stack[d].buffer),
               NEW k \in 1 .. Len(stack[d].out)
        PROVE  stack[d].out[k].data = Slice(stack[d].buffer, k)
    <3> DEFINE f == stack[d]
    <3>1. f \in Frame /\ FrameInv(f) BY DEF IInv, TypeOK, Depth
    <3>2. Carried(f.buffer) /\ k \in 1 .. Len(f.out) BY <2>1
    <3> HIDE DEF f
    <3>3. /\ f.buffer \in Seq(Byte) /\ k \in 1 .. total_chunks(f.buffer)
          /\ f.out[k] = PacketAt(f.buffer, k)
      BY <3>1, <3>2, FrameFacts, TotalChunks
    <3>4. f.out[k].data = Slice(f.buffer, k)
      BY <3>2, <3>3, PacketCarriesPiece
    <3> QED BY <3>4 DEF f
  <2>2. ASSUME last # NULL, Carried(last.buffer), NEW k \in 1 .. Len(last.out)
        PROVE  last.out[k].data = Slice(last.buffer, k)
    <3>1. /\ last.buffer \in Seq(Byte) /\ k \in 1 .. total_chunks(last.buffer)
          /\ last.out[k] = PacketAt(last.buffer, k)
      BY <2>2, ReturnedFacts, TotalChunks
    <3> QED BY <2>2, <3>1, PacketCarriesPiece
  <2> QED BY <2>1, <2>2 DEF PiecesIntact
<1> QED BY <1>1, InductiveInvariant, PTL

\* A receiver that folds the CRC over the string it decoded gets the packet's CRC.
THEOREM CrcsVerify == Spec => []CrcVerifies
<1>1. IInv => CrcVerifies
  <2> SUFFICES ASSUME IInv, NEW d \in 1 .. Depth, stack[d].calling, Carried(stack[d].buffer)
               PROVE  stack[d].out[Len(stack[d].out)].crc
                        = calculate_crc(stack[d].out[Len(stack[d].out)].data)
    BY DEF CrcVerifies
  <2> DEFINE f == stack[d]
             k == Len(f.out)
  <2>1. f \in Frame /\ FrameInv(f) BY DEF IInv, TypeOK, Depth
  <2>2. f.calling /\ Carried(f.buffer) OBVIOUS
  <2> HIDE DEF f
  <2>3. k \in 1 .. k /\ k \in 1 .. total_chunks(f.buffer) /\ f.buffer \in Seq(Byte)
    <3>1. Sent(f) = f.i + 1 /\ f.i \in Nat BY <2>1, <2>2 DEF Sent, Frame
    <3> QED BY <2>1, <3>1, FrameFacts
  <2>4. f.out[k] = PacketAt(f.buffer, k)
    BY <2>1, <2>3, FrameFacts
  <2>5. f.out[k].crc = calculate_crc(f.out[k].data)
    <3> HIDE DEF k
    <3> QED BY <2>2, <2>3, <2>4, PacketCarriesPiece
  <2> QED BY <2>5 DEF f
<1> QED BY <1>1, InductiveInvariant, PTL

-----------------------------------------------------------------------------
\* The refinement.

AllPieces == { AsPiece(p) : p \in Packet }

AllCalls == { AsCall(f) : f \in Frame }

\* The packets of a call, seen as pieces, are as many pieces.
LEMMA PiecesType ==
  ASSUME NEW out \in Seq(Packet)
  PROVE  AsPieces(out) \in Seq(AllPieces) /\ Len(AsPieces(out)) = Len(out)
<1>1. AsPieces(out) \in [1 .. Len(out) -> AllPieces]
  BY DEF AsPieces, AllPieces
<1>2. Len(out) \in Nat OBVIOUS
<1> QED BY <1>1, <1>2

\* The calls in progress, seen abstractly, are as many calls.
LEMMA CallsType ==
  ASSUME NEW s \in Seq(Frame), NEW c, c = [d \in 1 .. Len(s) |-> AsCall(s[d])]
  PROVE  c \in Seq(AllCalls) /\ Len(c) = Len(s)
<1>1. c \in [1 .. Len(s) -> AllCalls]
  BY DEF AllCalls
<1>2. Len(s) \in Nat OBVIOUS
<1> QED BY <1>1, <1>2

\* The packet that a call sends next is, seen as a piece, the next piece.
LEMMA NextPiece ==
  ASSUME NEW f \in Frame, FrameInv(f), Carried(f.buffer),
         ~f.calling, f.i < total_chunks(f.buffer)
  PROVE  AsPiece(NextPacket(f)) = Stream!Piece(f.buffer, f.i + 1)
<1> DEFINE b == f.buffer
           k == f.i + 1
           p == NextPacket(f)
<1>1. /\ b \in Seq(Byte) /\ f.i \in 0 .. total_chunks(b) - 1
      /\ f.buffer_offset = f.i * ChunkSize
  BY NextChunk
<1>2. total_chunks(b) \in Nat /\ Len(b) \in Nat /\ ChunkSize \in Nat
  BY <1>1, TotalChunks, ChunkSizeNat
<1>3. k \in 1 .. total_chunks(b) /\ k - 1 = f.i /\ k \in 0 .. total_chunks(b) BY <1>1, <1>2
<1>4. p = PacketAt(b, k)
  BY <1>1, <1>3 DEF NextPacket, PacketAt
<1>5. /\ p.flag = FlagOf(b, k - 1)
      /\ p.sequence_number = (k - 1) % SequenceMod
  BY <1>4 DEF PacketAt, marshal, build_packet
<1>6. p.data = Slice(b, k)
  <2> HIDE DEF b, k, p
  <2> QED BY <1>1, <1>3, <1>4, PacketCarriesPiece DEF b
<1>7. k * ChunkSize < Len(b) <=> ~Covers(k, b)
  <2>1. k * ChunkSize \in Nat BY <1>2, <1>3, SMT
  <2> HIDE DEF k, b
  <2> QED BY <1>2, <2>1 DEF Covers
<1>8. /\ p.flag \in {"FIRST", "FIRSTLAST"} <=> k = 1
      /\ p.flag \in {"LAST", "FIRSTLAST"} <=> Covers(k, b)
  <2> HIDE DEF b, k, p
  <2>1. Covers(k, b) <=> k = total_chunks(b) BY <1>1, <1>3, CoversAll
  <2> QED BY <1>1, <1>3, <1>5, <2>1, FlagTells
<1>9. Slice(b, k) = SubSeq(b, (k - 1) * ChunkSize + 1,
                           IF Covers(k, b) THEN Len(b) ELSE k * ChunkSize)
  <2> HIDE DEF k, b
  <2> QED BY <1>7 DEF Slice
<1>10. Stream!Closes(b, k) <=> Covers(k, b) BY DEF Stream!Closes, Covers
<1> HIDE DEF b, k, p
<1>11. Stream!Piece(b, k) =
         [ data   |-> Slice(b, k),
           number |-> (k - 1) % SequenceMod,
           first  |-> k = 1,
           final  |-> Covers(k, b) ]
  BY <1>9, <1>10 DEF Stream!Piece, Stream!Closes, Covers
<1>12. AsPiece(p) =
         [ data   |-> Slice(b, k),
           number |-> (k - 1) % SequenceMod,
           first  |-> k = 1,
           final  |-> Covers(k, b) ]
  <2>1. (p.flag \in {"FIRST", "FIRSTLAST"}) = (k = 1) BY <1>8
  <2>2. (p.flag \in {"LAST", "FIRSTLAST"}) = Covers(k, b) BY <1>8 DEF Covers
  <2> DEFINE first == p.flag \in {"FIRST", "FIRSTLAST"}
             final == p.flag \in {"LAST", "FIRSTLAST"}
             opens == k = 1
             closes == Covers(k, b)
  <2>3. AsPiece(p) = [ data |-> p.data, number |-> p.sequence_number,
                       first |-> first, final |-> final ]
    BY DEF AsPiece
  <2>4. first = opens /\ final = closes BY <2>1, <2>2
  <2> HIDE DEF first, final, opens, closes
  <2>5. AsPiece(p) = [ data |-> Slice(b, k), number |-> (k - 1) % SequenceMod,
                       first |-> opens, final |-> closes ]
    BY <1>5, <1>6, <2>3, <2>4
  <2> QED BY <2>5 DEF opens, closes
<1> QED BY <1>11, <1>12 DEF b, k, p

\* Sequences by their elements.
LEMMA Prefix ==
  ASSUME NEW S, NEW s \in Seq(S), NEW n \in Nat, n <= Len(s)
  PROVE  SubSeq(s, 1, n) = [d \in 1 .. n |-> s[d]]
<1>1. \A d \in 1 .. n - 1 + 1 : s[1 + d - 1] = s[d] /\ d \in 1 .. n OBVIOUS
<1>2. 1 .. n - 1 + 1 = 1 .. n OBVIOUS
<1> QED BY <1>1, <1>2

\* Append, element by element.
LEMMA Longer ==
  ASSUME NEW S, NEW s \in Seq(S), NEW e
  PROVE  Append(s, e) = [d \in 1 .. Len(s) + 1 |-> IF d = Len(s) + 1 THEN e ELSE s[d]]
<1> DEFINE n == Len(s) + 1
           r == [d \in 1 .. n |-> IF d = n THEN e ELSE s[d]]
<1>1. s \in Seq(S \cup {e}) /\ e \in S \cup {e} /\ n \in Nat
  OBVIOUS
<1>2. Append(s, e) \in Seq(S \cup {e}) /\ Len(Append(s, e)) = n
      /\ \A d \in 1 .. n : Append(s, e)[d] = IF d = n THEN e ELSE s[d]
  BY <1>1
<1> DEFINE a == Append(s, e)
<1>3. a \in [1 .. n -> S \cup {e}]
  <2> HIDE DEF a, n
  <2>1. a \in Seq(S \cup {e}) /\ Len(a) = n BY <1>2 DEF a, n
  <2> QED BY <2>1
<1>4. a = [d \in 1 .. n |-> a[d]] BY <1>3
<1>5. \A d \in 1 .. n : a[d] = IF d = n THEN e ELSE s[d] BY <1>2
<1> HIDE DEF a
<1>6. a = r BY <1>4, <1>5
<1> QED BY <1>6 DEF a

\* What the calls in progress look like when the innermost frame is replaced, and
\* what they look like when it is removed.
LEMMA CallsReplaced ==
  ASSUME IInv, Depth > 0, NEW g \in Frame, SetTop(g)
  PROVE  Calls' = [Calls EXCEPT ![Len(Calls)] = AsCall(g)]
<1>1. stack \in Seq(Frame) /\ Depth = Len(stack) /\ Depth \in Nat
  BY DEF IInv, TypeOK, Depth
<1>2. Len(Calls) = Depth
  BY <1>1, CallsType DEF Calls
<1>3. stack' = [stack EXCEPT ![Depth] = g] BY DEF SetTop
<1>4. Len(stack') = Depth /\ \A d \in 1 .. Depth : stack'[d] = IF d = Depth THEN g ELSE stack[d]
  BY <1>1, <1>3
<1>5. Calls' = [d \in 1 .. Depth |-> AsCall(stack'[d])]
  BY <1>4 DEF Calls, Depth
<1>6. [Calls EXCEPT ![Depth] = AsCall(g)]
        = [d \in 1 .. Depth |-> IF d = Depth THEN AsCall(g) ELSE AsCall(stack[d])]
  BY <1>1 DEF Calls
<1>7. \A d \in 1 .. Depth : AsCall(stack'[d]) = IF d = Depth THEN AsCall(g) ELSE AsCall(stack[d])
  BY <1>4
<1> QED BY <1>2, <1>5, <1>6, <1>7

\* What the calls in progress look like when the innermost one is removed.
LEMMA CallsRemoved ==
  ASSUME IInv, Depth > 0, PopTop
  PROVE  Calls' = SubSeq(Calls, 1, Len(Calls) - 1)
<1>1. stack \in Seq(Frame) /\ Depth = Len(stack) /\ Depth \in Nat
  BY DEF IInv, TypeOK, Depth
<1> DEFINE n == Depth - 1
<1>2. Len(Calls) = Depth /\ Calls \in Seq(AllCalls)
  BY <1>1, CallsType DEF Calls
<1>3. n \in Nat /\ n < Depth BY <1>1
<1>4. Len(stack') = n /\ \A d \in 1 .. n : stack'[d] = stack[d]
  <2>1. stack' = SubSeq(stack, 1, n) BY DEF PopTop
  <2> HIDE DEF n
  <2> QED BY <1>1, <1>3, <2>1
<1>5. Calls' = [d \in 1 .. n |-> AsCall(stack[d])]
  <2>1. Calls' = [d \in 1 .. Len(stack') |-> AsCall(stack'[d])]
    BY DEF Calls, Depth
  <2> HIDE DEF n
  <2> QED BY <1>4, <2>1
<1>6. SubSeq(Calls, 1, n) = [d \in 1 .. n |-> AsCall(stack[d])]
  <2>1. SubSeq(Calls, 1, n) = [d \in 1 .. n |-> Calls[d]]
    <3> HIDE DEF n
    <3> QED BY <1>1, <1>2, <1>3, Prefix
  <2>2. \A d \in 1 .. n : Calls[d] = AsCall(stack[d])
    BY <1>1, <1>3 DEF Calls
  <2> QED BY <2>1, <2>2
<1> QED BY <1>2, <1>5, <1>6

\* The innermost call, seen abstractly.
LEMMA CurrentCall ==
  ASSUME IInv, Depth > 0
  PROVE  /\ Calls # <<>>
         /\ Len(Calls) = Depth
         /\ Stream!Current = AsCall(Top)
         /\ Calls \in Seq(AllCalls)
         /\ Top.buffer \in Messages
         /\ Len(AsPieces(Top.out)) = Sent(Top)
         /\ Stream!Complete(AsCall(Top)) <=> Sent(Top) = total_chunks(Top.buffer)
<1>1. stack \in Seq(Frame) /\ Depth = Len(stack) /\ Depth \in Nat
  BY DEF IInv, TypeOK, Depth
<1>2. Top \in Frame /\ FrameInv(Top) BY TopInv
<1>3. Len(Calls) = Depth /\ Calls \in Seq(AllCalls)
  BY <1>1, CallsType DEF Calls
<1>4. Calls # <<>>
  <2>1. Len(<<>>) = 0 OBVIOUS
  <2> QED BY <1>3, <2>1
<1>5. Stream!Current = AsCall(Top)
  <2>1. Stream!Current = Calls[Depth] BY <1>3 DEF Stream!Current
  <2>2. Calls[Depth] = AsCall(stack[Depth]) BY <1>1 DEF Calls
  <2> QED BY <2>1, <2>2 DEF Top
<1>6. Len(AsPieces(Top.out)) = Sent(Top)
  <2>1. Top.out \in Seq(Packet) BY <1>2 DEF Frame
  <2> QED BY <2>1, <1>2, FrameFacts, PiecesType
<1>7. Stream!Complete(AsCall(Top)) <=> Covers(Sent(Top), Top.buffer)
  BY <1>6 DEF Stream!Complete, Stream!Closes, AsCall, Covers
<1>8. Covers(Sent(Top), Top.buffer) <=> Sent(Top) = total_chunks(Top.buffer)
  BY <1>2, FrameFacts, CoversAll
<1> QED BY <1>2, <1>3, <1>4, <1>5, <1>6, <1>7, <1>8 DEF Frame

\* The initial state of the program is an initial state of the stream.
LEMMA StartImplemented == Init => Stream!Start
<1> SUFFICES ASSUME Init PROVE Stream!Start
  OBVIOUS
<1>1. Calls = <<>>
  <2>1. Depth = 0 BY DEF Init, Depth
  <2> QED BY <2>1 DEF Calls
<1>2. Ended = NULL BY DEF Init, Ended
<1> QED BY <1>1, <1>2 DEF Stream!Start

\* Calling send() begins a call of the stream.
LEMMA SendImplemented ==
  ASSUME IInv, NEW b \in Messages, Send(b)
  PROVE  Stream!Begin(b)
<1>1. stack \in Seq(Frame) /\ Depth = Len(stack) /\ Depth \in Nat
  BY DEF IInv, TypeOK, Depth
<1>2. stack' = Append(stack, NewFrame(b)) /\ last' = last BY DEF Send
<1>3. NewFrame(b) \in Frame BY NewFrameInv
<1> DEFINE n == Depth + 1
           begun == [message |-> b, handed |-> <<>>, refused |-> FALSE]
<1>4. AsCall(NewFrame(b)) = begun
  <2>1. AsPieces(<<>>) = <<>> BY DEF AsPieces
  <2>2. (~TRUE) = FALSE OBVIOUS
  <2> QED BY <2>1, <2>2 DEF AsCall, NewFrame
<1>5. Len(stack') = n /\ \A d \in 1 .. n : stack'[d] = IF d = n THEN NewFrame(b) ELSE stack[d]
  BY <1>1, <1>2, <1>3
<1>6. Calls' = [d \in 1 .. n |-> IF d = n THEN begun ELSE AsCall(stack[d])]
  <2>1. Calls' = [d \in 1 .. Len(stack') |-> AsCall(stack'[d])] BY DEF Calls, Depth
  <2>2. \A d \in 1 .. n : AsCall(stack'[d]) = IF d = n THEN begun ELSE AsCall(stack[d])
    BY <1>4, <1>5
  <2> QED BY <2>1, <2>2, <1>5
<1>7. Append(Calls, begun) = [d \in 1 .. n |-> IF d = n THEN begun ELSE AsCall(stack[d])]
  <2>1. Len(Calls) = Depth /\ \A d \in 1 .. Depth : Calls[d] = AsCall(stack[d])
    BY <1>1, CallsType DEF Calls
  <2>2. Append(Calls, begun) = [d \in 1 .. n |-> IF d = n THEN begun ELSE Calls[d]]
    <3>1. Calls \in Seq(AllCalls) BY <1>1, CallsType DEF Calls
    <3> HIDE DEF begun
    <3> QED BY <2>1, <3>1, Longer
  <2>3. \A d \in 1 .. n : d # n => d \in 1 .. Depth BY <1>1
  <2> QED BY <2>1, <2>2, <2>3
<1>8. Ended' = Ended BY <1>2 DEF Ended
<1> QED BY <1>6, <1>7, <1>8 DEF Stream!Begin

\* Giving a packet to the handler hands over the next piece of the stream.
LEMMA PacketImplemented ==
  ASSUME IInv, SendPacket, Carried(Top.buffer)
  PROVE  Stream!HandOver
<1> DEFINE f == Top
           p == NextPacket(f)
           g == [f EXCEPT !.buffer_offset = @ + ChunkLen(f.buffer, f.i),
                          !.calling = TRUE,
                          !.out = Append(@, p)]
           old == AsPieces(f.out)
           piece == AsPiece(p)
<1>1. Depth > 0 /\ ~f.calling /\ f.i < total_chunks(f.buffer) /\ SetTop(g) /\ last' = last
  BY DEF SendPacket, Running
<1>2. f \in Frame /\ FrameInv(f) BY <1>1, TopInv
<1>3. g \in Frame
  <2> HIDE DEF f
  <2> QED BY <1>1, <1>2, SendFrame
<1>4. /\ Calls # <<>>
      /\ Stream!Current = AsCall(f)
      /\ Len(old) = f.i
      /\ ~Stream!Complete(Stream!Current)
      /\ Calls[Len(Calls)] = AsCall(f)
  <2>1. Sent(f) = f.i /\ f.i \in Nat /\ total_chunks(f.buffer) \in Nat
    BY <1>1, <1>2, MessagesAssumption, TotalChunks DEF Sent, Frame
  <2>2. Calls[Len(Calls)] = Stream!Current BY DEF Stream!Current
  <2> QED BY <1>1, <2>1, <2>2, CurrentCall
<1>5. Calls' = [Calls EXCEPT ![Len(Calls)] = AsCall(g)]
  <2> HIDE DEF g
  <2> QED BY <1>1, <1>3, CallsReplaced
<1>6. piece = Stream!Piece(f.buffer, f.i + 1)
  <2> HIDE DEF f
  <2> QED BY <1>1, <1>2, NextPiece DEF f
<1>7. AsPieces(Append(f.out, p)) = Append(old, piece)
  <2>1. f.out \in Seq(Packet) /\ p \in Packet
    <3>1. g.out \in Seq(Packet) /\ g.out = Append(f.out, p) BY <1>2, <1>3 DEF Frame
    <3>2. f.out \in Seq(Packet) BY <1>2 DEF Frame
    <3>3. Len(f.out) + 1 \in 1 .. Len(Append(f.out, p)) /\ Append(f.out, p)[Len(f.out) + 1] = p
      <4> HIDE DEF f, p
      <4> QED BY <3>2
    <3> HIDE DEF f, p, g
    <3>4. p \in Packet BY <3>1, <3>3
    <3> QED BY <3>2, <3>4
  <2> DEFINE n == Len(f.out) + 1
             out == Append(f.out, p)
  <2> HIDE DEF f, p
  <2>2. Len(out) = n /\ n \in Nat /\ \A k \in 1 .. n : out[k] = IF k = n THEN p ELSE f.out[k]
    BY <2>1
  <2>3. AsPieces(out) = [k \in 1 .. n |-> IF k = n THEN piece ELSE AsPiece(f.out[k])]
    <3>1. AsPieces(out) = [k \in 1 .. n |-> AsPiece(out[k])] BY <2>2 DEF AsPieces
    <3>2. \A k \in 1 .. n : AsPiece(out[k]) = IF k = n THEN piece ELSE AsPiece(f.out[k])
      BY <2>2
    <3> QED BY <3>1, <3>2
  <2>4. Append(old, piece) = [k \in 1 .. n |-> IF k = n THEN piece ELSE AsPiece(f.out[k])]
    <3>1. old \in Seq(AllPieces) /\ Len(old) = Len(f.out) BY <2>1, PiecesType
    <3>2. \A k \in 1 .. n : k # n => k \in 1 .. Len(f.out) BY <2>2, <2>1
    <3>3. \A k \in 1 .. Len(f.out) : old[k] = AsPiece(f.out[k]) BY DEF AsPieces
    <3> HIDE DEF old, piece
    <3>4. Append(old, piece) = [k \in 1 .. n |-> IF k = n THEN piece ELSE old[k]]
      BY <3>1, Longer
    <3> QED BY <3>2, <3>3, <3>4
  <2> QED BY <2>3, <2>4
<1>8. AsCall(g) = [AsCall(f) EXCEPT !.handed = Append(@, Stream!Piece(f.buffer, Len(@) + 1))]
  <2>1. g.buffer = f.buffer /\ g.out = Append(f.out, p) /\ g.return_status = f.return_status
    BY <1>2 DEF Frame
  <2> HIDE DEF f, g, p
  <2> DEFINE refused == ~f.return_status
             b == f.buffer
             longer == Append(old, piece)
  <2>2. AsCall(g) = [ message |-> b, handed |-> longer, refused |-> refused ]
    BY <1>7, <2>1 DEF AsCall
  <2>3. AsCall(f) = [ message |-> b, handed |-> old, refused |-> refused ]
    BY DEF AsCall
  <2>4. longer = Append(old, Stream!Piece(b, Len(old) + 1)) BY <1>4, <1>6
  <2> DEFINE call == AsCall(f)
             target == AsCall(g)
  <2> HIDE DEF b, refused, longer, old, piece, call, target
  <2>5. target = [call EXCEPT !.handed = longer] BY <2>2, <2>3 DEF call, target
  <2>6. call.handed = old BY <2>3 DEF call
  <2>7. target = [call EXCEPT !.handed = Append(@, Stream!Piece(b, Len(@) + 1))]
    BY <2>4, <2>5, <2>6
  <2> QED BY <2>7 DEF call, target, b
<1>9. AsCall(f).message = f.buffer BY DEF AsCall
<1>10. Calls' = [Calls EXCEPT ![Len(Calls)].handed =
                   Append(@, Stream!Piece(Stream!Current.message, Len(@) + 1))]
  <2> HIDE DEF f, g
  <2> QED BY <1>4, <1>5, <1>8, <1>9
<1>11. Ended' = Ended BY <1>1 DEF Ended
<1> QED BY <1>4, <1>10, <1>11 DEF Stream!HandOver

\* A call that returns, seen abstractly.
LEMMA EndImplemented ==
  ASSUME IInv, Depth > 0, PopTop, NEW aborted \in BOOLEAN, NEW result \in BOOLEAN,
         last' = Outcome(Top, aborted, result)
  PROVE  Stream!End(result)
<1>1. Calls' = SubSeq(Calls, 1, Len(Calls) - 1)
  BY CallsRemoved
<1>2. Top.buffer \in Messages /\ Top.out \in Seq(Packet) /\ Top.acks \in Seq(BOOLEAN)
  BY TopInv DEF Frame
<1>3. last' # NULL
  <2>1. last' \in Returned BY <1>2 DEF Outcome, Returned
  <2> QED BY <2>1, NullAssumption
<1>4. Ended' = [message |-> Top.buffer, handed |-> AsPieces(Top.out), result |-> result]
  BY <1>3 DEF Ended, Outcome
<1>5. Stream!Current = AsCall(Top) BY CurrentCall
<1>6. AsCall(Top).message = Top.buffer /\ AsCall(Top).handed = AsPieces(Top.out)
  BY DEF AsCall
<1> QED BY <1>1, <1>4, <1>5, <1>6 DEF Stream!End

\* The return of the handler refuses the piece or leaves the stream as it is.
LEMMA AnswerImplemented ==
  ASSUME IInv, NEW r \in BOOLEAN, HandlerReturns(r)
  PROVE  Stream!Refuse \/ UNCHANGED <<Calls, Ended>>
<1> DEFINE f == Top
           g == [f EXCEPT !.calling = FALSE,
                          !.return_status = @ /\ r,
                          !.acks = Append(@, r),
                          !.i = @ + 1]
           call == AsCall(f)
           after == AsCall(g)
<1>1. Depth > 0 /\ f.calling /\ SetTop(g) /\ last' = last
  BY DEF HandlerReturns
<1>2. f \in Frame /\ FrameInv(f) BY <1>1, TopInv
<1>3. g \in Frame BY <1>1, <1>2, AckFrame
<1>4. Calls' = [Calls EXCEPT ![Len(Calls)] = after]
  <2> HIDE DEF g
  <2> QED BY <1>1, <1>3, CallsReplaced
<1>5. /\ Calls # <<>>
      /\ Stream!Current = call
      /\ Calls[Len(Calls)] = call
      /\ Len(AsPieces(f.out)) = Sent(f)
      /\ Calls \in Seq(AllCalls) /\ Len(Calls) = Depth
  <2>1. Calls[Len(Calls)] = Stream!Current BY DEF Stream!Current
  <2> QED BY <1>1, <2>1, CurrentCall
<1>6. Ended' = Ended BY <1>1 DEF Ended
<1> DEFINE status == f.return_status
           b == f.buffer
           pieces == AsPieces(f.out)
           was == ~status
           is == ~(status /\ r)
<1>7. call = [message |-> b, handed |-> pieces, refused |-> was]
  BY DEF AsCall
<1>8. after = [message |-> b, handed |-> pieces, refused |-> is]
  <2>1. g.buffer = b /\ g.out = f.out /\ g.return_status = (status /\ r)
    BY <1>2 DEF Frame
  <2> HIDE DEF g
  <2> QED BY <2>1 DEF AsCall
<1>9. CASE r = TRUE
  <2>1. was = is
    <3>1. status \in BOOLEAN BY <1>2 DEF Frame
    <3> HIDE DEF status
    <3> QED BY <1>9, <3>1
  <2>2. after = call
    <3> HIDE DEF after, call, b, pieces, was, is
    <3> QED BY <1>7, <1>8, <2>1
  <2>3. Calls' = Calls
    <3> HIDE DEF after, call
    <3> QED BY <1>4, <1>5, <2>2
  <2> QED BY <2>3, <1>6
<1>10. CASE r = FALSE
  <2> DEFINE yes == TRUE
  <2>1. is = yes BY <1>10
  <2>2. after = [call EXCEPT !.refused = yes]
    <3> HIDE DEF after, call, b, pieces, was, is, yes
    <3> QED BY <1>7, <1>8, <2>1
  <2>3. call.handed # <<>>
    <3>1. call.handed = pieces BY <1>7
    <3>2. Len(pieces) = f.i + 1 /\ f.i \in Nat
      BY <1>1, <1>2, <1>5 DEF Sent, Frame
    <3>3. Len(<<>>) = 0 OBVIOUS
    <3> HIDE DEF call, pieces, f
    <3> QED BY <3>1, <3>2, <3>3
  <2>4. Calls' = [Calls EXCEPT ![Len(Calls)].refused = TRUE]
    <3> HIDE DEF after, call
    <3> QED BY <1>4, <1>5, <2>2
  <2> QED BY <1>5, <1>6, <2>3, <2>4 DEF Stream!Refuse
<1> QED BY <1>9, <1>10

\* When every buffer is one that send() can carry, send() is the message stream that
\* PacketStream describes, for every size of packet, every buffer, every behaviour of
\* the handlers and every nesting of calls.
THEOREM StreamImplemented ==
  ASSUME \A b \in Messages : Carried(b)
  PROVE  Spec => ImplementsStream
<1>1. ASSUME IInv, [Next]_vars
      PROVE  [Stream!Step]_<<Calls, Ended>>
  <2>1. ASSUME NEW b \in Messages, Send(b) PROVE Stream!Step
    BY <1>1, <2>1, SendImplemented DEF Stream!Step
  <2>2. CASE SendPacket
    <3>1. Top.buffer \in Messages
      BY <1>1, <2>2, TopInv DEF SendPacket, Running, Frame
    <3> QED BY <1>1, <2>2, <3>1, PacketImplemented DEF Stream!Step, Stream!Progress
  <2>3. CASE NoHandler
    <3>1. Depth > 0 /\ PopTop /\ ~Top.calling /\ Top.i < total_chunks(Top.buffer)
          /\ last' = Outcome(Top, TRUE, FALSE)
      BY <2>3 DEF NoHandler, Running
    <3>2. Stream!End(FALSE) BY <1>1, <3>1, EndImplemented
    <3>3. Sent(Top) # total_chunks(Top.buffer)
      <4>1. Top.i \in Nat /\ total_chunks(Top.buffer) \in Nat /\ Sent(Top) = Top.i
        BY <1>1, <3>1, TopInv, MessagesAssumption, TotalChunks DEF Frame, Sent
      <4> QED BY <3>1, <4>1
    <3>4. Calls # <<>> /\ ~Stream!Complete(Stream!Current)
      BY <1>1, <3>1, <3>3, CurrentCall
    <3> QED BY <3>2, <3>4 DEF Stream!Step, Stream!Progress, Stream!GiveUp
  <2>4. ASSUME NEW r \in BOOLEAN, HandlerReturns(r)
        PROVE  Stream!Step \/ UNCHANGED <<Calls, Ended>>
    BY <1>1, <2>4, AnswerImplemented DEF Stream!Step
  <2>5. CASE Return
    <3>1. Depth > 0 /\ PopTop /\ ~Top.calling /\ Top.i >= total_chunks(Top.buffer)
          /\ last' = Outcome(Top, FALSE, Top.return_status)
      BY <2>5 DEF Return, Running
    <3>2. Top \in Frame /\ FrameInv(Top) BY <1>1, <3>1, TopInv
    <3>3. Top.return_status \in BOOLEAN BY <3>2 DEF Frame
    <3>4. Stream!End(Top.return_status) BY <1>1, <3>1, <3>3, EndImplemented
    <3>5. Sent(Top) = total_chunks(Top.buffer)
      <4>1. Top.i \in Nat /\ total_chunks(Top.buffer) \in Nat
        BY <3>2, MessagesAssumption, TotalChunks DEF Frame
      <4> QED BY <3>1, <3>2, <4>1 DEF FrameInv, Sent
    <3>6. Calls # <<>> /\ Stream!Current = AsCall(Top) /\ Stream!Complete(Stream!Current)
      BY <1>1, <3>1, <3>5, CurrentCall
    <3>7. (~Stream!Current.refused) = Top.return_status
      <4>1. Stream!Current.refused = ~Top.return_status BY <3>6 DEF AsCall
      <4> HIDE DEF Top
      <4> QED BY <3>3, <4>1
    <3>8. Stream!End(~Stream!Current.refused)
      <4> DEFINE refused == Stream!Current.refused
                 status == Top.return_status
                 negated == ~refused
      <4>1. Stream!End(status) /\ negated = status BY <3>4, <3>7
      <4> HIDE DEF status, negated
      <4>2. Stream!End(negated) BY <4>1
      <4> QED BY <4>2 DEF negated
    <3> QED BY <3>6, <3>8 DEF Stream!Step, Stream!Progress, Stream!Finish
  <2>6. CASE UNCHANGED <<stack, last>>
    BY <2>6 DEF Calls, Ended, Depth
  <2> QED
    BY <1>1, <2>1, <2>2, <2>3, <2>4, <2>5, <2>6
    DEF Next, System, HandlerStep, Callers, RegisterTx, RegisterRx, clear_handlers, vars
<1> QED
  BY <1>1, StartImplemented, InductiveInvariant, PTL
  DEF Spec, ImplementsStream, Stream!StreamSpec, Stream!streamVars
=============================================================================
