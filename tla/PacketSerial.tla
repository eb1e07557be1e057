---------------------------- MODULE PacketSerial ----------------------------
(***************************************************************************)
(* src/PacketSerial.c: the sending half of the packet link.                *)
(*                                                                         *)
(* send() cuts a buffer into chunks of ChunkSize bytes, wraps each in a    *)
(* Packet (padded data, sequence number, CRC-8, position flag), marshals   *)
(* it and gives it to the registered tx handler, synchronously.  A handler *)
(* is foreign code that runs on the caller's stack: before it returns it   *)
(* may replace or clear the handlers and it may call send() again.  The    *)
(* calls of send() in progress are therefore a stack of frames, and the    *)
(* application's calls and a handler's calls are the same actions.         *)
(*                                                                         *)
(* rx_handler is registered and cleared, but no code ever calls it, and    *)
(* update() is empty.                                                      *)
(***************************************************************************)
EXTENDS Crc8

CONSTANTS
  DataSize,     \* member_size(Packet, data): hid.options gives 16
  SequenceMod,       \* values of the u8 sequence number: 256
  PacketSize,   \* Packet_size, the generated bound on an encoded Packet: 32
  Messages,     \* the buffers the callers pass to send()
  TxHandlers,   \* the functions the application may register for sending
  RxHandlers,   \* the functions it may register for receiving
  NULL,         \* the null function pointer
  MaxDepth,     \* bound: calls of send() nested in one another
  MaxSends      \* bound: calls of send() in a behaviour

ASSUME DataSizeAssumption   == DataSize \in Nat /\ DataSize > 1
ASSUME SequenceModAssumption     == SequenceMod \in Nat /\ SequenceMod > 0
\* nanopb's generator adds up the longest tag and value of every field, with the
\* five bytes of a uint32 for each of the two byte-wide numbers.
ASSUME PacketSizeAssumption == PacketSize \in Nat /\ PacketSize >= DataSize + 10
ASSUME MessagesAssumption   == Messages \subseteq Seq(Byte)
ASSUME HandlersAssumption   == NULL \notin TxHandlers \cup RxHandlers
ASSUME BoundsAssumption     == MaxDepth \in Nat /\ MaxSends \in Nat

VARIABLES
  tx_handler,   \* static tx_handler
  rx_handler,   \* static rx_handler
  stack,        \* the calls of send() in progress, the innermost one last
  last,         \* history: the call that returned last, with its result, or NULL
  sends         \* history: how many calls of send() began

vars == <<tx_handler, rx_handler, stack, last, sends>>

-----------------------------------------------------------------------------
\* Cutting a buffer into packets.

\* Mutant of ChunkSize: no room for the terminator.
ChunkSizeWholeField == DataSize

\* data_chunk_size: one byte of Packet.data is kept for the terminator.
ChunkSize == DataSize - 1

\* Mutant of total_chunks: one more than the whole chunks, even when none is left.
TotalChunksOneMore(buffer) == Len(buffer) \div ChunkSize + 1

\* "take the ceiling"
total_chunks(buffer) == (Len(buffer) + ChunkSize - 1) \div ChunkSize

FlagOf(buffer, i) ==
  CASE i = 0 /\ total_chunks(buffer) = 1 -> "FIRSTLAST"
    [] i = 0 /\ total_chunks(buffer) > 1 -> "FIRST"
    [] i > 0 /\ i < total_chunks(buffer) - 1 -> "CONTINUE"
    [] OTHER -> "LAST"

\* Mutant of ChunkLen: the LAST packet takes a full chunk too.
ChunkLenAlwaysFull(buffer, i) ==
  IF FlagOf(buffer, i) = "FIRSTLAST" THEN Len(buffer) ELSE ChunkSize

\* packet_data_chunk_size; the LAST packet takes the remainder of the division.
ChunkLen(buffer, i) ==
  CASE FlagOf(buffer, i) = "FIRSTLAST" -> Len(buffer)
    [] FlagOf(buffer, i) = "LAST" -> Len(buffer) % ChunkSize
    [] OTHER -> ChunkSize

\* strncpy() of n bytes from buffer + off into the zeroed Packet.data: it stops
\* at a NUL and fills what is left of the n bytes with NULs.
strncpy(buffer, off, n) ==
  [ j \in 1 .. DataSize |->
      IF j <= n /\ \A k \in 1 .. j : buffer[off + k] # NUL
      THEN buffer[off + j] ELSE NUL ]

\* Mutant of build_packet: the CRC covers the whole of Packet.data.
BuildPacketWholeCrc(buffer, off, n, i, flag) ==
  [ data            |-> strncpy(buffer, off, n),
    crc             |-> calculate_crc(strncpy(buffer, off, n)),
    sequence_number |-> i % SequenceMod,
    flag            |-> flag ]

\* build_packet(): the CRC covers the n bytes of the copy, padding included.
build_packet(buffer, off, n, i, flag) ==
  [ data            |-> strncpy(buffer, off, n),
    crc             |-> calculate_crc(SubSeq(strncpy(buffer, off, n), 1, n)),
    sequence_number |-> i % SequenceMod,
    flag            |-> flag ]

-----------------------------------------------------------------------------
\* ProtoBuff.marshal() of a Packet, delimited.

\* pb_enc_string() transmits the string up to its first NUL.
strnlen(data) ==
  CHOOSE n \in 0 .. Len(data) :
    /\ \A k \in 1 .. n : data[k] # NUL
    /\ n < Len(data) => data[n + 1] = NUL

CString(data) == SubSeq(data, 1, strnlen(data))

\* The bytes of a varint that holds a byte.
ByteVarint(b) == IF 7 \in b THEN 2 ELSE 1
IntVarint(n) == IF n > 127 THEN 2 ELSE 1

\* The length prefix, then a tag byte and a value for each of the four fields;
\* the data field has a length byte of its own.
EncodedSize(packet) ==
  LET len == Len(CString(packet.data))
  IN  1 + (2 + len) + (1 + IntVarint(packet.sequence_number))
        + (1 + ByteVarint(packet.crc)) + 2

\* What the handler receives: the decoded view of the buffer, and the size
\* marshal() returned, -1 when the message did not fit.
marshal(packet) ==
  [ size            |-> IF EncodedSize(packet) > PacketSize
                        THEN -1 ELSE EncodedSize(packet),
    data            |-> CString(packet.data),
    crc             |-> packet.crc,
    sequence_number |-> packet.sequence_number,
    flag            |-> packet.flag ]

-----------------------------------------------------------------------------
\* State.

Flag == {"FIRST", "CONTINUE", "LAST", "FIRSTLAST"}

\* A marshalled packet as its receiver decodes it.
Packet ==
  [ size            : 1 .. PacketSize,
    data            : { s \in Seq(Byte) : Len(s) < DataSize },
    crc             : Byte,
    sequence_number : 0 .. SequenceMod - 1,
    flag            : Flag ]

\* The locals of one call of send().  calling says that it waits for the tx
\* handler to return; out and acks record, for the properties, the packets it
\* gave to the handler and the answers.
Frame ==
  [ buffer        : Messages,
    i             : Nat,
    buffer_offset : Nat,
    return_status : BOOLEAN,
    calling       : BOOLEAN,
    out           : Seq(Packet),
    acks          : Seq(BOOLEAN) ]

\* What is remembered of a call that returned; aborted: it found no handler.
Returned ==
  [ buffer  : Messages,
    out     : Seq(Packet),
    acks    : Seq(BOOLEAN),
    aborted : BOOLEAN,
    result  : BOOLEAN ]

\* No call has returned yet: not one of these records.
ASSUME NullAssumption == NULL \notin Returned

NewFrame(buffer) ==
  [ buffer |-> buffer, i |-> 0, buffer_offset |-> 0, return_status |-> TRUE,
    calling |-> FALSE, out |-> <<>>, acks |-> <<>> ]

Outcome(f, aborted, result) ==
  [ buffer |-> f.buffer, out |-> f.out, acks |-> f.acks,
    aborted |-> aborted, result |-> result ]

Init ==
  /\ tx_handler = NULL
  /\ rx_handler = NULL
  /\ stack = <<>>
  /\ last = NULL
  /\ sends = 0

Depth == Len(stack)

Top == stack[Depth]

\* The top frame has a loop step to take.
Running == Depth > 0 /\ ~Top.calling

\* The code that may call the module: the application when no call is in
\* progress, otherwise the handler that the innermost call is waiting for.
CallerActive == Depth > 0 => Top.calling

SetTop(f) == stack' = [stack EXCEPT ![Depth] = f]

\* Mutant of PopTop: i and buffer_offset are static, so the call below goes on where
\* this one ended.
PopTopSharedPosition ==
  stack' = IF Depth > 1
           THEN [SubSeq(stack, 1, Depth - 1) EXCEPT
                   ![Depth - 1].i = Top.i, ![Depth - 1].buffer_offset = Top.buffer_offset]
           ELSE <<>>

\* The innermost call returns; the one below it, whose handler made the call, still has
\* its own locals.
PopTop == stack' = SubSeq(stack, 1, Depth - 1)

-----------------------------------------------------------------------------
\* send(), one action per step that a handler can observe.

Send(buffer) ==
  /\ CallerActive
  /\ Depth < MaxDepth
  /\ sends < MaxSends
  /\ stack' = Append(stack, NewFrame(buffer))
  /\ sends' = sends + 1
  /\ UNCHANGED <<tx_handler, rx_handler, last>>

\* The packet the loop builds in its next iteration.
NextPacket(f) ==
  marshal(build_packet(f.buffer, f.buffer_offset, ChunkLen(f.buffer, f.i),
                       f.i, FlagOf(f.buffer, f.i)))

\* Mutant of SendPacket: buffer_offset stays where it is.
SendPacketSameOffset ==
  /\ Running
  /\ Top.i < total_chunks(Top.buffer)
  /\ tx_handler # NULL
  /\ SetTop([Top EXCEPT !.calling = TRUE, !.out = Append(@, NextPacket(Top))])
  /\ UNCHANGED <<tx_handler, rx_handler, last, sends>>

\* One iteration up to the call of the tx handler.
SendPacket ==
  /\ Running
  /\ Top.i < total_chunks(Top.buffer)
  /\ tx_handler # NULL
  /\ SetTop([Top EXCEPT !.buffer_offset = @ + ChunkLen(Top.buffer, Top.i),
                        !.calling = TRUE,
                        !.out = Append(@, NextPacket(Top))])
  /\ UNCHANGED <<tx_handler, rx_handler, last, sends>>

\* Mutant of NoHandler: it returns the status gathered so far.
NoHandlerKeepsStatus ==
  /\ Running
  /\ Top.i < total_chunks(Top.buffer)
  /\ tx_handler = NULL
  /\ PopTop
  /\ last' = Outcome(Top, TRUE, Top.return_status)
  /\ UNCHANGED <<tx_handler, rx_handler, sends>>

\* An iteration that finds no handler: the call gives up, the packet it built
\* and the rest of the buffer are dropped.
NoHandler ==
  /\ Running
  /\ Top.i < total_chunks(Top.buffer)
  /\ tx_handler = NULL
  /\ PopTop
  /\ last' = Outcome(Top, TRUE, FALSE)
  /\ UNCHANGED <<tx_handler, rx_handler, sends>>

\* Mutant of HandlerReturns: only the last answer counts.
HandlerReturnsLastOnly(tx_result) ==
  /\ Depth > 0
  /\ Top.calling
  /\ SetTop([Top EXCEPT !.calling = FALSE,
                        !.return_status = tx_result,
                        !.acks = Append(@, tx_result),
                        !.i = @ + 1])
  /\ UNCHANGED <<tx_handler, rx_handler, last, sends>>

\* Mutant of HandlerReturns: a refused chunk is taken back and tried again.
HandlerReturnsRetry(tx_result) ==
  /\ Depth > 0
  /\ Top.calling
  /\ SetTop(IF tx_result
            THEN [Top EXCEPT !.calling = FALSE, !.acks = Append(@, TRUE), !.i = @ + 1]
            ELSE [Top EXCEPT !.calling = FALSE, !.out = Front(@),
                             !.buffer_offset = @ - ChunkLen(Top.buffer, Top.i)])
  /\ UNCHANGED <<tx_handler, rx_handler, last, sends>>

\* The handler returns tx_result; the loop goes on whatever it is.
HandlerReturns(tx_result) ==
  /\ Depth > 0
  /\ Top.calling
  /\ SetTop([Top EXCEPT !.calling = FALSE,
                        !.return_status = @ /\ tx_result,
                        !.acks = Append(@, tx_result),
                        !.i = @ + 1])
  /\ UNCHANGED <<tx_handler, rx_handler, last, sends>>

\* The loop is over: send() returns return_status.
Return ==
  /\ Running
  /\ Top.i >= total_chunks(Top.buffer)
  /\ PopTop
  /\ last' = Outcome(Top, FALSE, Top.return_status)
  /\ UNCHANGED <<tx_handler, rx_handler, sends>>

-----------------------------------------------------------------------------
\* The handler registry.

RegisterTx(handler) ==
  /\ CallerActive
  /\ tx_handler' = handler
  /\ UNCHANGED <<rx_handler, stack, last, sends>>

RegisterRx(handler) ==
  /\ CallerActive
  /\ rx_handler' = handler
  /\ UNCHANGED <<tx_handler, stack, last, sends>>

clear_handlers ==
  /\ CallerActive
  /\ tx_handler' = NULL
  /\ rx_handler' = NULL
  /\ UNCHANGED <<stack, last, sends>>

-----------------------------------------------------------------------------
\* The steps of the code once it is called, and the steps of its callers.
System == SendPacket \/ NoHandler \/ Return

Callers ==
  \/ \E buffer \in Messages : Send(buffer)
  \/ \E handler \in TxHandlers : RegisterTx(handler)
  \/ \E handler \in RxHandlers : RegisterRx(handler)
  \/ clear_handlers

HandlerStep == \E tx_result \in BOOLEAN : HandlerReturns(tx_result)

Next == System \/ HandlerStep \/ Callers

Spec == Init /\ [][Next]_vars

\* send() runs to its end once called, provided that every handler returns.
Fairness == WF_vars(System) /\ WF_vars(HandlerStep)

FairSpec == Spec /\ Fairness

-----------------------------------------------------------------------------
\* Properties.

\* Every variable has the shape the code gives it; a marshalled packet always
\* fits the buffer of Packet_size bytes (marshal never returns -1, which send()
\* does not check) and its string always leaves room for the terminator.
TypeOK ==
  /\ tx_handler \in TxHandlers \cup {NULL}
  /\ rx_handler \in RxHandlers \cup {NULL}
  /\ stack \in Seq(Frame)
  /\ last \in Returned \cup {NULL}
  /\ sends \in Nat

\* buffer_offset advances by the length computed for each packet, the packets
\* are counted by another formula: the two never disagree so far that strncpy
\* would read past the end of the caller's buffer or past Packet.data.
ReadsInBounds ==
  \A d \in 1 .. Depth :
    LET f == stack[d] IN
      /\ f.buffer_offset <= Len(f.buffer)
      /\ ~f.calling /\ f.i < total_chunks(f.buffer)
           => /\ ChunkLen(f.buffer, f.i) \in 0 .. ChunkSize
              /\ f.buffer_offset + ChunkLen(f.buffer, f.i) <= Len(f.buffer)

\* n packets of ChunkSize bytes are enough for the buffer.
Covers(n, buffer) == n * ChunkSize >= Len(buffer)

\* The packets of one call, as far as they were sent: the first one and only it
\* opens the message, the one that completes the buffer and only it closes the
\* message, no packet follows it, and each sequence number is the successor of
\* the one before modulo the range of a u8.
WellFramed(out, buffer) ==
  \A k \in 1 .. Len(out) :
    /\ out[k].flag \in {"FIRST", "FIRSTLAST"} <=> k = 1
    /\ out[k].flag \in {"LAST", "FIRSTLAST"} <=> Covers(k, buffer)
    /\ Covers(k, buffer) => k = Len(out)
    /\ out[k].sequence_number =
         IF k = 1 THEN 0 ELSE (out[k - 1].sequence_number + 1) % SequenceMod

\* A receiver that tells the calls apart can delimit every message, whatever the
\* handlers answer and whatever they send themselves before they return.
MessagesDelimited ==
  /\ \A d \in 1 .. Depth : WellFramed(stack[d].out, stack[d].buffer)
  /\ last # NULL => WellFramed(last.out, last.buffer)

\* send() returns true exactly when as many packets as the buffer needs went to the
\* handler and every one was accepted; fewer go only when one of them found no handler,
\* never because an earlier one was refused.  It counts packets: what they carry is
\* PiecesIntact's matter, and TrueMeansDelivered fails.
ResultHonest ==
  last # NULL =>
    /\ last.result <=> /\ Covers(Len(last.out), last.buffer)
                       /\ \A k \in 1 .. Len(last.acks) : last.acks[k]
    /\ Len(last.acks) = Len(last.out)
    /\ ~Covers(Len(last.out), last.buffer) <=> last.aborted

\* The buffer's k-th piece.
Slice(buffer, k) ==
  SubSeq(buffer, (k - 1) * ChunkSize + 1,
         IF k * ChunkSize < Len(buffer) THEN k * ChunkSize ELSE Len(buffer))

\* A buffer that send() can carry: no NUL, and the last chunk of several is not
\* a full one (see the two findings).
Carried(buffer) ==
  /\ \A j \in 1 .. Len(buffer) : buffer[j] # NUL
  /\ Len(buffer) > ChunkSize => Len(buffer) % ChunkSize # 0

\* Of such a buffer every packet carries exactly its piece, so what the handler
\* received is the buffer when send() returned true and a prefix of it otherwise.
PiecesIntact ==
  /\ \A d \in 1 .. Depth : Carried(stack[d].buffer) =>
       \A k \in 1 .. Len(stack[d].out) :
         stack[d].out[k].data = Slice(stack[d].buffer, k)
  /\ last # NULL /\ Carried(last.buffer) =>
       \A k \in 1 .. Len(last.out) : last.out[k].data = Slice(last.buffer, k)

\* A receiver that recomputes the CRC over the string it decoded agrees with the
\* sender unless a NUL hid a part of the piece (the CRC covers the padding too).
CrcVerifies ==
  \A d \in 1 .. Depth :
    LET f == stack[d] IN
      f.calling /\ Carried(f.buffer) =>
        f.out[Len(f.out)].crc = calculate_crc(f.out[Len(f.out)].data)

\* The bytes the tx handler received from the call that returned last.
Reassembled == FlattenSeq([k \in 1 .. Len(last.out) |-> last.out[k].data])

\* What the tests of send() assume of every buffer: when it returns true, the
\* strings of its packets, one after the other, are the buffer.
TrueMeansDelivered ==
  last # NULL /\ last.result => Reassembled = last.buffer

\* Every call of send() returns, nested calls included, however often the
\* handlers refuse, are replaced or are cleared.
SendReturns == Depth > 0 ~> Depth = 0
=============================================================================
