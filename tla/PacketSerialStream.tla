------------------------- MODULE PacketSerialStream -------------------------
(***************************************************************************)
(* PacketSerial implements PacketStream when the callers send only buffers *)
(* that send() can carry: the loop with its running offset, the flags and  *)
(* the wrapping sequence number produce the pieces of the message, and the *)
(* status gathered over the answers is the result promised.                *)
(***************************************************************************)
EXTENDS PacketSerial

\* A packet, seen as a piece of its message.
AsPiece(packet) ==
  [ data   |-> packet.data,
    number |-> packet.sequence_number,
    first  |-> packet.flag \in {"FIRST", "FIRSTLAST"},
    final  |-> packet.flag \in {"LAST", "FIRSTLAST"} ]

AsPieces(out) == [k \in 1 .. Len(out) |-> AsPiece(out[k])]

AsCall(frame) ==
  [ message |-> frame.buffer,
    handed  |-> AsPieces(frame.out),
    refused |-> ~frame.return_status ]

Calls == [d \in 1 .. Depth |-> AsCall(stack[d])]

Ended ==
  IF last = NULL THEN NULL
  ELSE [ message |-> last.buffer, handed |-> AsPieces(last.out), result |-> last.result ]

Stream == INSTANCE PacketStream
            WITH calls <- Calls, ended <- Ended, None <- NULL

\* send() cuts every buffer it can carry as PacketStream says and returns what
\* PacketStream says.
ImplementsStream == Stream!StreamSpec

\* The same, with the promise that every call ends.
ImplementsFairStream == Stream!FairStreamSpec
=============================================================================
