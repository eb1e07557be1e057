# TLA+ verification of embedded_testbench

embedded_testbench is a small messaging stack for microcontrollers, in C: a packet link
that cuts buffers into CRC-protected packets (`src/PacketSerial.c`), and a registry that
decodes protobuf messages and dispatches them to handlers (`src/ProtoBuff.c`).  Both stand
on vendored libraries: nanopb, which decodes and encodes every message, a CRC-8, a logger and
COBS.  This directory models that code in TLA+, checks it with TLC on small instances and
proves most of its safety properties with TLAPS for all values of the constants.  Paths below are relative to the repository.

## 1. Inventory

| Part | State it keeps | Operations | Interaction |
|---|---|---|---|
| Packet link, `src/PacketSerial.c` | `tx_handler`, `rx_handler` | `send`, `register_*_handler`, `get_*_handler`, `clear_handlers`, `update` (empty) | calls ProtoBuff.marshal and Crc8; calls the tx handler synchronously, which may call back |
| Handler registry, `src/ProtoBuff.c` | `handlers[16]` (volatile), `handlers_usage_mask` | `add_handler`, `clear_handlers`, dispatch in `unmarshal` | calls the registered callback, which may call back; interrupts may dispatch |
| Decoding, `src/ProtoBuff.c` | none (locals of a call) | `unmarshal`, `explicit_unmarshal`, `decode_union`, `marshal` | reads through nanopb streams; the handler shares the stream |
| CRC-8, `lib/crc8/Crc8.c` | none | `Crc8`, `Crc8Block` (not called) | used by PacketSerial |
| nanopb decoder, `lib/nanopb-0.3.9.3/pb_decode.c` | the caller's struct and stream; per call an iterator, the bitmap of required fields, the count of a fixed array | `pb_decode`, `_noinit`, `_delimited`, `_nullterminated`, substreams, `pb_skip_field` | called by the handlers and by `decode_union`; calls the application's callbacks and extension decoders |
| nanopb encoder, `pb_encode.c` | the output stream (a buffer, a count) | `pb_encode`, `_delimited`, `_nullterminated`, `pb_get_encoded_size`, `pb_write` | called by `marshal`; calls the application's callbacks, for a submessage twice |
| nanopb descriptions, `pb.h`, `pb_common.c` | none | the `PB_FIELD` macros, `pb_field_iter_*` | say and find where the members of a struct are |
| Logging, `lib/log/log.c` | sink, level, lock hook | `log_log`, `log_set_*` | called everywhere; calls the lock hook |
| COBS, COBS/R, `lib/cobs-c-0.5.0` | none (locals of a call) | `cobs_encode`, `cobs_decode`, `cobsr_encode`, `cobsr_decode` | called by no file of `src/`; a caller may pass one buffer as source and destination |
| Schema, `src/hid.proto`, `src/hid.options` | - | - | fixes the sizes of a Packet |

No thread is created anywhere.  What makes the behaviours hard is:

* **re-entrancy**: handlers are foreign code called synchronously; they may register, clear,
  send and unmarshal while the call that invoked them is still in progress;
* **interrupts**: the handler table is `volatile`, and the order of the two stores in
  `add_handler` and in `clear_handlers` matters to an interrupt that looks at it in between;
* **arithmetic at boundaries**: the chunk count, the last chunk's length and the running
  offset of `send` come from three separate formulas; sequence numbers are a `u8`;
* **bytes that lie**: length prefixes, continuation bits and wire types of a received buffer
  are arbitrary, while a parent stream and its substream temporarily disagree;
* **buffers that run out**: the COBS functions stop anywhere, and what they leave must still be
  a string without zeros; decoding in place overwrites the buffer it reads;
* **two passes**: a submessage is encoded once for its length and once for its bytes, and a
  callback may write something else the second time;
* **layout**: nanopb finds a member of a struct by adding up distances and sizes that macros
  computed, and writes where the sum says: an array one entry too long, a string without room
  for its NUL or a union taken for two members would overwrite the next member;
* **bookkeeping across fields**: fields come in any order, twice, or in two messages that are
  merged; required fields are bits in words, the count of a fixed array is kept aside;
* **partial failure**: a refused packet, a field that cannot be skipped, a handler that
  fails to decode its submessage do not stop the code.

What makes each part correct: for the link, that a receiver can delimit messages, that each
packet carries its piece under a CRC the receiver can verify, that the result of `send` is
honest and that `send` returns; for the registry, that mask and table agree at every moment, that
no message of a known type is ever given to a null pointer, and that all in all it is a bounded map; for
decoding, that no read leaves the buffer, that the right handler gets exactly its payload, and
that every call returns; for COBS, that the output has no zero and reads back, that neither
buffer is left, that the sizes of the headers suffice, and that any string, well-formed or not,
gets the status and output its blocks deserve; for nanopb, that a message is accepted exactly
when it is complete and fits, that the struct then has its values and nothing else of the struct
was written, that what is encoded is the struct and its lengths are true, that no byte is written
behind a buffer, and that every call returns.  `PROJECT.json` lists the hazards line by line.

## 2. Modules

| Module | Models | Correspondence |
|---|---|---|
| `Crc8` | `Crc8()` and `calculate_crc()` | a byte is the set of its one bits; xor is symmetric difference |
| `PacketSerial` | all of `PacketSerial.c`, with `marshal` of a Packet | one frame per call of `send` in progress (`i`, `buffer_offset`, `return_status`); `SendPacket` is a loop iteration up to the call of the handler, `HandlerReturns` its return, `NoHandler` and `Return` the two returns of `send` |
| `PacketStream` | abstract: what `send` promises | calls that hand over numbered pieces and end with an honest result |
| `PacketSerialStream` | refinement mapping of the link | a packet is a piece, a frame is a call |
| `HandlerMap` | abstract: a bounded map from types to callbacks, changed by one registration or clearing at a time | - |
| `ProtoBuff` | registry and dispatch of `ProtoBuff.c` | a stack of calls, each at one of its steps; every store to the table is an action, `memset` is one action per slot; `Interrupt` may come between any two |
| `ProtoBuffMap` | refinement mapping of the registry | the map is what the slots showing a type hold; it is being changed from the claim of a slot, or the entry into `clear_handlers`, to the end of the call (`HalfDone`) |
| `PbStream` | streams of `pb_decode.c` | a stream is a position and a number of bytes left; every operator returns the stream as the function leaves it, on failure too |
| `PbWire` | what it means that a buffer's bytes are those of a message | the reference for `UnionDecode`: its well-formed inputs and what `RightType` and `PayloadExact` say of them |
| `UnionDecode` | `_unmarshal`, `unmarshal`, `explicit_unmarshal`, `decode_unionmessage_type`, `decode_union` | `Call` opens, `Scan` is one round of the loop, `Lookup`, the handler's actions, `Close` |
| `PbField` | `pb.h` and `pb_common.c` | `Structs` says where the compiler put the members, `PB_FIELD` what the macros make of that; `pb_field_iter_begin` and `_next` are operators |
| `PbScalar` | the scalar codecs of both sides | a 64-bit varint is ten groups of seven bits; an integer member has one, two or four bytes |
| `PbDecode` | `pb_decode.c` | one frame per `pb_decode_noinit` in progress (`it`, `fields_seen`, `fixed_count_*`, `extension_range_start` and the stream are those of the code); `Round` reads a tag, `Find` and `FindExtension` are one step of a search, `SingularField`, `RepeatedEntry`, `PackedArray`/`PackedEntry`/`PackedEnds`, `PointerField` and `CallbackField` decode, `EndMessage` and `CountRequired` are the checks behind the loop |
| `PbOStream` | output streams of `pb_encode.c` | a stream is a limit, a count and a place in the buffer |
| `PbOutput` | abstract: what any program may do with these streams | open, write, size, write a submessage, close |
| `PbEncode` | `pb_encode.c` | one frame per `pb_encode` in progress; `EncodeField` plans the writes of a field, `WriteChunk` is one `pb_write`, `SizeSubmessage` and `WriteSubmessage` begin the passes of `pb_encode_submessage`, `CallbackWrites` and `CallbackReturns` are the application's |
| `Cobs` | the size macros of both headers | also the reference for both directions: the blocks of a string, from each place in it, and what they mean |
| `CobsEncode` | `cobs_encode()`, `cobsr_encode()` | one call; `Start`, one action per iteration (`EncodeZero`, `EncodeNonZero`, which closes a full block in the same iteration, `Overflow`), and the three ways to end |
| `CobsDecode` | `cobs_decode()`, `cobsr_decode()` | one call; an action per code byte, per copied byte and per end of a block; with `single` every write changes `src` too |
| `MCPacketSerial`, `MCProtoBuff`, `MCUnionDecode`, `MCCobsEncode`, `MCCobsDecode`, `MCPbDecode`, `MCPbEncode` | instances for TLC; those of nanopb state what the output means, without streams and offsets | - |
| `MCPbMessages` | fields, their bytes and what they mean, for both instances of nanopb | - |
| `*_proofs` | the proofs; `PbStream_proofs` has the lemmas on streams for both decoders | - |

Abstractions.  Handlers, types and callbacks are model values; a Packet is kept decoded (its
fields and the size `marshal` returns) rather than as bytes, because what the receiver decodes
and whether the buffer is large enough is all that the link depends on.  The string of a
Packet is what `pb_enc_string` transmits: the bytes up to the first NUL.  A message's type is
an input of `ProtoBuff` and computed from bytes in `UnionDecode`.  `pb_decode` inside
`decode_union` reads any part of the submessage; what it does there is in `PbDecode`.  Logging is left out.  The values of
32-bit varints above 2^31 are represented by one value: they exceed every buffer and every
field number; buffers are shorter than 37 bytes, so the 8-bit `bitpos` does not wrap.

Memory, for nanopb, is a function from addresses to what begins there: a number, a byte, a
pointer.  A pointer to a callback or to the extensions is NULL or not; which function it is
does not matter, since callbacks do what they like.  When the decoder's struct is wiped or
initialised, the writes of all its members are one step, because nothing can look at them in
between: they are a sequence (`Write`), of which the last one to an address counts (`Store`).  What
initialising writes is a function over the message types, `Defaults`, that calls itself for
the structs in a struct and in its extensions.  Field sizes are 16 bits wide, as the build sets them (`PB_FIELD_16BIT`).

The plain and the reduced COBS functions are one module each, with a variable `reduced` chosen
at the call, because they are the same code but for the last block.  The largest byte, 0xFF,
is the constant `MaxCode`; pointers are offsets; an output byte that was never written is
`Unwritten`, so that leaving one in the output is seen.

History variables: `stray` (an access left its buffer) and `input` (COBS), `last` and `sends`
(PacketSerial), `answer` and `served`, with the step an interrupt came at, (ProtoBuff), `entry` (UnionDecode), `calls` and `first`
(PbDecode), and the fields `out`, `acks` and `found` of a frame, only record what happened.

## 3. Runs

| Run | Instance | Checks |
|---|---|---|
| `packet_all` | 3-byte data field (2 bytes a chunk), every buffer of at most 5 bytes over two letters and NUL, sequence numbers modulo 2 | types and sizes, reads in bounds, framing, contents, CRCs |
| `packet_nested` | messages of zero to three packets, two nested calls, three calls in all | each call frames its own packets, results are honest, every `send` returns, and it implements `PacketStream`, safety and liveness |
| `packet_full_chunks` | the real sizes, one buffer of 30 bytes | **violated**, finding 1 |
| `packet_zeros` | the real sizes, one marshalled DeviceDescriptor | **violated**, finding 2 |
| `registry` | 2 slots, 3 types, 2 callbacks, 3 nested calls, an interrupt between any two steps, with a message of any type or of none | mask and table agree; a message of no known type is served at most in the middle of a change; it implements `HandlerMap` |
| `decode` | messages of up to three fields of six kinds, delimited or not, zero-padded; all strings of up to 4 bytes over 7 values; varints of 5 to 10 bytes | type and payload are those of the first submessage; no read leaves the buffer, calls return |
| `cobs_encode` | `MaxCode` = 3; every source of up to 5 bytes, destinations of 0 to 9 bytes, both encoders | bounds, no zeros, exact output, header sizes, reading back |
| `cobs_encode_max` | `MaxCode` = 255; the empty source and 254 bytes | **violated**, finding 3 |
| `cobs_decode` | `MaxCode` = 3; every string of up to 5 bytes, into 0 to 5 bytes or in place, both decoders | bounds, sizes, in-place safety, exact output and status, termination |
| `pb_decode` | eight message types with every kind of field; messages of up to three fields (two where there are eleven or more kinds, four for the two arrays of fixed count), two messages of one field each merged into one struct, all strings of up to 3 bytes over 4 values | result and values are those of the message; it is accepted exactly if its required fields were found; no write outside the field at work; streams nest; calls return |
| `pb_encode` | twelve message types, their structs set, unset and wrong; buffers of 2, 10 and 36 bytes; callbacks that write or not, in each pass anew | output and lengths; nothing behind the buffer; it implements `PbOutput`; calls return |
| `pb_high_pointer` | a proto3 submessage with a string at address 256 | **violated**, finding 4 |

Why the bounds suffice. Three packets (FIRST, CONTINUE, LAST) show every branch of the loop of
`send`, and five bytes at two per chunk reach every remainder; sequence numbers modulo 2 wrap
within a message. Two nested calls show one call waiting for another; three calls let a second
call follow within the same handler. Two slots with three types make the registry full, leave a
hole before a used slot and let a slot be reused. Three fields put an unknown field and a field
with the right number but the wrong wire type before the submessage. `MaxCode` = 3 gives COBS
blocks of at most two bytes: five bytes hold two full blocks and a partial one, every code can
be right, too large or zero, and nine bytes of destination are more than any of these sources
needs.  For the decoder, words of two bits and a limit of three required fields (the code: 32
and 64) put a field at a word's boundary, leave a word half full and put a fourth field behind
the limit; two arrays of two entries each take four fields to interleave; two calls are enough for a struct that is not initialised again; two extensions and a
foreign one are asked in turn, a third extension is a submessage.  The strings of a few bytes hold cut varints, wrong wire types and
lengths that are too large.  For the encoder, 36 bytes are more than any message of the instance
needs, 2 and 10 cut it in a tag, a length, a string and a submessage; `Counts` = 0..40 is what
`PbOutput` may write at once, more than any buffer holds (the proof takes all numbers); one chunk per call of a callback
lets the passes differ in both directions.  Thirty of the forty (`MessagesDelimited` counts in
both its runs) are then proved without bounds (section 5).

Fairness. Nothing preempts the code for ever: a call in progress takes its next step (weak
fairness of `System`). A handler is assumed to return (weak fairness of `HandlerStep`, of
`HandlerEnds` in UnionDecode): `send` and `unmarshal` wait for it on the same stack and make no
promise if it does not. Nothing is assumed of the callers: the application may stop calling. A
COBS call is sequential and runs on (weak fairness of `Next`), which is all that its
termination assumes; it ends with the call, so only these runs, and those of nanopb, whose calls end too, switch
off the check for deadlock.  The decoder calls the callback of a string until it has read it
all, so `DecodeReturns` assumes that callbacks return and that one does not report success for
ever without reading; for the encoder it is enough that they return. Sends are bounded by `MaxSends`, so that a handler cannot send for ever.  That a callback of the
decoder could succeed for ever without reading (`pb_decode.c:687`) is thus listed as a hazard and assumed away, not checked.

Each property of a passing run has a mutant (an operator beside the definition it replaces,
with "Mutant of" in its comment) that breaks it: a dropped offset, a chunk too many,
the CRC over the whole field, a position shared by nested calls, a type published before its callback, a required field marked
in every word of the bitmap, the sizes of the two passes not compared, and so on.

## 4. Findings

1. `src/PacketSerial.c:50`.  The LAST packet takes `size % data_chunk_size` bytes, zero when
   the size is a multiple of 15.  A buffer of 30 bytes is sent as 15 bytes and an empty
   packet, and `send` returns true.  (`//take the ceiling`, line 25; the tests check LAST
   packets only for other sizes.)
2. `src/PacketSerial.c:16`.  A chunk is copied with `strncpy` and sent as a protobuf string, so it ends at
   its first NUL, though `send` takes a size and the tests send marshalled messages with it
   (`test/TestPacketSerial.c:187-191`).  The DeviceDescriptor of `test/TestProtoBuff.c`
   loses its last bytes and `send` returns true.

3. `lib/cobs-c-0.5.0/cobs.h:25`.  `COBS_ENCODE_DST_BUF_LEN_MAX(0)` is 0, but the encoding of
   the empty source is the byte 01: a buffer of the computed size overflows.  ("COBS always adds
   1 byte to the message length", `lib/cobs-c-0.5.0/README.rst:32`; the Python test computes
   the maximum with a formula of its own.)

4. `lib/nanopb-0.3.9.3/pb_encode.c:296`.  Whether a proto3 submessage is left out is decided
   by comparing the bytes of its members with zero, but for a pointer as many bytes as what it
   points to has: one for a string.  A string at an address whose lowest byte is zero passes for
   unset, and a submessage with nothing else is dropped.  (The comment on that branch, lines
   289-292, says that these fields "have integer or pointer value which can be compared with 0";
   `pb.h:432`: "Allocated fields carry the size of the actual data, not the pointer".)

`cobsr_decode` in place, which the tests exercise for `cobs_decode` only, turns out right.

Seen while modelling, without a run of its own: to set an extension to its default,
`iter_from_extension` (`pb_decode.c:745`, called at line 829) takes the `arg` of its type for a
field description, also when the type has a decoder of its own, whose `arg` is a "Free field for
use by the callback" (`pb.h:343`).  The model does the same: the `field` of a foreign extension is what
its `arg` is taken for.

`Carried(buffer)` in PacketSerial excludes exactly these buffers; the properties about
contents are stated for the others.

Two hazards of **interrupts** in the registry, where the code and its documents promise nothing, so that
no finding follows:

* A message of *no known type* is looked up as `NULL`.  An interrupt that dispatches one between the
  claim of a slot and the write of its type, or within `clear_handlers`, finds that slot and calls
  its callback, which can be null (`src/ProtoBuff.c:70`, `:113`).  The model has this:
  `MisservedOnlyHalfDone` says at which steps it can happen, that it is the only way to call a null
  pointer, and that the main program, which may dispatch unknown messages at any time, never sees such a
  slot; `HandlerMap` allows it (`Misserve`) while a change is under way and only then.
* The callbacks of an interrupt do not change the registry.  If one added the type that
  `add_handler` is about to publish, or cleared the registry, between lines 138 and 146, the type would be in two slots, or
  in one whose bit is zero.  This is left out of the model.

## 5. Proofs

| Theorem | Statement |
|---|---|
| `PacketSerial_proofs!TypeCorrect`, `ReadsStayInBounds`, `AllMessagesDelimited`, `ResultsHonest` | `Spec => []TypeOK`, `[]ReadsInBounds`, `[]MessagesDelimited`, `[]ResultHonest` |
| `PacketSerial_proofs!PiecesStayIntact`, `CrcsVerify` | `Spec => []PiecesIntact`, `[]CrcVerifies` |
| `PacketSerial_proofs!StreamImplemented` | if every message is `Carried`, `Spec => ImplementsStream` |
| `ProtoBuff_proofs!TypeCorrect`, `TypesOnce`, `MaskAndTableAgree` | `Spec => []TypeOK`, `[]NoTypeTwice`, `[]MaskMatchesTable` |
| `ProtoBuff_proofs!Misserved` | `Spec => []MisservedOnlyHalfDone` |
| `ProtoBuff_proofs!MapImplemented` | `Spec => ImplementsMap` |
| `UnionDecode_proofs!TypeCorrect`, `StreamsAlwaysFit`, `ScanAlwaysAdvances` | `Spec => []TypeOK`, `[]StreamsFit`, `ScanAdvances` |
| `UnionDecode_proofs!ScanInvariant`, `RightTypeAlways`, `PayloadAlwaysExact` | `Spec => []ScanInv`, `[]RightType`, `[]PayloadExact` |
| `CobsEncode_proofs!TypeCorrect`, `StaysInBounds`, `NeverAZeroByte`, `OutputIsExact` | `Spec => []TypeOK`, `[]InBounds`, `[]NoZeroByte`, `[]OutputExact` |
| `CobsEncode_proofs!HeaderSizeSuffices` | `Spec => []SizeMaxSuffices` |
| `CobsEncode_proofs!OutputReadsBack` | `Spec => []ReadsBack` |
| `CobsDecode_proofs!TypeCorrect`, `StaysInBounds`, `OutputNeverGrows`, `UnreadStaysIntact` | `Spec => []TypeOK`, `[]InBounds`, `[]NeverGrows`, `[]UnreadIntact` |
| `CobsDecode_proofs!DecodesWhatItMeans`, `ReportsTrueErrors` | `Spec => []DecodesExactly`, `[]ErrorsAreTrue` |
| `PbDecode_proofs!DecoderInvariance`, `DecoderStreamsFit`, `DecoderTypeOK` | `Spec => []IInv`, `[]StreamsFit`, `[]TypeOK` |
| `PbDecode_proofs!DecoderWritesInField`, `DecoderRequiredChecked` | `Spec => WritesInField`, `Spec => RequiredChecked` |
| `PbEncode_proofs!NothingBehindBuffer` | `ImplementsOutput => []WithinBuffer`: so any program that only does what `PbOutput` says |
| `PbEncode_proofs!Invariance`, `EncodeWithinBuffer` | `Spec => []IInv`, `[]WithinBuffer` |
| `PbEncode_proofs!EncodeImplementsOutput` | if `Counts = Nat`, `Spec => ImplementsOutput` |
| `PbDecode_proofs!IteratorBegins`, `IteratorFindsNext` | the iterator begins at the first member, and from each member `pb_field_iter_next` finds the next one and counts the required fields |

Assumptions: those the modules name.  For the link: at least one byte per chunk,
`PacketSize >= DataSize + 10` (what the nanopb generator reserves), messages are byte
sequences, `NULL` is no handler.  For the registry: at least one slot, `NULL` is no type,
no callback and no record.  For decoding: inputs are byte sequences, those that name the fields they consist of are their
encoding (`IsMessage`; the others are arbitrary), and `NULL` is no type.
For COBS: the largest byte is at least 2, and `Unwritten` is no byte.  For nanopb: sizes of
buffers and counts are natural numbers, inputs and what callbacks write are bytes, the type of each message is described, and members are laid out as a compiler does
it (`WellLaidOut`: in order, without overlap but in unions, none of them empty, structs smaller than
65535 bytes).  The descriptions are such as the generator makes them: a fixed32 has four
bytes and a fixed64 eight (`HasSize`), a struct fits in the member that it is in
(`ContainmentAssumption`, `ExtensionSizes`), only the entries of an array may be of a type without a
description, which is then an error of `pb_dec_submessage`, and extensions are described as
`PB_OPTEXT_STATIC` and `PB_OPTEXT_CALLBACK` do it, static ones as required fields and callbacks as optional ones,
and are no pointers (`IsExtensionField`, and `Extension` of `PbEncode`).  No struct is part of itself, which C forbids, nor is there a
way back to it through the extensions linked to its parts (`NestingAssumption`): initialising one
would never end, in the model, which links extensions to types rather than to structs.  The
memory holds the caller's struct and the extensions (`MemoriesAssumption`).
`Counts`, the numbers of bytes `PbOutput` may write at once, are all natural numbers in what
`PbOutput` means; the run has to enumerate them.  Nothing else restricts the messages: any
struct, any nesting, any bytes.

The `TypeOK` of the registry, of decoding and of COBS is not among the properties of a run: it is
proved instead.  So are `ScanAdvances`, of which `CallReturns` is the consequence that is run, and
`NoTypeTwice` of the registry, a part of its invariant: once callbacks have returned nothing comes between the
search for a duplicate and the end of `add_handler` but interrupts that leave the registry alone.

`ResultHonest` counts packets.  That `send` returns true means that all packets were accepted, and by
`PiecesIntact` that they held the buffer if it is `Carried`; findings 1 and 2 are the buffers for which
true is returned and bytes are lost.

**Link.**  `TypeOK` alone is not inductive: that a packet fits depends on its chunk's length, which
depends on where the loop is.  The invariant `IInv` says of every frame on the stack that the packets it
sent are those of the buffer in order (`PacketAt`), that the running offset is that of the next chunk,
that the answers are as many as the loop has counted, that the status is their conjunction, and
that only the innermost frame is not waiting; and of the last call that it sent everything or
found no handler.  The arithmetic - the ceiling covers the buffer, every chunk but the last
is full, the last one fits - is in `TotalChunks` and `ChunkLengths`.
Framing, results and contents follow from `IInv`; the refinement maps each action to a step of
`PacketStream` or to a stutter.

**Registry.**  `IInv` adds to mask-and-table agreement what each step of `add_handler` and
`clear_handlers` knows from the steps before it: the type is in no slot, the slot is claimed
and still empty, or its callback is written; the slots before `idx` are zeroed.  It is
preserved although callbacks re-enter, since only the innermost call is at work.  What an interrupt finds follows from
the agreement: a slot that shows no type and has its bit is the one being filled or one of a table being cleared,
so a dispatch for `NULL` remembers one of those steps (`served.during`), and at the last of them the callback is
already written.  For the
refinement, registering takes effect at the write of the type; a change is under way while `HalfDone`, which only
the innermost call can be; that the map is full exactly
when no bit is free needs the equal cardinalities of types and published slots.

**Decoding.**  Every reading operator ends where the stream ended and has no more left
(`ReadTo`); making a substream splits the bytes, closing it joins them.  The invariant adds
to `StreamsFit` that the parent of an undelimited message is the whole buffer.  That the type is
that of the first submessage and its payload the one handed on cannot be seen from where the scan is
alone: `ScanInv` says that it stands where some field begins and that every field before is no
submessage of a known type.  A step of the scan reads the key of that field and either opens the
field's payload or skips exactly to the next one, because the bytes of a varint decide its value and
its end (`PbWire` states what the bytes mean without saying how to read them), and the fields'
beginnings grow, so that the scan cannot meet one twice.  A zero for a key, which
ends a message that is padded, is only met behind the last field.

**COBS.**  An encoder's bounds depend on where the code byte of the block in progress will
go, which was reserved long before: `Pointers` relates it to the write pointer and to the
length of the block, and `Placed` says of each byte of the destination whether it was written
by now.  That the header's size suffices needs a potential: every full block costs one extra
byte and has consumed `MaxCode - 1` bytes of the source, so
`(MaxCode - 1) * FullBlocks + search_len - 1 <= src_read_ptr`; the last block is closed early
only while bytes are left.  A decoder's block has read its code before it writes
anything, and the zero behind the block makes up for it: the write pointer stays behind the
read pointer, by one within a block, which bounds the output and keeps what is still to be read.

What the bytes mean is defined from the outside: `BlocksFrom` gives, for each place of a string, the
blocks from there on.  It recurs towards the end of the string; that it satisfies its defining
equation (`BlockAt`) is proved by well-founded induction on the distance to the end, and the rest
uses only that equation.  The encoder writes the code of a block last, so nothing can be said of its
output yet when the block is open: `MeansSoFar` says that the bytes in front of the open block, followed
by any block whatever, mean the source read before that block began, and that the bytes of the open
one are the source's since.  Closing a block then turns "any block" into the one just written.  For the reduced
encoder the last code may be the last byte of the source, and points behind the end of the string: that is the only
case where the last block stands for more than its bytes.  The decoder needs the converse: `StandsAt`
says that what was written, followed by the meaning of the blocks from the read pointer on, is the meaning of the
input - in place too, as the unread part is intact.  After an overflow only a prefix is claimed
(`CutOff`), and each status bit set so far is `Justified` by the input.  Composed, the two say that
decoding what was encoded gives the source back.

**nanopb.**  In the decoder the bytes of a message are shared out among the calls in progress: each
frame has given its substream away (`left` is reduced) before it knows how much of it will be read.
A history, `end`, says where each call's message ends.  The invariant says of the innermost call that it
reads up to there - in its stream, or in the substream of a packed array or of a callback, which
have no frame - and of any two neighbours that the rest of the outer message begins where the
inner one ends; so that returning, with success or not, cannot lose or invent a byte.  It is
preserved by what a callback reads because that only moves within the substream, which
`pb_close_string_substream` then skips.

The decoder's `TypeOK` speaks of `fields_seen` and of the iterator, which is only a member's number and a place in memory.  It is
kept by `TInv`, which says of every frame that its iterator stands on a member the compiler placed,
that each required field's bit is in a word of the bitmap that exists, and that the frame's message is
one that is described.

`WritesInField` needs more, to say where a call decodes to.  `WInv` adds that the struct of every
call lies in the memory, and that the field being decoded is the member the iterator stands at or the
extension that is being asked, not one that was found before.  Then the sizes count.  A varint is
stored as wide as the member, a string or a bytes array is written only if it fits with its NUL or its
length, however long the line says it is, and a value of a fixed size has that size by its
description; an entry of an array is in it because the array is not full, and the counter, which is
incremented even then, is the member's own.  A submessage is in the member it was opened for,
since that is large enough for its type.  What is left is initialising, which writes a whole
struct with those in it and those of the extensions.  `DefaultsExist` shows that the recursion has a
solution, which TLA+ does not promise: two solutions for some of the types agree, so all of them
are one, and a type that it did not cover, but whose parts it does, could be added.  `DefaultsWrite`
shows that it writes no more than it may: of the types that would, one has none of them as a
part, so it does not either.  The writes of the members are found by following the iterator through
the struct, which is where the distances that telescope come in again.

`RequiredChecked` says that the check behind the loop accepts a message if and only if every required field
numbered below the limit was found in it.  `TInv` keeps (`Marked`) that the bits of `fields_seen` are
exactly the numbers of the required fields found so far; the bitmap can stand for the fields because
that numbering is one-to-one and leaves no number out (`IndexOnce`, `IndexReached`).  The iterator
may stop anywhere, so the number of fields is that of the ones before the last, one more if
the last is required, or the limit (`AllCounted`).  And comparing whole words with all ones and the
last one with a mask compares exactly the bits below that number (`WordsCompared`), also when
there is no last word, for every size of a word.

That the bounds of two nested output streams hold does not follow from those bounds alone:
`Streams` relates what each stream may still write to the end of the buffer (`EndsInBuffer`)
and the place of each stream to that of the one around it (`Nested`).  This is inductive for any
program that writes through the streams as `PbOutput` says.  That `pb_encode` is such a program
needs more than its streams: `Calls` says that there are as many calls in progress as streams, that the
calls around the innermost one wait for a submessage, which is the first of what they have planned
to write, and that a call that only sizes has planned no body of a submessage, since
`pb_encode_submessage` sizes those in a pass of their own.  Then each of its steps is one of `PbOutput`,
for every plan that `EncodeField` can make; the two invariants are preserved together.

For the iterator the sum of the distances telescopes: `FieldExtent` is the size
the macros subtracted, and the mark of a union, a distance no struct has, tells its
members from two unions next to each other.

Model-checked only: liveness (`SendReturns`, `ImplementsFairStream`, `CallReturns`,
`Terminates`, `DecodeReturns`, `EncodeReturns`), which the prover cannot do; and `ResultRight`,
`ValuesRight`, `OutputRight` and `LengthsRight`, whose references are RECURSIVE operators over
submessages.

## 6. Not modelled, and the plan

Not modelled:

* of nanopb: the code under `PB_ENABLE_MALLOC` (allocation of pointer fields, `pb_release`),
  which the build does not compile; integer members of eight bytes, as TLC's integers have 32
  bits; extensions that are pointers; streams with a callback of their own; `PB_BUFFER_ONLY` and
  the other build options; the generator, tests, examples and documentation, none of which runs
  on the device;
* `lib/log`: no other component depends on what it writes, and no file of `src/` installs its
  lock hook;
* `Crc8Block` and the disabled 16-bit variant of `Crc8`, which nothing calls;
* unit tests and build files, which were read as evidence of what the code is meant to do.
* `get_*_handler` and `update` change nothing; nothing calls `rx_handler`.

Done: the link, the registry, decoding, COBS, nanopb's decoder, encoder and iterator, their
abstract specifications, and the proofs of section 5.  What could follow, in this order:

1. `PacketReceiver` and `SerialLink`: a receiver written like those of the tests, composed with
   PacketSerial over a link that may lose, duplicate and reorder packets.  The repository has no
   receiver yet: the model would be of the tests, not of the program.
2. `Testbench`: ProtoBuff, UnionDecode and PbDecode in one, so that types and values come from bytes.
3. The allocating build of nanopb, with a heap that may run out in the middle of a field.
4. `CobsRoundTrip`: encoder and decoder in one module, so that the round trip is one theorem
   instead of two that meet in `Meaning`.
