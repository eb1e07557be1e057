------------------------------ MODULE PbEncode ------------------------------
(***************************************************************************)
(* pb_encode() and its variants, lib/nanopb-0.3.9.3/pb_encode.c.           *)
(*                                                                         *)
(* The caller's struct is Struct.mem, a function from addresses to what    *)
(* begins there: a number, a byte or, for a pointer, the address of what   *)
(* it points to (0 for NULL).  Each pb_encode in progress is a frame of    *)
(* the stack, and outs has the output stream of each.  The data of a field *)
(* is written by several calls of pb_write, which are planned when the     *)
(* field is reached, as the struct does not change, and are one action     *)
(* each.  A submessage is encoded twice: to find out its size and then to  *)
(* write it.  Callbacks and the encoders of foreign extensions are the     *)
(* application's: they write what they like, in each pass anew, and may    *)
(* ignore that a write has failed.                                         *)
(***************************************************************************)
EXTENDS PbField, PbScalar, PbOStream, SequencesExt, TLC

CONSTANTS
  Sources,     \* the structs, numbered: [msg, mem]
  Extensions,  \* the extensions linked to each message type, in order
  Chunks,      \* what a callback may write at once
  MaxChunks    \* bound on the chunks that one call of a callback writes

\* No pointers: their value is a pointer in the extension itself, which is no part of
\* the memory (default_extension_encoder()).
Extension ==
  [field : { f \in pb_field_t : PointsToStruct(f) /\ f.atype # "POINTER" }, dest : Int, foreign : BOOLEAN]

ASSUME SourcesAssumption    == \A k \in DOMAIN Sources : Sources[k].msg \in DOMAIN Structs
ASSUME ExtensionsAssumption == Extensions \in [DOMAIN Structs -> Seq(Extension)]
ASSUME ChunksAssumption     == Chunks \subseteq Seq(Octet)

VARIABLES
  source,  \* the number of the struct
  entry,   \* the function that was called
  bufsize, \* the size of the buffer
  buffer,  \* what was written, by its place in the buffer
  stack,   \* the calls of pb_encode in progress, the innermost last
  outs,    \* their streams
  result   \* NULL, until the call returns [ok, size]

vars == <<source, entry, bufsize, buffer, stack, outs, result>>

PbFunctions ==
  {"pb_encode", "pb_encode_delimited", "pb_encode_nullterminated", "pb_get_encoded_size"}

Top == stack[Len(stack)]
Out == outs[Len(outs)]

SetTop(f) == stack' = [stack EXCEPT ![Len(stack)] = f]

At(at) == stack # <<>> /\ Top.at = at

Fail(f) == SetTop([f EXCEPT !.at = "failed"])

\* All the structs; TLC evaluates them once.
AllStructs == Sources

Struct == AllStructs[source]

Cell(addr) == Struct.mem[addr]

Cells(addr, size) == [k \in 1 .. size |-> Cell(addr + k - 1)]

-----------------------------------------------------------------------------
\* pb_write() to the innermost stream, which leaves the frame as g if it succeeds and as
\* h if the stream is full.
pb_write(bytes, g, h) ==
  LET count  == Len(bytes)
      places == Places(Out, count)
  IN  IF Sizing(Out) \/ HasRoom(Out, count)
      THEN /\ outs' = [outs EXCEPT ![Len(outs)] = Wrote(Out, count)]
           /\ buffer' = [a \in DOMAIN buffer \cup places |->
                            IF a \in places THEN bytes[a - Out.state] ELSE buffer[a]]
           /\ SetTop(g)
      ELSE SetTop(h) /\ UNCHANGED <<outs, buffer>>

-----------------------------------------------------------------------------
\* What is to be written for a field: chunks, submessages, and the error at which the
\* field is given up.

Write(bytes) == [do |-> "write", bytes |-> bytes, msg |-> NULL, base |-> 0, size |-> 0]
Error == [do |-> "error", bytes |-> <<>>, msg |-> NULL, base |-> 0, size |-> 0]
Submessage(msg, base) ==
  [do |-> "submessage", bytes |-> <<>>, msg |-> msg, base |-> base, size |-> 0]
Body(item, size) == [item EXCEPT !.do = "body", !.size = size]

Varint(n) == Write(pb_encode_varint(GroupsOf(n)))

pb_encode_string(bytes) == <<Varint(Len(bytes)), Write(bytes)>>

pb_encode_tag_for_field(field) ==
  IF field.ltype \in LTypes \ {"EXTENSION"}
  THEN Write(pb_encode_tag(WireType(field.ltype), field.tag)) ELSE Error

\* The length of a bytes array comes before its bytes.
LengthSize == 2

StringLength(addr, max_size) ==
  CHOOSE n \in 0 .. max_size :
    /\ \A k \in 0 .. n - 1 : Cell(addr + k) # 0
    /\ n < max_size => Cell(addr + n) = 0

Unbounded == PB_SIZE_MAX

EncodeInteger(field, n) ==
  IF field.data_size \notin IntSizes THEN Error
  ELSE Write(pb_encode_varint(CASE field.ltype = "VARINT"  -> pb_enc_varint(n)
                                [] field.ltype = "UVARINT" -> pb_enc_uvarint(n)
                                [] field.ltype = "SVARINT" -> pb_enc_svarint(n)))

\* Mutant of BytesFit: the bytes array may be larger than the member.
BytesAlwaysFit(field, addr) == TRUE

\* The length is a pb_size_t.
BytesFit(field, addr) ==
  Cell(addr) \in 0 .. IF field.atype = "STATIC" THEN field.data_size - LengthSize ELSE PB_SIZE_MAX

\* PB_ENCODERS, for the data at addr.
EncodeValue(field, addr) ==
  CASE field.ltype \in {"VARINT", "UVARINT", "SVARINT"} -> <<EncodeInteger(field, Cell(addr))>>
    [] field.ltype = "FIXED32" -> <<Write(Cells(addr, 4))>>
    [] field.ltype = "FIXED64" -> <<Write(Cells(addr, 8))>>
    [] field.ltype = "BYTES" ->
         IF addr = 0 THEN pb_encode_string(<<>>)
         ELSE IF BytesFit(field, addr)
         THEN pb_encode_string(Cells(addr + LengthSize, Cell(addr))) ELSE <<Error>>
    [] field.ltype = "STRING" ->
         IF addr = 0 THEN pb_encode_string(<<>>)
         ELSE pb_encode_string(Cells(addr, StringLength(addr,
                IF field.atype = "POINTER" THEN Unbounded ELSE field.data_size)))
    [] field.ltype = "SUBMESSAGE" ->
         IF field.ptr = NULL THEN <<Error>> ELSE <<Submessage(field.ptr, addr)>>
    [] field.ltype = "FIXED_LENGTH_BYTES" -> pb_encode_string(Cells(addr, field.data_size))
    [] OTHER -> <<Error>>

Tagged(field, addr) == <<pb_encode_tag_for_field(field)>> \o EncodeValue(field, addr)

-----------------------------------------------------------------------------
\* encode_array()

\* The entries of an array of strings or bytes behind a pointer are pointers too.
EntryOf(field, data, i) ==
  LET p == data + field.data_size * (i - 1) IN
    IF field.atype = "POINTER" /\ field.ltype \in {"STRING", "BYTES"} THEN Cell(p) ELSE p

PackedSize(field, values) ==
  CASE field.ltype = "FIXED32" -> 4 * Len(values)
    [] field.ltype = "FIXED64" -> 8 * Len(values)
    [] OTHER -> Len(FlattenSeq([i \in DOMAIN values |-> values[i].bytes]))

PackedArray(field, values, sizing) ==
  IF Error \in ToSet(values) THEN <<Write(pb_encode_tag(2, field.tag)), Error>>
  ELSE << Write(pb_encode_tag(2, field.tag)), Varint(PackedSize(field, values)) >>
       \o (IF sizing THEN <<Write([k \in 1 .. PackedSize(field, values) |-> 0])>> ELSE values)

\* Counts are of type pb_size_t; there is no limit for the entries behind a pointer.
MaxEntries(field) == IF field.atype = "POINTER" THEN PB_SIZE_MAX ELSE field.array_size

encode_array(field, data, count, sizing) ==
  IF count = 0 THEN <<>>
  ELSE IF count \notin 0 .. MaxEntries(field) THEN <<Error>>
  ELSE IF field.ltype \in Packable
  THEN PackedArray(field,
         [i \in 1 .. count |-> EncodeValue(field, data + field.data_size * (i - 1))[1]], sizing)
  ELSE FlattenSeq([i \in 1 .. count |-> Tagged(field, EntryOf(field, data, i))])

-----------------------------------------------------------------------------
\* pb_check_proto3_default_value()

\* A byte-per-byte comparison of as many bytes as what the member points to has.
IsZero(field, addr) ==
  IF field.atype = "POINTER" /\ field.data_size < PointerSize
  THEN Cell(addr) % 256^field.data_size = 0
  ELSE \A k \in 1 .. field.data_size : Cell(addr + k - 1) = 0

\* Mutant of IsEmpty: the fields of a submessage are not looked at.
IsEmptyShallow(field, addr, sub) ==
  CASE field.ltype \in {"BYTES", "STRING"} -> Cell(addr) = 0
    [] field.ltype = "FIXED_LENGTH_BYTES" -> field.data_size = 0
    [] field.ltype = "SUBMESSAGE" -> Cell(addr) = 0
    [] OTHER -> IsZero(field, addr)

\* A static proto3 field has its zero value; sub: a submessage there has.
IsEmpty(field, addr, sub) ==
  CASE field.ltype \in {"BYTES", "STRING"} -> Cell(addr) = 0
    [] field.ltype = "FIXED_LENGTH_BYTES" -> field.data_size = 0
    [] field.ltype = "SUBMESSAGE" -> sub
    [] OTHER -> IsZero(field, addr)

FieldIsDefault(field, addr, sub) ==
  CASE field.htype = "REQUIRED" -> FALSE
    [] field.htype = "REPEATED" -> field.size_offset # 0 /\ Cell(addr + field.size_offset) = 0
    [] field.htype = "ONEOF" -> Cell(addr + field.size_offset) = 0
    [] field.htype = "OPTIONAL" /\ field.size_offset # 0 -> Cell(addr + field.size_offset) = 0
    [] OTHER -> IF field.atype = "STATIC" THEN IsEmpty(field, addr, sub) ELSE IsZero(field, addr)

\* All the fields of the submessage at base.
SubmessageIsDefault[msg \in DOMAIN Structs, base \in DOMAIN Struct.mem] ==
  LET iters[k \in 1 .. FieldCount(msg)] ==
        IF k = 1 THEN pb_field_iter_begin(msg, base)
        ELSE pb_field_iter_next(msg, base, iters[k - 1])
      Nested(field, addr) ==
        field.ltype = "SUBMESSAGE" /\ field.atype = "STATIC" /\ SubmessageIsDefault[field.ptr, addr]
      IsDefault(field, addr) == FieldIsDefault(field, addr, Nested(field, addr))
  IN  \A k \in 1 .. FieldCount(msg) : IsDefault(FieldAt(msg, k), iters[k].pData)

pb_check_proto3_default_value(field, addr) ==
  FieldIsDefault(field, addr,
    field.ltype = "SUBMESSAGE" /\ field.atype = "STATIC" /\ SubmessageIsDefault[field.ptr, addr])

-----------------------------------------------------------------------------
\* encode_basic_field()

\* What an optional field's has_ member says, or what stands in for it.
Present(field, addr, data) ==
  IF field.size_offset # 0 THEN Cell(addr + field.size_offset) # 0
  ELSE IF field.atype = "POINTER" THEN data # 0
  ELSE ~pb_check_proto3_default_value(field, addr)

BasicField(field, addr, data, sizing) ==
  CASE field.htype = "REQUIRED" ->
         IF field.atype = "POINTER" /\ data = 0 THEN <<Error>> ELSE Tagged(field, data)
    [] field.htype = "OPTIONAL" ->
         IF Present(field, addr, data) THEN Tagged(field, data) ELSE <<>>
    [] field.htype = "REPEATED" ->
         encode_array(field, data, IF field.size_offset # 0 THEN Cell(addr + field.size_offset)
                                   ELSE field.array_size, sizing)
    [] field.htype = "ONEOF" ->
         IF Cell(addr + field.size_offset) = field.tag THEN Tagged(field, data) ELSE <<>>

encode_basic_field(field, addr, sizing) ==
  BasicField(field, addr, IF field.atype = "POINTER" THEN Cell(addr) ELSE addr, sizing)

-----------------------------------------------------------------------------
\* Frames.  at: what the call is doing; todo: what is left to be written; then: where it
\* goes on after that; ext: the next extension; chunks: what the callback has written.

Frame(msg, base) ==
  [ msg |-> msg, base |-> base, it |-> pb_field_iter_begin(msg, base),
    at |-> IF FieldCount(msg) = 0 THEN "done" ELSE "field",
    todo |-> <<>>, then |-> "next", ext |-> 0, chunks |-> 0 ]

Init ==
  /\ source \in DOMAIN Sources
  /\ entry \in PbFunctions
  /\ bufsize \in BufferSizes
  /\ buffer = <<>>
  /\ stack = <<>>
  /\ outs = <<>>
  /\ result = NULL

\* pb_encode_delimited is pb_encode_submessage.
Call ==
  LET f == Frame(Struct.msg, 1) IN
    /\ stack = <<>>
    /\ result = NULL
    /\ outs' = << IF entry = "pb_get_encoded_size" THEN PB_OSTREAM_SIZING
                  ELSE pb_ostream_from_buffer(bufsize) >>
    /\ stack' = << IF entry = "pb_encode_delimited"
                   THEN [f EXCEPT !.at = "write", !.then = "closed",
                                  !.todo = <<Submessage(Struct.msg, 1)>>]
                   ELSE f >>
    /\ UNCHANGED <<source, entry, bufsize, buffer, result>>

Field(f) == FieldAt(f.msg, f.it.pos)

Planned(f, todo, then) == SetTop([f EXCEPT !.at = "write", !.todo = todo, !.then = then])

\* The callback at addr, if there is one.
AskCallback(f, addr, then) ==
  SetTop([f EXCEPT !.at = IF Cell(addr) = 0 THEN then ELSE "callback", !.then = then,
                   !.chunks = 0])

EncodeField ==
  LET f == Top IN
    /\ At("field")
    /\ \/ /\ Field(f).ltype = "EXTENSION"
          /\ SetTop([f EXCEPT !.at = "extension", !.ext = 1])
       \/ /\ Field(f).ltype # "EXTENSION"
          /\ Field(f).atype = "CALLBACK"
          /\ AskCallback(f, f.it.pData, "next")
       \/ /\ Field(f).ltype # "EXTENSION"
          /\ Field(f).atype # "CALLBACK"
          /\ Planned(f, encode_basic_field(Field(f), f.it.pData, Sizing(Out)), "next")
    /\ UNCHANGED <<source, entry, bufsize, buffer, outs, result>>

NextField ==
  LET f == Top IN
    /\ At("next")
    /\ SetTop(IF HasNext(f.msg, f.it)
              THEN [f EXCEPT !.it = pb_field_iter_next(f.msg, f.base, f.it), !.at = "field"]
              ELSE [f EXCEPT !.at = "done"])
    /\ UNCHANGED <<source, entry, bufsize, buffer, outs, result>>

\* encode_extension_field(): the extensions in turn.
Linked(f) == IF Cell(f.it.pData) = 0 THEN <<>> ELSE Extensions[f.msg]

EncodeExtension ==
  LET f == Top
      e == Linked(f)[f.ext]
      g == [f EXCEPT !.ext = @ + 1]
  IN
    /\ At("extension")
    /\ \/ /\ f.ext > Len(Linked(f))
          /\ SetTop([f EXCEPT !.at = "next"])
       \/ /\ f.ext <= Len(Linked(f))
          /\ e.foreign
          /\ SetTop([g EXCEPT !.at = "callback", !.then = "extension", !.chunks = 0])
       \/ /\ f.ext <= Len(Linked(f))
          /\ ~e.foreign /\ e.field.atype = "CALLBACK"
          /\ AskCallback(g, e.dest, "extension")
       \/ /\ f.ext <= Len(Linked(f))
          /\ ~e.foreign /\ e.field.atype = "STATIC"
          /\ Planned(g, encode_basic_field(e.field, e.dest, Sizing(Out)), "extension")
    /\ UNCHANGED <<source, entry, bufsize, buffer, outs, result>>

\* The application writes a chunk, whatever becomes of it, and returns in the end.
CallbackWrites(bytes) ==
  /\ At("callback")
  /\ Top.chunks < MaxChunks
  /\ pb_write(bytes, [Top EXCEPT !.chunks = @ + 1], [Top EXCEPT !.chunks = @ + 1])
  /\ UNCHANGED <<source, entry, bufsize, result>>

CallbackReturns(ok) ==
  /\ At("callback")
  /\ SetTop([Top EXCEPT !.at = IF ok THEN Top.then ELSE "failed"])
  /\ UNCHANGED <<source, entry, bufsize, buffer, outs, result>>
-----------------------------------------------------------------------------
\* What was planned is done.

ToDo(do) == At("write") /\ Top.todo # <<>> /\ Head(Top.todo).do = do

WriteChunk ==
  /\ ToDo("write")
  /\ pb_write(Head(Top.todo).bytes, [Top EXCEPT !.todo = Tail(@)], [Top EXCEPT !.at = "failed"])
  /\ UNCHANGED <<source, entry, bufsize, result>>

GiveUp ==
  /\ ToDo("error")
  /\ Fail(Top)
  /\ UNCHANGED <<source, entry, bufsize, buffer, outs, result>>

FieldWritten ==
  /\ At("write")
  /\ Top.todo = <<>>
  /\ SetTop([Top EXCEPT !.at = Top.then])
  /\ UNCHANGED <<source, entry, bufsize, buffer, outs, result>>

\* pb_encode_submessage(): a first pass for the size.
SizeSubmessage ==
  LET item == Head(Top.todo) IN
    /\ ToDo("submessage")
    /\ stack' = Append(stack, Frame(item.msg, item.base))
    /\ outs' = Append(outs, PB_OSTREAM_SIZING)
    /\ UNCHANGED <<source, entry, bufsize, buffer, result>>

\* The size was found: it is written, and then the body, or as many bytes are counted.
Sized(f, size, sizing) ==
  [f EXCEPT !.todo = << Varint(size),
                        IF sizing THEN Write([k \in 1 .. size |-> 0])
                        ELSE Body(Head(@), size) >> \o Tail(@)]

\* Mutant of BodyFits: the second pass begins even if its bytes do not fit.
BodyAlwaysFits(size) == TRUE

BodyFits(size) == HasRoom(Out, size)

\* The second pass.
WriteSubmessage ==
  LET item == Head(Top.todo) IN
    /\ ToDo("body")
    /\ IF BodyFits(item.size)
       THEN /\ stack' = Append(stack, Frame(item.msg, item.base))
            /\ outs' = Append(outs, SubStream(Out, item.size))
       ELSE Fail(Top) /\ UNCHANGED outs
    /\ UNCHANGED <<source, entry, bufsize, buffer, result>>

\* Mutant of SizeKept: nobody compares the sizes of the two passes.
SizeNotCompared(item, s) == TRUE

SizeKept(item, s) == s.bytes_written = item.size

Terminates == entry = "pb_encode_nullterminated" /\ Len(stack) = 1

\* pb_encode_nullterminated() writes a zero in the end.
Terminate ==
  /\ At("done")
  /\ Terminates
  /\ Planned(Top, <<Write(<<0>>)>>, "closed")
  /\ UNCHANGED <<source, entry, bufsize, buffer, outs, result>>

Returning == At("closed") \/ At("failed") \/ (At("done") /\ ~Terminates)

\* To the caller.
ReturnToCaller ==
  /\ Returning
  /\ Len(stack) = 1
  /\ stack' = <<>> /\ outs' = <<>>
  /\ result' = [ok |-> ~At("failed"), size |-> Out.bytes_written]
  /\ UNCHANGED <<source, entry, bufsize, buffer>>

\* To pb_encode_submessage().
ReturnToSubmessage ==
  LET f    == stack[Len(stack) - 1]
      s    == outs[Len(outs) - 1]
      item == Head(f.todo)
      failed == [f EXCEPT !.at = "failed"]
  IN
    /\ Returning
    /\ Len(stack) > 1
    /\ \/ /\ Sizing(Out)
          /\ stack' = Append(SubSeq(stack, 1, Len(stack) - 2),
                        IF At("failed") THEN failed ELSE Sized(f, Out.bytes_written, Sizing(s)))
          /\ outs' = SubSeq(outs, 1, Len(outs) - 1)
       \/ /\ ~Sizing(Out)
          /\ stack' = Append(SubSeq(stack, 1, Len(stack) - 2),
                        IF At("failed") \/ ~SizeKept(item, Out) THEN failed
                        ELSE [f EXCEPT !.todo = Tail(@)])
          /\ outs' = Append(SubSeq(outs, 1, Len(outs) - 2), Joined(s, Out))
    /\ UNCHANGED <<source, entry, bufsize, buffer, result>>

-----------------------------------------------------------------------------
Encoder ==
  EncodeField \/ NextField \/ EncodeExtension \/ WriteChunk \/ GiveUp \/ FieldWritten
    \/ SizeSubmessage \/ WriteSubmessage \/ Terminate \/ ReturnToCaller \/ ReturnToSubmessage

Callback == \E ok \in BOOLEAN : CallbackReturns(ok)

Next ==
  \/ Call
  \/ Encoder
  \/ \E bytes \in Chunks : CallbackWrites(bytes)
  \/ Callback

\* Callbacks return.
Fairness == WF_vars(Encoder \/ Callback)

Spec == Init /\ [][Next]_vars /\ Fairness

-----------------------------------------------------------------------------
\* Properties.

\* What was written, and the streams it was written to.
Output == INSTANCE PbOutput WITH touched <- DOMAIN buffer

\* Nothing is written behind the buffer: the invariant of PbOutput, here for what
\* pb_encode() itself and the callbacks of the application do.
WithinBuffer == Output!WithinBuffer

\* pb_encode() writes through streams only as PbOutput says: it opens and closes them
\* in order, sizes before it writes, and leaves no gaps.
ImplementsOutput == Output!Spec

\* Every call returns.
EncodeReturns == stack # <<>> ~> result # NULL
=============================================================================
