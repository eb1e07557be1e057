------------------------------ MODULE PbDecode ------------------------------
(***************************************************************************)
(* pb_decode() and its variants, lib/nanopb-0.3.9.3/pb_decode.c, in the    *)
(* configuration of the firmware (no PB_ENABLE_MALLOC).                    *)
(*                                                                         *)
(* The caller's struct is memory: a function from addresses to what begins *)
(* there, a number or a byte.  Each pb_decode_noinit in progress, that of  *)
(* a message or of a submessage, is a frame of the stack with its iterator,*)
(* its stream and its bookkeeping; one action is one round of a loop or    *)
(* one call.  Callback functions and the decoders of foreign extensions    *)
(* are the application's: they read as much of their stream as they like.  *)
(*                                                                         *)
(* A pointer to a callback or to the extensions is 0 (NULL) or 1.          *)
(***************************************************************************)
EXTENDS PbField, PbScalar, SequencesExt, TLC

CONSTANTS
  Inputs,                  \* the streams: [buffer, msg, delimited, messages]
  Memories,                \* for each message type, what memory may hold before the first call
  Extensions,              \* the extensions linked to each message type, in order
  PB_MAX_REQUIRED_FIELDS,
  WordBits,                \* the bits of a word of fields_seen
  MaxCalls                 \* bound on the calls that use one stream and one struct

\* PB_OPTEXT_STATIC marks the field of an extension as required, PB_OPTEXT_CALLBACK as
\* optional; extensions that are pointers are left out.
IsExtensionField(f) ==
  /\ f.atype # "POINTER"
  /\ f.htype = (IF f.atype = "STATIC" THEN "REQUIRED" ELSE "OPTIONAL")
  /\ PointsToStruct(f) /\ HasSize(f.ltype, f.data_size)

\* Of a foreign one, field is what the arg of its type is taken for.
Extension == [ field : { f \in pb_field_t : IsExtensionField(f) }, dest : Int, found : Int,
               foreign : BOOLEAN ]

\* The extensions of all messages.
AllExtensions == UNION { ToSet(Extensions[msg]) : msg \in DOMAIN Structs }

\* Their values.
ExtensionCells(e) == (e.dest .. e.dest + e.field.data_size - 1) \cup {e.found}

\* The types of the structs in a struct, and of those in its extensions.
Parts(msg) ==
  { m.ptr : m \in { x \in ToSet(Structs[msg]) : HoldsStruct(x) } }
    \cup { e.field.ptr : e \in { x \in ToSet(Extensions[msg]) : HoldsStruct(x.field) } }

ASSUME InputsAssumption ==
  \A i \in Inputs : i.buffer \in Seq(Octet) /\ i.delimited \in BOOLEAN /\ i.msg \in DOMAIN Structs
ASSUME ExtensionsAssumption == Extensions \in [DOMAIN Structs -> Seq(Extension)]
ASSUME ExtensionSizes ==
  \A e \in AllExtensions :
    HoldsStruct(e.field) => e.field.ptr \in DOMAIN Structs /\ Holds(e.field.data_size, e.field.ptr)
\* No struct is part of itself, which C does not allow, nor do its extensions lead back to it.
ASSUME NestingAssumption ==
  \A types \in SUBSET DOMAIN Structs :
    types # {} => \E msg \in types : Parts(msg) \cap types = {}
\* The caller's struct and the extensions are in memory.
ASSUME MemoriesAssumption ==
  \A msg \in DOMAIN Structs : \A m \in Memories[msg] :
    /\ \A k \in DOMAIN Structs[msg] : MemberCells(0, Structs[msg][k]) \subseteq DOMAIN m
    /\ \A e \in AllExtensions : ExtensionCells(e) \subseteq DOMAIN m
ASSUME RequiredAssumption   == PB_MAX_REQUIRED_FIELDS \in Nat /\ WordBits \in Nat \ {0}
ASSUME CallsAssumption      == MaxCalls \in Nat

VARIABLES
  input,     \* the stream's buffer, and the type of the messages in it
  stream,    \* the caller's stream
  mem,       \* the caller's struct and the extensions
  stack,     \* the calls of pb_decode_noinit in progress, the innermost last
  calls,     \* history: how many calls there were
  first,     \* history: the last call that initialised the struct
  result     \* what the last call returned

vars == <<input, stream, mem, stack, calls, first, result>>

Top == stack[Len(stack)]

SetTop(f) == stack' = [stack EXCEPT ![Len(stack)] = f]

\* A write; a step makes a sequence of them.
Write(addr, value) == [addr |-> addr, value |-> value]

Targets(writes) == { writes[k].addr : k \in DOMAIN writes }

\* What a step does to the memory: the last write to an address counts.
Store(writes) ==
  \E w \in {writes} :
    mem' = [ a \in DOMAIN mem \cup Targets(w) |->
               LET to == { k \in DOMAIN w : w[k].addr = a } IN
                 IF to = {} THEN mem[a] ELSE w[Max(to)].value ]

Zeros(addr, size) == [k \in 1 .. size |-> Write(addr + k - 1, 0)]

\* Bytes of the stream to addr.
Copy(s, addr, size) == [k \in 1 .. size |-> Write(addr + k - 1, ByteAt(input.buffer, s, k))]

-----------------------------------------------------------------------------
\* Defaults.

\* The extensions of the pseudo-field at addr: none when its pointer is NULL.
Linked(msg, addr) == IF mem[addr] = 0 THEN <<>> ELSE Extensions[msg]

\* pb_field_set_to_default(), when a submessage has the defaults sub and the
\* extensions have the defaults ext.
FieldDefault(field, it, sub, ext) ==
  LET size  == <<Write(it.pSize, 0)>>
      array == field.htype \in {"REPEATED", "ONEOF"}
      value == IF field.ltype = "SUBMESSAGE" THEN sub
               ELSE IF field.ptr # NULL THEN <<Write(it.pData, field.ptr)>>
               ELSE Zeros(it.pData, field.data_size)
  IN  IF field.ltype = "EXTENSION" THEN ext
      ELSE CASE field.atype = "CALLBACK" -> <<>>
             [] field.atype = "POINTER" -> <<Write(it.pData, 0)>> \o (IF array THEN size ELSE <<>>)
             [] field.atype = "STATIC" /\ array -> size
             [] field.atype = "STATIC" /\ ~array ->
                  (IF field.htype = "OPTIONAL" /\ it.pSize # it.pData THEN size ELSE <<>>) \o value

\* iter_from_extension().
ExtensionIter(e) == [pData |-> e.dest, pSize |-> e.found]

ExtensionDefault(e, sub) ==
  <<Write(e.found, 0)>> \o FieldDefault(e.field, ExtensionIter(e), sub, <<>>)

\* The iterator at each member in turn.
Iters(msg, base) ==
  LET iter[k \in 1 .. FieldCount(msg)] ==
        IF k = 1 THEN pb_field_iter_begin(msg, base)
        ELSE pb_field_iter_next(msg, base, iter[k - 1])
  IN  iter

\* A struct within the struct; sub: the defaults of the structs by their types; wiped:
\* after a memset to zero, which leaves no extensions.
NestedDefault(sub, field, addr, wiped) ==
  IF HoldsStruct(field) /\ field.htype \in {"REQUIRED", "OPTIONAL"}
  THEN sub[field.ptr][addr][wiped] ELSE <<>>

LinkedDefault(sub, msg, addr, wiped) ==
  IF wiped THEN <<>>
  ELSE FlattenSeq([k \in DOMAIN Linked(msg, addr) |->
         LET e == Linked(msg, addr)[k]
         IN  ExtensionDefault(e, NestedDefault(sub, e.field, e.dest, FALSE))])

MemberDefault(sub, msg, k, it, wiped) ==
  FieldDefault(FieldAt(msg, k), it, NestedDefault(sub, FieldAt(msg, k), it.pData, wiped),
               LinkedDefault(sub, msg, it.pData, wiped))

MessageDefault(sub, msg, base, wiped) ==
  FlattenSeq([k \in 1 .. FieldCount(msg) |->
                MemberDefault(sub, msg, k, Iters(msg, base)[k], wiped)])

\* pb_message_set_to_defaults() of the struct at base.
Defaults[msg \in DOMAIN Structs] ==
  [base \in Int |-> [wiped \in BOOLEAN |-> MessageDefault(Defaults, msg, base, wiped)]]

-----------------------------------------------------------------------------
\* Frames.

Words == 0 .. (PB_MAX_REQUIRED_FIELDS - 1) \div WordBits

NoField == [field |-> PB_LAST_FIELD, pData |-> 0, pSize |-> 0]

\* The address of fixed_count_size, a local variable.
Local == -1

\* What pb_decode_noinit begins with.  at: what it is doing; tag and wire_type: the
\* last ones read; start: where the iterator was when a search began; cur: the field
\* being decoded; sub: the substream of an array or of a callback; raw: that substream
\* is a copy of a single value; ext: the next extension to be asked, or 0; history: where
\* the message ends, and the members that were found, by their positions.
NewFrame(msg, base, s) ==
  [ msg |-> msg, base |-> base, s |-> s, it |-> pb_field_iter_begin(msg, base),
    fields_seen |-> [w \in Words |-> {}], fixed_count_field |-> 0, fixed_count_size |-> 0,
    extension_range_start |-> 0, at |-> "loop", tag |-> 0, wire_type |-> 0, start |-> 1,
    cur |-> NoField, sub |-> s, raw |-> FALSE, ext |-> 0, end |-> EndOf(s), found |-> {} ]

Fail(f) == SetTop([f EXCEPT !.at = "failed"])

\* Where a frame goes after a call that returned ok.
After(ok) == IF ok THEN "loop" ELSE "failed"

Init ==
  /\ input \in Inputs
  /\ stream = FromBuffer(input.buffer)
  /\ mem \in Memories[input.msg]
  /\ stack = <<>>
  /\ calls = 0
  /\ first = 0
  /\ result = FALSE

\* pb_decode, pb_decode_noinit and their delimited variants; pb_decode_nullterminated is
\* pb_decode.  The first call initialises the struct; after a failure neither the stream
\* nor the struct is used again.
Call(init) ==
  LET open == pb_make_string_substream(input.buffer, stream)
      s    == IF input.delimited THEN open.substream ELSE stream
  IN
    /\ stack = <<>>
    /\ calls < MaxCalls
    /\ IF calls = 0 THEN init ELSE result
    /\ calls' = calls + 1
    /\ first' = IF init THEN calls + 1 ELSE first
    /\ stream' = IF input.delimited THEN open.stream ELSE stream
    /\ IF input.delimited /\ ~open.ok
       THEN result' = FALSE /\ UNCHANGED <<mem, stack>>
       ELSE /\ Store(IF init THEN Defaults[input.msg][0][FALSE] ELSE <<>>)
            /\ stack' = <<NewFrame(input.msg, 0, s)>>
            /\ UNCHANGED result
    /\ UNCHANGED input

-----------------------------------------------------------------------------
\* The loop of pb_decode_noinit.

IsFixedCount(field, it) == field.htype = "REPEATED" /\ it.pSize = it.pData

\* The fixed count field before this one is finished.
FixedComplete(f) ==
  f.fixed_count_field # 0 =>
    f.fixed_count_size = FieldAt(f.msg, f.fixed_count_field).array_size

\* Mutant of MarkSeen: every word of fields_seen takes the bit.
MarkSeenEverywhere(f, it) ==
  IF FieldAt(f.msg, it.pos).htype = "REQUIRED"
       /\ it.required_field_index < PB_MAX_REQUIRED_FIELDS
  THEN [w \in Words |-> f.fields_seen[w] \cup {it.required_field_index % WordBits}]
  ELSE f.fields_seen

MarkSeen(f, it) ==
  IF FieldAt(f.msg, it.pos).htype = "REQUIRED"
       /\ it.required_field_index < PB_MAX_REQUIRED_FIELDS
  THEN [f.fields_seen EXCEPT ![it.required_field_index \div WordBits] =
                               @ \cup {it.required_field_index % WordBits}]
  ELSE f.fields_seen

\* A field of the message.  A fixed count is kept outside the struct, also while the
\* next tag is looked for.
KnownField(f) ==
  LET field == FieldAt(f.msg, f.it.pos)
      fixed == IsFixedCount(field, f.it)
      new   == fixed /\ f.fixed_count_field # f.it.pos
  IN  IF new /\ ~FixedComplete(f) THEN Fail(f)
      ELSE SetTop([f EXCEPT
             !.fixed_count_field = IF new THEN f.it.pos ELSE @,
             !.fixed_count_size = IF new THEN 0 ELSE @,
             !.fields_seen = MarkSeen(f, f.it),
             !.found = @ \cup {f.it.pos},
             !.at = "field",
             !.cur = [ field |-> field, pData |-> f.it.pData,
                       pSize |-> IF fixed THEN Local ELSE f.it.pSize ]])

\* One step of a search: the iterator moves on, or is back where it was.
Step(f, it, atEnd) ==
  SetTop(IF it.pos # f.start THEN [f EXCEPT !.it = it] ELSE [atEnd EXCEPT !.it = it])

NoExtensions == 2^29

At(at) == stack # <<>> /\ Top.at = at

ReadTag(f, field) ==
  SetTop([f EXCEPT !.s = field.stream, !.tag = field.tag, !.wire_type = field.wire_type,
                   !.start = f.it.pos,
                   !.at = IF field.ok THEN "find" ELSE IF field.eof THEN "end" ELSE "failed"])

Round ==
  /\ At("loop")
  /\ IF Top.s.left > 0
     THEN \E field \in {pb_decode_tag(input.buffer, Top.s)} : ReadTag(Top, field)
     ELSE SetTop([Top EXCEPT !.at = "end"])
  /\ UNCHANGED <<input, stream, mem, calls, first, result>>

\* pb_field_iter_find(), step by step.  A field that the message does not have may be
\* that of an extension, if its number is in their range.
Find ==
  LET f == Top IN
    /\ At("find")
    /\ IF HasTag(FieldAt(f.msg, f.it.pos), f.tag) THEN KnownField(f)
       ELSE Step(f, pb_field_iter_next(f.msg, f.base, f.it),
                 [f EXCEPT !.at = IF f.tag >= f.extension_range_start
                                  THEN "find_extension" ELSE "skip"])
    /\ UNCHANGED <<input, stream, mem, calls, first, result>>

\* find_extension_field(), step by step.
FindExtension ==
  LET f     == Top
      field == FieldAt(f.msg, f.it.pos)
  IN
    /\ At("find_extension")
    /\ IF field.ltype = "EXTENSION"
       THEN SetTop([f EXCEPT !.extension_range_start = field.tag, !.ext = 1,
                             !.at = IF f.tag >= field.tag THEN "extension" ELSE "skip"])
       ELSE Step(f, pb_field_iter_next(f.msg, f.base, f.it),
                 [f EXCEPT !.extension_range_start = NoExtensions, !.at = "skip"])
    /\ UNCHANGED <<input, stream, mem, calls, first, result>>

Skipped(f, skip) ==
  SetTop([f EXCEPT !.s = skip.stream, !.at = After(skip.ok), !.ext = 0])

SkipField ==
  /\ At("skip")
  /\ Skipped(Top, pb_skip_field(input.buffer, Top.s, Top.wire_type))
  /\ UNCHANGED <<input, stream, mem, calls, first, result>>

\* The words of fields_seen that count fields fill, and the bits of the last one.
AllSeen(f, count) ==
  /\ \A w \in 0 .. (count \div WordBits) - 1 : f.fields_seen[w] = 0 .. WordBits - 1
  /\ count % WordBits # 0 =>
       f.fields_seen[count \div WordBits] = 0 .. (count % WordBits) - 1

\* How many required fields there are to be checked, when the iterator is at the last
\* field.
Capped(count) == IF count > PB_MAX_REQUIRED_FIELDS THEN PB_MAX_REQUIRED_FIELDS ELSE count

\* Mutant of req_field_count: the last field is not counted.
ReqFieldCountBeforeLast(last, it) == Capped(it.required_field_index)

req_field_count(last, it) ==
  Capped(it.required_field_index
           + (IF last.htype = "REQUIRED" /\ last.tag # 0 THEN 1 ELSE 0))

\* The checks behind the loop.
EndMessage ==
  /\ At("end")
  /\ SetTop([Top EXCEPT !.at = IF FixedComplete(Top) THEN "count" ELSE "failed"])
  /\ UNCHANGED <<input, stream, mem, calls, first, result>>

\* The iterator goes to the last field, to count those that are required.
CountRequired ==
  LET f == Top IN
    /\ At("count")
    /\ SetTop(IF HasNext(f.msg, f.it)
              THEN [f EXCEPT !.it = pb_field_iter_next(f.msg, f.base, f.it)]
              ELSE [f EXCEPT !.at = IF AllSeen(f, req_field_count(FieldAt(f.msg, f.it.pos), f.it))
                                    THEN "done" ELSE "failed"])
    /\ UNCHANGED <<input, stream, mem, calls, first, result>>

\* A call returns: to pb_dec_submessage, which closes its substream, or to the caller.
Return ==
  LET f     == Top
      ok    == f.at = "done"
      below == stack[Len(stack) - 1]
  IN
    /\ stack # <<>>
    /\ f.at \in {"done", "failed"}
    /\ \/ /\ Len(stack) > 1
          /\ stack' = Append(SubSeq(stack, 1, Len(stack) - 2),
                        [below EXCEPT !.s = pb_close_string_substream(@, f.s),
                                      !.at = After(ok), !.ext = 0])
          /\ UNCHANGED <<stream, result>>
       \/ /\ Len(stack) = 1
          /\ stack' = <<>>
          /\ stream' = IF input.delimited THEN pb_close_string_substream(stream, f.s) ELSE f.s
          /\ result' = ok
    /\ UNCHANGED <<input, mem, calls, first>>

-----------------------------------------------------------------------------
\* The values of a field: PB_DECODERS, but for submessages.

Outcome(ok, s, writes) == [ok |-> ok, stream |-> s, writes |-> writes]

\* pb_dec_varint, pb_dec_uvarint and pb_dec_svarint store the value before they check it.
DecodeVarint(field, s, addr) ==
  LET v == pb_decode_varint(input.buffer, s)
      n == CASE field.ltype = "VARINT"  -> pb_dec_varint(v.groups, field.data_size)
             [] field.ltype = "UVARINT" -> pb_dec_uvarint(v.groups, field.data_size)
             [] field.ltype = "SVARINT" -> pb_dec_svarint(v.groups, field.data_size)
  IN  IF ~v.ok \/ field.data_size \notin IntSizes THEN Outcome(FALSE, v.stream, <<>>)
      ELSE Outcome(n.ok, v.stream, <<Write(addr, n.value)>>)

\* pb_decode_fixed32 and pb_decode_fixed64.
DecodeFixed(s, addr, size) ==
  LET read == pb_read(s, size) IN
    Outcome(read.ok, read.stream, IF read.ok THEN Copy(s, addr, size) ELSE <<>>)

\* The length of a bytes array comes before its bytes.
LengthSize == 2

\* Mutant of Fits: the terminator of a string, or the length of a bytes array, is not
\* counted.
FitsWithoutRest(field, size) ==
  CASE field.ltype = "STRING" -> size <= field.data_size
    [] field.ltype = "BYTES"  -> size <= PB_SIZE_MAX /\ size <= field.data_size
    [] OTHER -> size <= PB_SIZE_MAX /\ size \in {0, field.data_size}

Fits(field, size) ==
  CASE field.ltype = "STRING" -> size + 1 <= field.data_size
    [] field.ltype = "BYTES"  -> size <= PB_SIZE_MAX /\ size + LengthSize <= field.data_size
    [] OTHER -> size <= PB_SIZE_MAX /\ size \in {0, field.data_size}

\* pb_dec_bytes, pb_dec_string and pb_dec_fixed_length_bytes: the length and the
\* terminator are written even if the bytes cannot be read.
DecodeBytes(field, s, addr) ==
  LET size == pb_decode_varint32(input.buffer, s)
      read == pb_read(size.stream, size.value)
      Bytes(at) == IF read.ok THEN Copy(size.stream, at, size.value) ELSE <<>>
  IN  IF ~size.ok \/ ~Fits(field, size.value) THEN Outcome(FALSE, size.stream, <<>>)
      ELSE CASE field.ltype = "BYTES" ->
                  Outcome(read.ok, read.stream, <<Write(addr, size.value)>> \o Bytes(addr + LengthSize))
             [] field.ltype = "STRING" ->
                  Outcome(read.ok, read.stream, <<Write(addr + size.value, 0)>> \o Bytes(addr))
             [] OTHER ->
                  IF size.value = 0
                  THEN Outcome(TRUE, size.stream, Zeros(addr, field.data_size))
                  ELSE Outcome(read.ok, read.stream, Bytes(addr))

DecodeValue(field, s, addr) ==
  CASE field.ltype \in {"VARINT", "UVARINT", "SVARINT"} -> DecodeVarint(field, s, addr)
    [] field.ltype = "FIXED32" -> DecodeFixed(s, addr, 4)
    [] field.ltype = "FIXED64" -> DecodeFixed(s, addr, 8)
    [] OTHER -> DecodeBytes(field, s, addr)

-----------------------------------------------------------------------------
\* decode_field(): static fields.

AtField(atype) == At("field") /\ Top.cur.field.atype = atype

\* The has_ and which_ members.
Presence(cur) ==
  CASE cur.field.htype = "OPTIONAL" /\ cur.pSize # cur.pData -> <<Write(cur.pSize, 1)>>
    [] cur.field.htype = "ONEOF" -> <<Write(cur.pSize, cur.field.tag)>>
    [] OTHER -> <<>>

\* One value is decoded to addr.
DecodeTo(f, addr, writes) ==
  \E value \in {DecodeValue(f.cur.field, f.s, addr)} :
    /\ Store(writes \o value.writes)
    /\ SetTop([f EXCEPT !.s = value.stream, !.at = After(value.ok), !.ext = 0])

\* pb_dec_submessage(): pb_decode for the entries of an array, else pb_decode_noinit.
OpenSubmessage(f, addr, writes) ==
  LET msg  == f.cur.field.ptr
      open == pb_make_string_substream(input.buffer, f.s)
      g    == [f EXCEPT !.s = open.stream]
      ok   == open.ok /\ msg # NULL
  IN
    /\ Store(writes \o (IF ok /\ f.cur.field.htype = "REPEATED"
                        THEN Defaults[msg][addr][FALSE] ELSE <<>>))
    /\ IF ok
       THEN stack' = Append([stack EXCEPT ![Len(stack)] = g], NewFrame(msg, addr, open.substream))
       ELSE Fail(g)

Decode(f, addr, writes) ==
  IF f.cur.field.ltype = "SUBMESSAGE" THEN OpenSubmessage(f, addr, writes)
  ELSE DecodeTo(f, addr, writes)

\* Mutant of Reset: a submessage of a oneof is decoded into what is there.
NoReset(cur) == <<>>

\* A submessage of a oneof starts afresh.
Reset(cur) ==
  IF cur.field.htype = "ONEOF" /\ cur.field.ltype = "SUBMESSAGE"
  THEN Zeros(cur.pData, cur.field.data_size) \o Defaults[cur.field.ptr][cur.pData][TRUE]
  ELSE <<>>

SingularField ==
  /\ AtField("STATIC")
  /\ Top.cur.field.htype # "REPEATED"
  /\ Decode(Top, Top.cur.pData, Presence(Top.cur) \o Reset(Top.cur))
  /\ UNCHANGED <<input, stream, calls, first, result>>

\* The number of entries, in the struct or in fixed_count_size: an unsigned number.
ArrayCount(f) == IF f.cur.pSize = Local THEN f.fixed_count_size ELSE mem[f.cur.pSize]

Counted(f, n) == IF f.cur.pSize = Local THEN [f EXCEPT !.fixed_count_size = n] ELSE f

CountWrite(f, n) == IF f.cur.pSize = Local THEN <<>> ELSE <<Write(f.cur.pSize, n)>>

IsPacked(f) == f.wire_type = 2 /\ f.cur.field.ltype \in Packable

EntryAddress(f) == f.cur.pData + f.cur.field.data_size * ArrayCount(f)

\* Mutant of ArrayFull: one entry more than the array has.
ArrayFullLate(f) == ArrayCount(f) \notin 0 .. f.cur.field.array_size

ArrayFull(f) == ArrayCount(f) \notin 0 .. f.cur.field.array_size - 1

\* One entry; it is counted before it is known to fit.
RepeatedEntry ==
  LET f == Top
      n == ArrayCount(f) + 1
      g == Counted(f, n)
  IN
    /\ AtField("STATIC")
    /\ f.cur.field.htype = "REPEATED"
    /\ ~IsPacked(f)
    /\ IF ArrayFull(f) THEN Store(CountWrite(f, n)) /\ Fail(g)
       ELSE Decode(g, EntryAddress(f), CountWrite(f, n))
    /\ UNCHANGED <<input, stream, calls, first, result>>

PackedArray ==
  LET f    == Top
      open == pb_make_string_substream(input.buffer, f.s)
  IN
    /\ AtField("STATIC")
    /\ f.cur.field.htype = "REPEATED"
    /\ IsPacked(f)
    /\ SetTop([f EXCEPT !.s = open.stream, !.sub = open.substream,
                        !.at = IF open.ok THEN "packed" ELSE "failed"])
    /\ UNCHANGED <<input, stream, mem, calls, first, result>>

\* One entry of a packed array.  When it cannot be decoded the array ends there, and is
\* closed if nothing is left in it.
PackedEntry ==
  LET f     == Top
      value == DecodeValue(f.cur.field, f.sub, EntryAddress(f))
      n     == ArrayCount(f) + 1
  IN
    /\ At("packed")
    /\ f.sub.left > 0
    /\ ~ArrayFull(f)
    /\ IF value.ok
       THEN /\ Store(value.writes \o CountWrite(f, n))
            /\ SetTop([Counted(f, n) EXCEPT !.sub = value.stream])
       ELSE /\ Store(value.writes)
            /\ Fail([f EXCEPT !.sub = value.stream,
                              !.s = IF value.stream.left # 0 THEN @
                                    ELSE pb_close_string_substream(f.s, value.stream)])
    /\ UNCHANGED <<input, stream, calls, first, result>>

PackedEnds ==
  LET f == Top IN
    /\ At("packed")
    /\ f.sub.left = 0 \/ ArrayFull(f)
    /\ IF f.sub.left # 0 THEN Fail(f)
       ELSE SetTop([f EXCEPT !.s = pb_close_string_substream(@, f.sub), !.at = "loop", !.ext = 0])
    /\ UNCHANGED <<input, stream, mem, calls, first, result>>

\* decode_pointer_field(): "no malloc support".
PointerField ==
  /\ AtField("POINTER")
  /\ Fail(Top)
  /\ UNCHANGED <<input, stream, mem, calls, first, result>>

-----------------------------------------------------------------------------
\* decode_field(): callback fields.

\* read_raw_value(): the value is copied so that the callback cannot read behind it.
read_raw_value(s, wire_type) ==
  CASE wire_type = 0 -> [ok |-> pb_decode_varint(input.buffer, s).ok,
                         stream |-> pb_decode_varint(input.buffer, s).stream]
    [] wire_type = 1 -> pb_read(s, 8)
    [] wire_type = 5 -> pb_read(s, 4)
    [] OTHER -> [ok |-> FALSE, stream |-> s]

\* The callback is about to be called for the substream.
ForCallback(f, ok, s, sub, raw) ==
  SetTop([f EXCEPT !.s = s, !.sub = sub, !.raw = raw, !.at = IF ok THEN "callback" ELSE "failed"])

CallbackField ==
  LET f    == Top
      open == pb_make_string_substream(input.buffer, f.s)
      raw  == read_raw_value(f.s, f.wire_type)
  IN
    /\ AtField("CALLBACK")
    /\ \/ mem[f.cur.pData] = 0 /\ SetTop([f EXCEPT !.at = "skip"])
       \/ /\ mem[f.cur.pData] # 0
          /\ f.wire_type = 2
          /\ ForCallback(f, open.ok, open.stream, open.substream, FALSE)
       \/ /\ mem[f.cur.pData] # 0
          /\ f.wire_type # 2
          /\ ForCallback(f, raw.ok, raw.stream,
                         [f.s EXCEPT !.left = raw.stream.pos - f.s.pos], TRUE)
    /\ UNCHANGED <<input, stream, mem, calls, first, result>>

\* A callback has read count bytes and returned ok.  For a string it is called again
\* until nothing is left.
CallbackReturns(count, ok) ==
  LET f   == Top
      sub == Advance(f.sub, count)
  IN
    /\ At("callback")
    /\ count <= f.sub.left
    /\ \/ /\ ~ok \/ f.raw
          /\ SetTop([f EXCEPT !.sub = sub, !.at = After(ok), !.ext = 0])
       \/ /\ ok /\ ~f.raw /\ sub.left > 0
          /\ SetTop([f EXCEPT !.sub = sub])
       \/ /\ ok /\ ~f.raw /\ sub.left = 0
          /\ SetTop([f EXCEPT !.s = pb_close_string_substream(@, sub), !.sub = sub,
                              !.at = "loop", !.ext = 0])
    /\ UNCHANGED <<input, stream, mem, calls, first, result>>

-----------------------------------------------------------------------------
\* decode_extension(), one action per extension.

Asking == At("extension")

Chain == Linked(Top.msg, Top.it.pData)

\* None of them handled the field.
NotAnExtension ==
  /\ Asking
  /\ Top.ext > Len(Chain)
  /\ SetTop([Top EXCEPT !.at = "skip"])
  /\ UNCHANGED <<input, stream, mem, calls, first, result>>

\* default_extension_decoder().
DefaultExtension ==
  LET f == Top
      e == Chain[f.ext]
  IN
    /\ Asking
    /\ f.ext \in DOMAIN Chain
    /\ ~e.foreign
    /\ IF e.field.tag # f.tag
       THEN SetTop([f EXCEPT !.ext = @ + 1]) /\ UNCHANGED mem
       ELSE /\ Store(<<Write(e.found, 1)>>)
            /\ SetTop([f EXCEPT !.at = "field",
                                !.cur = [ field |-> e.field, pData |-> ExtensionIter(e).pData,
                                          pSize |-> ExtensionIter(e).pSize ]])
    /\ UNCHANGED <<input, stream, calls, first, result>>

\* An extension with a decoder of the application's, which reads count bytes.
ForeignExtension(count, ok) ==
  LET f == Top IN
    /\ Asking
    /\ f.ext \in DOMAIN Chain
    /\ Chain[f.ext].foreign
    /\ count <= f.s.left
    /\ SetTop([f EXCEPT !.s = Advance(@, count),
                        !.ext = IF ok /\ count = 0 THEN @ + 1 ELSE 0,
                        !.at = IF ok /\ count = 0 THEN @ ELSE After(ok)])
    /\ UNCHANGED <<input, stream, mem, calls, first, result>>

-----------------------------------------------------------------------------
Fields == SingularField \/ RepeatedEntry \/ PackedArray \/ PackedEntry \/ PackedEnds
            \/ PointerField \/ CallbackField

Decoder ==
  Round \/ Find \/ FindExtension \/ SkipField \/ EndMessage \/ CountRequired \/ Return
    \/ Fields \/ NotAnExtension \/ DefaultExtension

Foreign(count, ok) == CallbackReturns(count, ok) \/ ForeignExtension(count, ok)

Next ==
  \/ \E init \in BOOLEAN : Call(init)
  \/ Decoder
  \/ \E count \in 0 .. Len(input.buffer), ok \in BOOLEAN : Foreign(count, ok)

\* The functions of the application return; and a callback that is called again and
\* again does not forever report success without reading anything.
Fairness ==
  WF_vars(Decoder \/ \E count \in 0 .. Len(input.buffer), ok \in BOOLEAN : Foreign(count, ok))

Spec == Init /\ [][Next]_vars /\ Fairness

-----------------------------------------------------------------------------
\* Properties.

Ats == { "loop", "find", "find_extension", "extension", "skip", "field", "packed", "callback",
         "end", "count", "done", "failed" }

\* Every frame has an iterator that is where the compiler put the member, counts of
\* bytes that are no negative numbers, and bits in every word that exist.
TypeOK ==
  /\ stream \in Stream
  /\ calls \in 0 .. MaxCalls /\ first \in 0 .. calls
  /\ result \in BOOLEAN
  /\ \A k \in DOMAIN stack :
       /\ stack[k].s \in Stream /\ stack[k].sub \in Stream
       /\ stack[k].at \in Ats
       /\ stack[k].fields_seen \in [Words -> SUBSET (0 .. WordBits - 1)]
       /\ IterConsistent(stack[k].msg, stack[k].base, stack[k].it)

\* How far the innermost stream reaches, the part behind its substream included.
Reach(f) ==
  IF f.at = "packed" \/ (f.at = "callback" /\ ~f.raw) THEN EndOf(f.sub) + f.s.left
  ELSE EndOf(f.s)

\* The streams of nested submessages fit into one another without gap or overlap, at
\* every step and whatever the lengths on the line claim: what a call may read and what
\* its callers keep for later are the bytes up to the end of their message, and after
\* a failure no more than that.
StreamsFit ==
  /\ stack # <<>> =>
       stack[1].end + (IF input.delimited THEN stream.left ELSE 0) = Len(input.buffer)
  /\ \A k \in 1 .. Len(stack) - 1 : stack[k + 1].end + stack[k].s.left = stack[k].end
  /\ stack # <<>> => IF Top.at = "failed" THEN Reach(Top) <= Top.end ELSE Reach(Top) = Top.end

\* What initialising leaves to the caller.
Kept(m) == m.atype = "CALLBACK" \/ m.ltype = "EXTENSION"

\* What it may write of the struct at base, and of the extensions.
StructCells(base, msg) ==
  UNION { MemberCells(base, m) : m \in { x \in ToSet(Structs[msg]) : ~Kept(x) } }

LinkedCells == UNION { ExtensionCells(e) : e \in AllExtensions }

\* What the innermost call decodes to: an extension or a member.
FieldCells(f) ==
  IF f.ext # 0
  THEN UNION { ExtensionCells(Extensions[f.msg][k]) : k \in {f.ext} \cap DOMAIN Extensions[f.msg] }
  ELSE IF FieldCount(f.msg) = 0 THEN {}
  ELSE MemberCells(f.base, Structs[f.msg][f.it.pos])

\* The entries of an array are initialised one by one, with the extensions.
IsEntry(f) ==
  /\ f.ext = 0 /\ f.it.pos \in DOMAIN Structs[f.msg]
  /\ Structs[f.msg][f.it.pos].htype = "REPEATED"
  /\ HoldsStruct(Structs[f.msg][f.it.pos])

Writable ==
  IF stack = <<>> THEN StructCells(0, input.msg) \cup LinkedCells
  ELSE FieldCells(Top) \cup (IF IsEntry(Top) THEN LinkedCells ELSE {})

\* A step writes nothing but the member or the extension that it is decoding, wherever a
\* length or a count points, and the memory never grows; a message is initialised without
\* its callbacks and its links to extensions, but with the extensions.
WritesInField ==
  [][ /\ DOMAIN mem' = DOMAIN mem
      /\ \A a \in DOMAIN mem : mem'[a] # mem[a] => a \in Writable ]_vars

\* There is a bit for the required fields below the limit.
IsChecked(msg, pos) ==
  /\ Structs[msg][pos].htype = "REQUIRED"
  /\ Cardinality(RequiredBefore(msg, pos)) < PB_MAX_REQUIRED_FIELDS

AllFound(f) ==
  \A pos \in DOMAIN Structs[f.msg] : IsChecked(f.msg, pos) => pos \in f.found

\* Counting the required fields behind the loop, and comparing the words of fields_seen
\* with that number, accepts a message if and only if each of those fields was found in
\* it, at a word's boundary, with a last field that is required and beyond the limit too.
RequiredChecked ==
  [][ At("count") /\ stack'[Len(stack)].at # "count" =>
        (stack'[Len(stack)].at = "done" <=> AllFound(Top)) ]_vars

\* Every call returns.
DecodeReturns == stack # <<>> ~> stack = <<>>
=============================================================================
