----------------------------- MODULE MCPbEncode -----------------------------
(***************************************************************************)
(* pb_encode() for message types that have every kind of field, each with  *)
(* the structs of some messages, valid and not, for buffers that are too   *)
(* small and large enough, and with callbacks that write fields of their   *)
(* own in one pass and others in the next.                                 *)
(***************************************************************************)
EXTENDS PbEncode, MCPbMessages

CONSTANTS
  Plain, Limits, Part, Sum, Third, Heap, Boxed, Held, Asks, Around, Whole, Empty, \* the types
  MemorySize

MCStructs ==
  Plain :>
    << Required(1, "UVARINT", 0, 1),
       MCMember(2, "SVARINT", "REPEATED", "STATIC", 4, 2, 2, 2, FALSE, NULL),
       MCMember(3, "VARINT", "OPTIONAL", "STATIC", 12, 4, 1, 8, FALSE, NULL),
       MCMember(4, "FIXED32", "OPTIONAL", "STATIC", 20, 4, 1, 16, FALSE, NULL),
       MCMember(5, "FIXED64", "REPEATED", "STATIC", 28, 8, 1, 26, FALSE, NULL) >>
  @@ Limits :>
    << MCMember(1, "BYTES", "OPTIONAL", "STATIC", 1, 4, 1, 0, FALSE, NULL),
       MCMember(2, "STRING", "OPTIONAL", "STATIC", 6, 3, 1, 5, FALSE, NULL),
       MCMember(3, "FIXED_LENGTH_BYTES", "REQUIRED", "STATIC", 9, 2, 1, NULL, FALSE, NULL),
       MCMember(4, "UVARINT", "REPEATED", "STATIC", 14, 1, 2, 12, FALSE, NULL),
       MCMember(5, "UVARINT", "REPEATED", "STATIC", 16, 1, 2, NULL, FALSE, NULL),
       MCMember(6, "STRING", "REPEATED", "STATIC", 20, 2, 2, 18, FALSE, NULL) >>
  @@ Part :>
    << Required(1, "UVARINT", 0, 1),
       MCMember(2, "UVARINT", "OPTIONAL", "STATIC", 2, 1, 1, 1, FALSE, NULL) >>
  @@ Sum :>
    << MCMember(1, "STRING", "ONEOF", "STATIC", 2, 3, 1, 0, FALSE, NULL),
       MCMember(2, "SUBMESSAGE", "ONEOF", "STATIC", 2, 3, 1, 0, TRUE, Part),
       MCMember(3, "SUBMESSAGE", "OPTIONAL", "STATIC", 6, 3, 1, 5, FALSE, Part),
       MCMember(4, "SUBMESSAGE", "REPEATED", "STATIC", 11, 3, 2, 9, FALSE, Part) >>
  @@ Third :>
    << MCMember(1, "UVARINT", "OPTIONAL", "STATIC", 0, 1, 1, NULL, FALSE, NULL),
       MCMember(2, "STRING", "OPTIONAL", "STATIC", 1, 3, 1, NULL, FALSE, NULL),
       MCMember(3, "BYTES", "OPTIONAL", "STATIC", 4, 4, 1, NULL, FALSE, NULL),
       MCMember(4, "SUBMESSAGE", "OPTIONAL", "STATIC", 8, 17, 1, NULL, FALSE, Sum),
       MCMember(5, "SUBMESSAGE", "OPTIONAL", "STATIC", 25, 4, 1, NULL, FALSE, Boxed),
       MCMember(6, "SUBMESSAGE", "OPTIONAL", "STATIC", 29, 3, 1, NULL, FALSE, Part) >>
  @@ Heap :>
    << MCMember(1, "UVARINT", "REQUIRED", "POINTER", 0, 1, 1, NULL, FALSE, NULL),
       MCMember(2, "STRING", "OPTIONAL", "POINTER", 4, 1, 1, NULL, FALSE, NULL),
       MCMember(3, "STRING", "REPEATED", "POINTER", 12, 4, 1, 8, FALSE, NULL),
       MCMember(4, "SUBMESSAGE", "OPTIONAL", "POINTER", 16, 3, 1, NULL, FALSE, Part),
       MCMember(5, "BYTES", "OPTIONAL", "POINTER", 20, 4, 1, NULL, FALSE, NULL),
       MCMember(6, "SVARINT", "REPEATED", "POINTER", 28, 2, 1, 24, FALSE, NULL) >>
  @@ Boxed :> << MCMember(1, "SUBMESSAGE", "OPTIONAL", "STATIC", 0, 4, 1, NULL, FALSE, Held) >>
  @@ Held :> << MCMember(1, "STRING", "OPTIONAL", "POINTER", 0, 1, 1, NULL, FALSE, NULL) >>
  @@ Asks :>
    << MCMember(6, "BYTES", "REQUIRED", "CALLBACK", 0, 8, 1, NULL, FALSE, NULL),
       MCMember(8, "EXTENSION", "OPTIONAL", "CALLBACK", 8, 4, 1, NULL, FALSE, NULL) >>
  @@ Around :>
    << MCMember(1, "SUBMESSAGE", "OPTIONAL", "STATIC", 1, 12, 1, 0, FALSE, Asks),
       Required(2, "UVARINT", 13, 1) >>
  @@ Whole :> << MCMember(1, "SUBMESSAGE", "REQUIRED", "STATIC", 0, 14, 1, NULL, FALSE, Around) >>
  @@ Empty :> << >>

\* The values of the extensions are at the end of the memory, the second one's encoder
\* is the application's and the third one's value is written by a callback.
MCExtension(tag, m, dest, foreign) ==
  [field |-> PB_FIELD(<<m>>, 1), dest |-> dest, foreign |-> foreign]

MCExtensions ==
  [ msg \in DOMAIN MCStructs |->
      IF msg # Asks THEN << >>
      ELSE << MCExtension(8, Required(8, "UVARINT", 0, 1), MemorySize - 1, FALSE),
              MCExtension(9, Required(9, "UVARINT", 0, 1), MemorySize - 1, TRUE),
              MCExtension(10, MCMember(10, "BYTES", "OPTIONAL", "CALLBACK", 0, 8, 1, NULL, FALSE,
                                       NULL), MemorySize, FALSE) >> ]

-----------------------------------------------------------------------------
\* The struct of a message.

BytesAt(addr, bytes) == [a \in addr .. addr + Len(bytes) - 1 |-> bytes[a - addr + 1]]

Together(writes) == FoldLeft(LAMBDA f, g : g @@ f, << >>, writes)

Less(a, b) == IF a < b THEN a ELSE b

HeapAt(m) == 22 + 12 * m.tag

\* Entry number i of an array of strings behind a pointer.
TextAt(m, i) == HeapAt(m) + 6 + 2 * i

RECURSIVE Place(_, _, _)
Place(msg, base, fs) ==
  LET PlaceEntry(m, addr, v) ==
        CASE m.ltype \in {"VARINT", "UVARINT", "SVARINT"} -> addr :> v.n
          [] m.ltype = "SUBMESSAGE" -> Place(m.ptr, addr, v.fs)
          [] m.ltype = "BYTES" ->
               (addr :> Len(v.bytes)) @@
                  BytesAt(addr + 2, IF m.atype = "POINTER" THEN v.bytes
                                    ELSE SubSeq(v.bytes, 1, Less(m.item - 2, Len(v.bytes))))
          [] OTHER -> BytesAt(addr, v.bytes)
      PlaceSize(m, entries) ==
        IF m.size_at = NULL \/ entries = << >> THEN << >>
        ELSE base + m.size_at :> (CASE m.htype = "OPTIONAL" -> 1
                                    [] m.htype = "REPEATED" -> Len(entries)
                                    [] m.htype = "ONEOF" -> m.tag)
      PlaceData(m, entries) ==
        CASE entries = << >> -> << >>
          [] entries # << >> /\ m.atype = "CALLBACK" -> base + m.at :> 1
          [] entries # << >> /\ m.atype = "STATIC" ->
               Together([i \in 1 .. Less(m.count, Len(entries)) |->
                           PlaceEntry(m, base + m.at + m.item * (i - 1), entries[i])])
          [] entries # << >> /\ m.atype = "POINTER" ->
               (base + m.at :> HeapAt(m)) @@
                  Together([i \in DOMAIN entries |->
                    IF m.ltype = "STRING" /\ m.htype = "REPEATED"
                    THEN (HeapAt(m) + m.item * (i - 1) :> TextAt(m, i))
                            @@ BytesAt(TextAt(m, i), entries[i].bytes)
                    ELSE PlaceEntry(m, HeapAt(m) + m.item * (i - 1), entries[i])])
      PlaceMember(m) == PlaceSize(m, Entries(fs, m.tag)) @@ PlaceData(m, Entries(fs, m.tag))
  IN  Together([k \in DOMAIN MCStructs[msg] |-> PlaceMember(MCStructs[msg][k])])

\* fs: what the struct is made from; ext: whether the extensions' callback is set.
Source(msg, fs, ext) ==
  [ msg |-> msg, fs |-> fs,
    mem |-> Place(msg, 1, fs) @@ [a \in 1 .. MemorySize |->
              IF a = MemorySize - 1 THEN 9 ELSE IF a = MemorySize THEN ext ELSE 0] ]

-----------------------------------------------------------------------------
\* The messages.

\* One choice for each member.
Combine(options) ==
  FoldLeft(LAMBDA s, choices :
             FlattenSeq([k \in DOMAIN s |-> [j \in DOMAIN choices |-> s[k] \o choices[j]]]),
           << << >> >>, options)

\* A proto3 member that has its default value, and one that cannot be encoded.
Unset(tag, v) == [tag |-> tag, bytes |-> << >>, entries |-> <<v>>, fits |-> TRUE]
Wrong(tag, entries) == [tag |-> tag, bytes |-> << >>, entries |-> entries, fits |-> FALSE]

Set(tag) == Unset(tag, N(1))

X == Number(1, 3)
Y == Number(2, 4)

MCMessages ==
  Plain :> Combine(<<
    << <<X>>, <<F(1, 0, <<200, 1>>, <<N(200)>>, TRUE)>> >>,
    << << >>, <<F(2, 2, <<3, 3, 216, 4>>, <<N(-2), N(300)>>, TRUE)>> >>,
    << << >>, <<F(3, 0, <<255, 255, 255, 255, 255, 255, 255, 255, 255, 1>>, <<N(-1)>>, TRUE)>> >>,
    << << >>, <<F(4, 5, <<1, 2, 3, 4>>, <<B(<<1, 2, 3, 4>>)>>, TRUE)>> >>,
    << << >>, <<F(5, 2, <<8, 1, 2, 3, 4, 5, 6, 7, 8>>, <<B(<<1, 2, 3, 4, 5, 6, 7, 8>>)>>, TRUE)>> >> >>)
  @@ Limits :> Combine(<<
    << << >>, <<Text(1, <<5, 6>>, TRUE)>>, <<Wrong(1, <<B(<<5, 6, 7>>)>>)>> >>,
    << << >>, <<Text(2, <<65, 66, 67>>, TRUE)>> >>,
    << <<Text(3, <<7, 0>>, TRUE)>> >>,
    << << >>, <<F(4, 2, <<2, 1, 2>>, <<N(1), N(2)>>, TRUE)>>, <<Wrong(4, <<N(1), N(2), N(3)>>)>> >>,
    << <<F(5, 2, <<2, 9, 0>>, <<N(9), N(0)>>, TRUE)>> >>,
    << << >>, <<Text(6, <<65>>, TRUE), Text(6, << >>, TRUE)>> >> >>)
  @@ Sum :> Combine(<<
    << << >>, <<Text(1, <<65>>, TRUE)>>, <<Sub(2, <<X, Y>>)>> >>,
    << << >>, <<Sub(3, <<X>>)>> >>,
    << << >>, <<Sub(4, <<X, Y>>), Sub(4, <<X>>)>> >> >>)
  @@ Third :> Combine(<<
    << <<Unset(1, N(0))>>, <<X>> >>,
    << <<Unset(2, B(<< >>))>>, <<Text(2, <<65>>, TRUE)>> >>,
    << <<Unset(3, B(<< >>))>>, <<Text(3, <<0>>, TRUE)>> >>,
    << <<Unset(4, S(<< >>))>>, <<Sub(4, <<Text(1, << >>, TRUE)>>)>>, <<Sub(4, <<Sub(3, <<X>>)>>)>> >>,
    << <<Unset(5, S(<< >>))>>, <<Sub(5, <<Sub(1, <<Text(1, <<65>>, TRUE)>>)>>)>> >>,
    << <<Sub(6, <<Number(1, 0)>>)>> >> >>)
  @@ Heap :> Combine(<<
    << <<X>>, <<Wrong(1, << >>)>> >>,
    << << >>, <<Text(2, <<65, 66>>, TRUE)>> >>,
    << << >>, <<Text(3, <<65>>, TRUE), Text(3, << >>, TRUE)>> >>,
    << << >>, <<Sub(4, <<X, Y>>)>> >>,
    << << >>, <<Text(5, <<1, 2, 3>>, TRUE)>> >>,
    << << >>, <<F(6, 2, <<1, 1>>, <<N(-1)>>, TRUE)>> >> >>)
  @@ Boxed :> << <<Unset(1, S(<< >>))>>, <<Sub(1, <<Text(1, <<65>>, TRUE)>>)>> >>
  @@ Empty :> << << >> >>

\* No write is longer.
MCCounts == 0 .. 40

\* What callbacks write: a number, or two bytes, as field 6.
MCChunks == { <<48, 5>>, <<50, 1, 7>> }

MCAsking ==
  Asks :> << << >>, <<Set(6)>>, <<Set(8)>>, <<Set(6), Set(8)>> >>
  @@ Around :> << <<Unset(1, S(<<Set(6)>>)), Y>>, <<Unset(1, S(<<Set(8)>>)), Y>>, <<Y>> >>
  @@ Whole :> << <<Unset(1, S(<<Unset(1, S(<<Set(6)>>)), Y>>))>> >>

SourcesOf(messages, types, ext) ==
  FlattenSeq([k \in DOMAIN types |->
    [i \in DOMAIN messages[types[k]] |-> Source(types[k], messages[types[k]][i], ext)]])

MCSources ==
  SourcesOf(MCMessages, <<Plain, Limits, Sum, Third, Heap, Boxed, Empty>>, 0)
    \o SourcesOf(MCAsking, <<Asks, Around, Whole>>, 0) \o SourcesOf(MCAsking, <<Asks, Around>>, 1)

\* A proto3 submessage whose one field, a string, is set and is on the heap at 256.
MCHighSources ==
  << [ msg |-> Boxed, fs |-> <<Sub(1, <<Text(1, <<65>>, TRUE)>>)>>,
      mem |-> BytesAt(1, <<256, 0, 0, 0>>) @@ BytesAt(256, <<65, 0>>) ] >>

-----------------------------------------------------------------------------
\* What the output is to be, for messages whose bytes do not depend on callbacks.

Known == result # NULL /\ Struct.msg \in DOMAIN MCMessages

Framed(bytes) ==
  CASE entry = "pb_encode_delimited" -> <<Len(bytes)>> \o bytes
    [] entry = "pb_encode_nullterminated" -> Append(bytes, 0)
    [] OTHER -> bytes

Written == [a \in 1 .. result.size |-> buffer[a]]

Sizes == entry = "pb_get_encoded_size"

\* pb_encode() succeeds for the structs that can be encoded in the buffer, no matter by
\* how many calls of pb_write it is filled and what is in them, and for no others; what
\* it has written then are the fields that are set, in order, each submessage behind its
\* length; and pb_get_encoded_size() finds out how many bytes that is.
OutputRight ==
  Known =>
    LET output == Framed(Bytes(Struct.fs))
        valid  == \A k \in DOMAIN Struct.fs : Struct.fs[k].fits
    IN  /\ result.ok <=> valid /\ (Sizes \/ Len(output) <= bufsize)
        /\ result.ok => /\ result.size = Len(output)
                        /\ ~Sizes => Written = output

\* The bytes are fields of the message, and each submessage is as long as it says.
RECURSIVE Parses(_, _)
Parses(msg, bytes) ==
  \/ bytes = << >>
  \/ /\ Len(bytes) >= 2
     /\ LET number == bytes[1] \div 8
            size   == IF bytes[1] % 8 = 2 THEN bytes[2] ELSE 0
            subs   == { k \in DOMAIN Structs[msg] :
                          Structs[msg][k].tag = number /\ Structs[msg][k].ltype = "SUBMESSAGE" }
        IN  /\ 2 + size <= Len(bytes)
            /\ \A k \in subs : Parses(Structs[msg][k].ptr, SubSeq(bytes, 3, 2 + size))
            /\ Parses(msg, SubSeq(bytes, 3 + size, Len(bytes)))

Unframed ==
  CASE entry = "pb_encode_delimited" -> Tail(Written)
    [] entry = "pb_encode_nullterminated" -> Front(Written)
    [] OTHER -> Written

\* A callback that writes one thing when a submessage is sized and another one when it
\* is written, or that ignores that the buffer is full, cannot make pb_encode() report
\* success for bytes in which a submessage is longer or shorter than its length says.
LengthsRight ==
  result # NULL /\ result.ok /\ ~Sizes /\ Struct.msg \in DOMAIN MCAsking =>
    /\ entry = "pb_encode_delimited" => Written[1] = result.size - 1
    /\ Parses(Struct.msg, Unframed)

\* The comment on the byte-per-byte comparison: pointer fields "have integer or pointer
\* value which can be compared with 0", so a proto3 submessage is left out only if no
\* pointer in it is set.
PointersComparedWithNull ==
  result # NULL /\ result.ok /\ ~Sizes => Written = Framed(Bytes(Struct.fs))
=============================================================================
