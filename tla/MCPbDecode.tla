----------------------------- MODULE MCPbDecode -----------------------------
(***************************************************************************)
(* pb_decode() for message types that have every kind of field, each with  *)
(* all messages of a few fields and with arbitrary bytes.                  *)
(*                                                                         *)
(* What a message means is said here without streams, iterators and        *)
(* offsets.                                                                *)
(***************************************************************************)
EXTENDS PbDecode, MCPbMessages

CONSTANTS
  Counts, Many, Part, Sum, Mixed, Fixed, Asks, Empty,   \* the message types
  MaxFields, MaxMerged, MaxGarbage

\* In every memory the addresses from 32 on are those of the extensions' values.
MCStructs ==
  Counts :>
    << Required(1, "UVARINT", 0, 1),
       MCMember(2, "SVARINT", "REPEATED", "STATIC", 4, 2, 2, 2, FALSE, NULL),
       MCMember(3, "VARINT", "OPTIONAL", "STATIC", 10, 1, 1, 9, FALSE, 7),
       Required(4, "UVARINT", 11, 1),
       Required(5, "UVARINT", 12, 1) >>
  @@ Many :>
    << Required(1, "UVARINT", 0, 1), Required(2, "UVARINT", 1, 1),
       Required(3, "UVARINT", 2, 1), Required(4, "UVARINT", 3, 1) >>
  @@ Part :>
    << Required(1, "UVARINT", 0, 1),
       MCMember(2, "UVARINT", "OPTIONAL", "STATIC", 2, 1, 1, 1, FALSE, 7) >>
  @@ Sum :>
    << MCMember(1, "STRING", "ONEOF", "STATIC", 2, 3, 1, 0, FALSE, NULL),
       MCMember(2, "SUBMESSAGE", "ONEOF", "STATIC", 2, 3, 1, 0, TRUE, Part),
       MCMember(3, "SUBMESSAGE", "OPTIONAL", "STATIC", 6, 3, 1, 5, FALSE, Part),
       MCMember(4, "SUBMESSAGE", "REPEATED", "STATIC", 11, 3, 2, 9, FALSE, Part) >>
  @@ Mixed :>
    << MCMember(1, "BYTES", "REQUIRED", "CALLBACK", 0, 8, 1, NULL, FALSE, NULL),
       MCMember(2, "UVARINT", "REPEATED", "STATIC", 8, 1, 2, NULL, FALSE, NULL),
       MCMember(3, "STRING", "OPTIONAL", "POINTER", 10, 1, 1, NULL, FALSE, NULL),
       MCMember(4, "BYTES", "OPTIONAL", "STATIC", 15, 4, 1, 14, FALSE, NULL),
       MCMember(5, "FIXED32", "OPTIONAL", "STATIC", 20, 4, 1, 19, FALSE, NULL),
       MCMember(6, "FIXED_LENGTH_BYTES", "OPTIONAL", "STATIC", 25, 2, 1, 24, FALSE, NULL),
       MCMember(8, "EXTENSION", "OPTIONAL", "CALLBACK", 28, 4, 1, NULL, FALSE, NULL) >>
  @@ Fixed :>
    << MCMember(1, "UVARINT", "REPEATED", "STATIC", 0, 1, 2, NULL, FALSE, NULL),
       MCMember(2, "UVARINT", "REPEATED", "STATIC", 2, 1, 2, NULL, FALSE, NULL) >>
  @@ Asks :> << MCMember(8, "EXTENSION", "OPTIONAL", "CALLBACK", 0, 4, 1, NULL, FALSE, NULL) >>
  @@ Empty :> << >>

Cells == 0 .. 41

MCExtension(member, dest, size, foreign) ==
  [ field |-> PB_FIELD(<<member>>, 1), dest |-> dest, found |-> dest + size,
    foreign |-> foreign ]

Numeric(tag, dest, foreign) == MCExtension(Required(tag, "UVARINT", 0, 1), dest, 1, foreign)

MCExtensions ==
  [ msg \in DOMAIN MCStructs |->
      CASE msg = Mixed -> << Numeric(8, 32, FALSE), Numeric(9, 34, FALSE),
                             MCExtension(MCMember(12, "SUBMESSAGE", "REQUIRED", "STATIC", 0, 3, 1,
                                                  NULL, FALSE, Part), 38, 3, FALSE) >>
        [] msg = Asks  -> << Numeric(8, 32, FALSE), Numeric(10, 34, TRUE), Numeric(9, 36, FALSE) >>
        [] OTHER -> << >> ]

Old == 99

\* The members have any old value, but the callbacks and the links are set or NULL.
MCMemories ==
  [ msg \in DOMAIN MCStructs |->
      LET links == { MCStructs[msg][k].at : k \in
                       { j \in DOMAIN MCStructs[msg] : MCStructs[msg][j].atype = "CALLBACK" } }
      IN  { [a \in Cells |-> IF a \in set THEN 1 ELSE IF a \in links THEN 0 ELSE Old] :
              set \in SUBSET links } ]

-----------------------------------------------------------------------------
\* The messages.

\* A submessage that a zero ends before its length does.
Ended(tag, fs) == F(tag, 2, <<Len(Bytes(fs)) + 2>> \o Bytes(fs) \o <<0, 7>>, <<S(fs)>>, TRUE)

X == Number(1, 3)
Y == Number(2, 4)

MCFields ==
  Counts :> { X, Number(4, 1), Number(5, 2),
                 F(4, 0, <<172, 2>>, <<N(300)>>, FALSE),
                 F(2, 0, <<3>>, <<N(-2)>>, TRUE), F(2, 2, <<2, 4, 1>>, <<N(2), N(-1)>>, TRUE),
                 F(2, 2, <<0>>, << >>, TRUE),
                 F(3, 0, <<255, 255, 255, 255, 15>>, <<N(-1)>>, TRUE) }
  @@ Many :> { Number(n, n) : n \in 1 .. 4 } \cup { Number(7, 1), Text(7, <<1>>, TRUE) }
  @@ Sum :> { Text(1, <<65>>, TRUE), Text(1, <<65, 66, 67>>, FALSE),
                 Sub(2, <<X>>), Sub(2, <<X, Y>>), Sub(2, <<Y>>),
                 Ended(2, <<X>>), Ended(3, <<X, Y>>),
                 Sub(3, <<X>>), Sub(3, <<Y, X>>), Sub(4, <<X, Y>>), Sub(4, <<X>>) }
  @@ Mixed :> { Text(1, <<65, 66>>, TRUE), Number(1, 9), Number(2, 6),
                 F(2, 2, <<2, 7, 8>>, <<N(7), N(8)>>, TRUE), Number(3, 1),
                 Text(4, <<1, 2>>, TRUE), Text(4, <<1, 2, 3>>, FALSE),
                 F(5, 5, <<1, 2, 3, 4>>, <<B(<<1, 2, 3, 4>>)>>, TRUE),
                 Text(6, <<5, 6>>, TRUE), Text(6, << >>, TRUE), Text(6, <<5>>, FALSE),
                 Number(8, 2), Number(9, 3), Number(10, 4), Sub(12, <<X>>), Sub(12, <<Y>>) }
  @@ Fixed :> { Number(1, 5), Number(1, 6), Number(2, 7), Number(3, 1),
                F(2, 2, <<2, 8, 9>>, <<N(8), N(9)>>, TRUE), F(2, 2, <<0>>, << >>, TRUE) }
  @@ Empty :> { Number(1, 1) }
  @@ Asks :> { Number(n, 1) : n \in 8 .. 11 }

Roots == DOMAIN MCFields

Delimited(fs)  == <<Len(Bytes(fs))>> \o Bytes(fs)
Terminated(fs) == Append(Bytes(fs), 0)

MCInput(msg, buffer, delimited, messages) ==
  [buffer |-> buffer, msg |-> msg, delimited |-> delimited, messages |-> messages]

\* Two arrays of two entries each take four fields to interleave.
FieldsOf(msg) ==
  CASE msg \in {Mixed, Sum} -> MaxFields - 1
    [] msg = Fixed -> MaxFields + 1
    [] OTHER -> MaxFields

Singles ==
  UNION { { MCInput(msg, Bytes(fs), FALSE, <<fs>>) : fs \in BoundedSeq(MCFields[msg], FieldsOf(msg)) }
          : msg \in Roots \ {Asks} }

\* Two messages in one stream.
Merged ==
  UNION { UNION { { MCInput(msg, Delimited(p[1]) \o Delimited(p[2]), TRUE, p),
                    MCInput(msg, Terminated(p[1]) \o Terminated(p[2]), FALSE, p) } :
                  p \in [1 .. 2 -> BoundedSeq(MCFields[msg], MaxMerged)] }
          : msg \in Roots \ {Asks} }

\* Fields that a foreign extension may read and arbitrary bytes.
Unknown ==
  { MCInput(Asks, Bytes(fs), FALSE, NULL) : fs \in BoundedSeq(MCFields[Asks], 2) }
  \cup { MCInput(msg, buffer, delimited, NULL) :
           msg \in Roots \ {Many},
           buffer \in BoundedSeq({0, 2, 18, 128}, MaxGarbage), delimited \in BOOLEAN }

MCInputs == Singles \cup Merged \cup Unknown

-----------------------------------------------------------------------------
\* What a message means.

Has(fs, tag) == \E k \in DOMAIN fs : fs[k].tag = tag

RequiredTags(msg) ==
  LET required == SelectSeq(Structs[msg], LAMBDA m : m.htype = "REQUIRED") IN
    { required[k].tag : k \in 1 .. (IF Len(required) < PB_MAX_REQUIRED_FIELDS
                                    THEN Len(required) ELSE PB_MAX_REQUIRED_FIELDS) }

IsFixedArray(m) == m.htype = "REPEATED" /\ m.size_at = NULL

\* The arrays of fixed count come one after the other, each time all of its entries:
\* other fields may come between them, but no entry of another such array.
FixedArraysWhole(msg, fs) ==
  LET arrays == { m \in ToSet(Structs[msg]) : IsFixedArray(m) }
      gs     == SelectSeq(fs, LAMBDA f : \E m \in arrays : m.tag = f.tag)
  IN  \A m \in arrays : \A i, j \in DOMAIN gs :
        /\ i <= j
        /\ \A k \in i .. j : gs[k].tag = m.tag
        /\ i > 1 => gs[i - 1].tag # m.tag
        /\ j < Len(gs) => gs[j + 1].tag # m.tag
        => Len(Entries(SubSeq(gs, i, j), m.tag)) = m.count

\* fs, which follows the fields that were decoded to the same struct before, is a
\* message of the type: all that is required is there, nothing is too large, no array
\* has too many entries, and those of fixed count come whole.
RECURSIVE Right(_, _, _)
Right(msg, before, fs) ==
  /\ \A tag \in RequiredTags(msg) : Has(fs, tag)
  /\ FixedArraysWhole(msg, fs)
  /\ \A j \in DOMAIN Structs[msg] :
       LET m == Structs[msg][j] IN
         /\ \A k \in DOMAIN fs : fs[k].tag = m.tag => fs[k].fits
         /\ m.htype = "REPEATED" /\ m.size_at # NULL =>
              Len(Entries(before \o fs, m.tag)) <= m.count
         /\ m.ltype = "SUBMESSAGE" =>
              \A k \in DOMAIN Entries(fs, m.tag) : Right(m.ptr, << >>, Entries(fs, m.tag)[k].fs)

Joined(entries) == S(FlattenSeq([k \in DOMAIN entries |-> entries[k].fs]))

HasBytes(addr, bytes) == \A k \in DOMAIN bytes : mem[addr + k - 1] = bytes[k]

\* The struct at base has the values of the fields fs: the last one of each that is
\* not repeated, all entries of an array, the member of a oneof that came last, and
\* optional submessages merged.
RECURSIVE HasValues(_, _, _)
HasValues(msg, base, fs) ==
  \A j \in DOMAIN Structs[msg] :
    LET m       == Structs[msg][j]
        entries == Entries(fs, m.tag)
        last    == entries[Len(entries)]
        OneOfs == { i \in DOMAIN Structs[msg] : Structs[msg][i].htype = "ONEOF" }
        Members == { Structs[msg][i].tag : i \in OneOfs }
        chosen  == SelectLastInSeq(fs, LAMBDA f : f.tag \in Members)
        ItHas(addr, v) ==
          CASE m.ltype \in {"UVARINT", "VARINT", "SVARINT"} -> mem[addr] = v.n
            [] m.ltype = "SUBMESSAGE" -> HasValues(m.ptr, addr, v.fs)
            [] m.ltype = "STRING" -> HasBytes(addr, Append(v.bytes, 0))
            [] m.ltype = "BYTES" -> mem[addr] = Len(v.bytes) /\ HasBytes(addr + 2, v.bytes)
            [] m.ltype = "FIXED32" -> HasBytes(addr, v.bytes)
            [] m.ltype = "FIXED_LENGTH_BYTES" ->
                 HasBytes(addr, IF v.bytes = << >> THEN [k \in 1 .. m.item |-> 0] ELSE v.bytes)
        Default ==
          CASE m.ltype \in {"UVARINT", "VARINT", "SVARINT"} ->
                 mem[base + m.at] = IF m.ptr = NULL THEN 0 ELSE m.ptr
            [] m.ltype = "SUBMESSAGE" -> HasValues(m.ptr, base + m.at, << >>)
            [] OTHER -> HasBytes(base + m.at, [k \in 1 .. m.item |-> 0])
    IN  CASE m.atype # "STATIC" -> TRUE
          [] m.atype = "STATIC" /\ m.htype = "ONEOF" ->
               /\ mem[base + m.size_at] = IF chosen = 0 THEN 0 ELSE fs[chosen].tag
               /\ chosen # 0 /\ fs[chosen].tag = m.tag =>
                    ItHas(base + m.at, fs[chosen].entries[1])
          [] m.atype = "STATIC" /\ m.htype = "REPEATED" ->
               /\ m.size_at # NULL => mem[base + m.size_at] = Len(entries)
               /\ LET n == IF Len(entries) < m.count THEN Len(entries) ELSE m.count IN
                    \A i \in 1 .. n :
                      ItHas(base + m.at + m.item * (i - 1), entries[Len(entries) - n + i])
          [] m.atype = "STATIC" /\ m.htype \in {"REQUIRED", "OPTIONAL"} ->
               /\ m.size_at # NULL =>
                    mem[base + m.size_at] = IF Has(fs, m.tag) THEN 1 ELSE 0
               /\ IF entries = << >> THEN Default
                  ELSE ItHas(base + m.at, IF m.ltype = "SUBMESSAGE" THEN Joined(entries) ELSE last)

\* The extensions are linked to the struct.
AreLinked ==
  LET link == SelectInSeq(Structs[input.msg], LAMBDA m : m.ltype = "EXTENSION") IN
    link # 0 /\ mem[Structs[input.msg][link].at] # 0

IsSub(e) == e.field.ltype = "SUBMESSAGE"

\* The extensions have the values of the fields of their number.
HasExtensions(fs) ==
  AreLinked =>
    \A e \in ToSet(Extensions[input.msg]) :
      LET entries == Entries(fs, e.field.tag) IN
        /\ mem[e.found] = IF entries = << >> THEN 0 ELSE 1
        /\ IF IsSub(e) THEN HasValues(e.field.ptr, e.dest, Joined(entries).fs)
           ELSE mem[e.dest] = IF entries = << >> THEN 0 ELSE entries[Len(entries)].n

\* The submessages in extensions are complete.
RightExtensions(fs) ==
  AreLinked =>
    \A e \in { x \in ToSet(Extensions[input.msg]) : IsSub(x) } :
      \A k \in DOMAIN Entries(fs, e.field.tag) :
        Right(e.field.ptr, << >>, Entries(fs, e.field.tag)[k].fs)

Known == input.messages # NULL /\ stack = << >> /\ calls > 0 /\ calls <= Len(input.messages)

\* The fields since the struct was initialised.
Since(n) == FlattenSeq([k \in 1 .. n - first + 1 |-> input.messages[first + k - 1]])

\* A callback of the application may refuse any message.
Refusable ==
  \E k \in DOMAIN Structs[input.msg] :
    LET m == Structs[input.msg][k] IN
      m.atype = "CALLBACK" /\ mem[m.at] # 0 /\ Has(input.messages[calls], m.tag)

Accepted ==
  /\ Right(input.msg, IF first < calls THEN Since(calls - 1) ELSE << >>, input.messages[calls])
  /\ RightExtensions(input.messages[calls])
  /\ input.msg = Mixed => ~Has(input.messages[calls], 3)

\* pb_decode() returns true for the messages of the type and for no others: all
\* required fields up to the limit are there, whatever words of the bitmap they are
\* in, no array overflows, a fixed count is reached before the next array of fixed count
\* begins, and each submessage is complete.
ResultRight ==
  Known => /\ result => Accepted
           /\ Accepted /\ ~Refusable => result

\* After true the struct has the values of the message, merged with those of the
\* messages before it if it was not initialised.
ValuesRight ==
  Known /\ result =>
    HasValues(input.msg, 0, Since(calls)) /\ HasExtensions(Since(calls))
=============================================================================
