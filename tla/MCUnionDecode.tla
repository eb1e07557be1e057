--------------------------- MODULE MCUnionDecode ----------------------------
(***************************************************************************)
(* Instances of UnionDecode for TLC: encodings of short messages, and      *)
(* arbitrary bytes.                                                        *)
(***************************************************************************)
EXTENDS UnionDecode, SequencesExt

CONSTANTS descriptor, report

\* Two submessages of the union, only the first of which has a handler.
MCUnionFields == (1 :> descriptor) @@ (2 :> report)

MCRegistered == {descriptor}

Varint(n) == IF n < 128 THEN <<n>> ELSE <<128 + (n % 128), n \div 128>>

EncodeField(f) ==
  Varint(8 * f.tag + f.wire_type)
    \o (IF f.wire_type = 2 THEN Varint(Len(f.payload)) ELSE <<>>) \o f.payload

Encode(fields) == FlattenSeq([k \in DOMAIN fields |-> EncodeField(fields[k])])

\* Fields of every wire type, known and unknown, with one- and two-byte numbers;
\* payloads that look like a tag of the union.
MCFields ==
  { [tag |-> 1, wire_type |-> 2, payload |-> <<18, 1>>],
    [tag |-> 2, wire_type |-> 2, payload |-> <<>>],
    [tag |-> 200, wire_type |-> 2, payload |-> <<10>>],
    [tag |-> 1, wire_type |-> 0, payload |-> <<138, 10>>],
    [tag |-> 4, wire_type |-> 1, payload |-> <<10, 0, 10, 0, 10, 0, 18, 1>>],
    [tag |-> 2, wire_type |-> 5, payload |-> <<10, 1, 18, 0>>] }

\* Where the fields begin, and the end.
Starts(m, first) == [k \in 1 .. Len(m) + 1 |-> first + Len(Encode(SubSeq(m, 1, k - 1)))]

MCMessages == UNION { [1 .. n -> MCFields] : n \in 0 .. 3 }

\* Delimited or not, followed by the zeros of a larger buffer.
Prefix(m, d) == IF d THEN Varint(Len(Encode(m))) ELSE <<>>

MCInputs ==
  { [ buffer    |-> Prefix(m, d) \o Encode(m) \o <<0, 0>>,
      fields    |-> m,
      starts    |-> Starts(m, Len(Prefix(m, d))),
      delimited |-> d ] : m \in MCMessages, d \in BOOLEAN }

\* Arbitrary bytes: tags of the union, of unknown fields and of no wire type,
\* lengths, the zero that ends a message, continuation bytes.
MCBytes == {0, 1, 8, 10, 11, 128, 255}

MCGarbage ==
  { [buffer |-> b, fields |-> NULL, starts |-> <<>>, delimited |-> FALSE] :
      b \in UNION { [1 .. n -> MCBytes] : n \in 0 .. 4 } }

\* Varints of five to ten bytes: the largest, too large, sign-extended, padded.
MCLongVarints ==
  { [buffer |-> b, fields |-> NULL, starts |-> <<>>, delimited |-> FALSE] :
      b \in { <<255, 255, 255, 255, 7, 10, 0>>,
              <<255, 255, 255, 255, 16, 10, 0>>,
              <<138, 128, 128, 128, 128, 0, 1, 9>>,
              <<138, 128, 128, 128, 128, 1, 1, 9>>,
              <<130, 128, 128, 128, 248, 255, 255, 255, 255, 1, 0>>,
              <<130, 128, 128, 128, 248, 255, 255, 255, 255, 2, 0>> } }

MCAllInputs == MCInputs \cup MCGarbage \cup MCLongVarints
=============================================================================
