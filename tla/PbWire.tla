------------------------------- MODULE PbWire -------------------------------
(***************************************************************************)
(* The encoding of Protocol Buffers, as lib/nanopb-0.3.9.3 is to read it:  *)
(* what it means that the bytes of a buffer are those of a message.        *)
(*                                                                         *)
(* Offsets count from 0; a number or a value lies between two of them, in  *)
(* the bytes buf[from + 1] to buf[to].  Numbers are below 2^31: five       *)
(* bytes, the last one below 8, as PbStream has it.                        *)
(***************************************************************************)
EXTENDS PbStream

\* The number in the low seven bits of the k-th byte of those that begin at from.
Digit(buf, from, to, k) == IF from + k <= to THEN buf[from + k] % 128 ELSE 0

\* Every byte but the last one has the continuation bit.
IsContinued(buf, from, to) ==
  from < to /\ \A k \in 1 .. to - from : buf[from + k] < 128 <=> k = to - from

\* The bytes are a varint of the number n.
IsVarint(buf, from, to, n) ==
  /\ IsContinued(buf, from, to)
  /\ to - from <= 5
  /\ to - from = 5 => buf[to] < 8
  /\ n = Digit(buf, from, to, 1) + 128 * (Digit(buf, from, to, 2)
           + 128 * (Digit(buf, from, to, 3) + 128 * (Digit(buf, from, to, 4)
           + 128 * Digit(buf, from, to, 5))))

\* The wire types: 0 varint, 1 64 bits, 2 string, 5 32 bits.
Field == [tag : Nat \ {0}, wire_type : {0, 1, 2, 5}, payload : Seq(Octet)]

IsPayload(buf, from, to, payload) ==
  to = from + Len(payload) /\ \A k \in DOMAIN payload : buf[from + k] = payload[k]

\* The bytes are the value of the field; a string has its length before it.
IsValue(buf, from, to, field) ==
  \/ /\ field.wire_type = 2
     /\ \E body \in from .. to : /\ IsVarint(buf, from, body, Len(field.payload))
                                 /\ IsPayload(buf, body, to, field.payload)
  \/ /\ field.wire_type # 2
     /\ IsPayload(buf, from, to, field.payload)
     /\ field.wire_type = 0 => IsContinued(buf, from, to)
     /\ field.wire_type = 1 => to = from + 8
     /\ field.wire_type = 5 => to = from + 4

\* The bytes are the field: its number and wire type, and its value.
IsField(buf, from, to, field) ==
  \E body \in from .. to : /\ IsVarint(buf, from, body, 8 * field.tag + field.wire_type)
                           /\ IsValue(buf, body, to, field)

\* The buffer begins with the fields, field k at the offset starts[k] and the end of
\* the message at the last one.  Before a delimited message is its length, behind one
\* that is not delimited a zero or the end of the buffer.
IsMessage(buf, delimited, fields, starts) ==
  LET n   == Len(fields)
      end == starts[n + 1]
  IN  /\ fields \in Seq(Field)
      /\ starts \in [1 .. n + 1 -> 0 .. Len(buf)]
      /\ \A k \in 1 .. n : IsField(buf, starts[k], starts[k + 1], fields[k])
      /\ IF delimited THEN IsVarint(buf, 0, starts[1], end - starts[1])
         ELSE starts[1] = 0 /\ (end < Len(buf) => buf[end + 1] = 0)
=============================================================================
