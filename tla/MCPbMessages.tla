---------------------------- MODULE MCPbMessages ----------------------------
(***************************************************************************)
(* Notation for the message types and the messages of MCPbDecode and       *)
(* MCPbEncode.                                                             *)
(*                                                                         *)
(* A message is a sequence of fields as they come on the line: bytes is    *)
(* their encoding, entries are the values in it and fits tells whether     *)
(* their lengths and sizes are those of the member.                        *)
(***************************************************************************)
EXTENDS PbField, SequencesExt

MCMember(tag, ltype, htype, atype, at, item, count, size_at, shared, ptr) ==
  [ tag |-> tag, ltype |-> ltype, htype |-> htype, atype |-> atype, at |-> at, item |-> item,
    count |-> count, size_at |-> size_at, shared |-> shared, ptr |-> ptr ]

Required(tag, ltype, at, item) ==
  MCMember(tag, ltype, "REQUIRED", "STATIC", at, item, 1, NULL, FALSE, NULL)

\* An entry: a number, bytes or a submessage.
N(n) == [n |-> n, bytes |-> << >>, fs |-> << >>]
B(bytes) == [n |-> 0, bytes |-> bytes, fs |-> << >>]
S(fs) == [n |-> 0, bytes |-> << >>, fs |-> fs]

F(tag, wire_type, payload, entries, fits) ==
  [tag |-> tag, bytes |-> <<8 * tag + wire_type>> \o payload, entries |-> entries, fits |-> fits]

Number(tag, n) == F(tag, 0, <<n>>, <<N(n)>>, TRUE)

Text(tag, bytes, fits) == F(tag, 2, <<Len(bytes)>> \o bytes, <<B(bytes)>>, fits)

Bytes(fs) == FlattenSeq([k \in DOMAIN fs |-> fs[k].bytes])

Sub(tag, fs) == F(tag, 2, <<Len(Bytes(fs))>> \o Bytes(fs), <<S(fs)>>, TRUE)

Entries(fs, tag) ==
  FlattenSeq([k \in DOMAIN fs |-> IF fs[k].tag = tag THEN fs[k].entries ELSE << >>])
=============================================================================
