---------------------------- MODULE UnionDecode -----------------------------
(***************************************************************************)
(* src/ProtoBuff.c: decoding a message, from the bytes to the handler and  *)
(* back.                                                                   *)
(*                                                                         *)
(* unmarshal() opens the message (a substream when it is delimited), scans *)
(* its fields for a submessage of UnionMessage, gives the stream, which is *)
(* then at the length of the submessage, to the handler registered for its *)
(* type and closes the message.  explicit_unmarshal() gives the stream to  *)
(* a function of its caller's, without a scan.  The handler is foreign     *)
(* code: it may decode the submessage with decode_union(), read bytes of   *)
(* the stream by itself, both or neither.                                  *)
(*                                                                         *)
(* Everything is local to one call: a message that a handler unmarshals in *)
(* its turn shares no state with this one, and neither do later calls: a   *)
(* behaviour decodes one buffer, as often as it likes.                     *)
(***************************************************************************)
EXTENDS PbWire, FiniteSets

CONSTANTS
  Inputs,       \* the buffers, each with the message it is the encoding of
  UnionFields,  \* UnionMessage_fields: the type of each submessage, by field number
  Registered,   \* the types with a handler
  NULL          \* no type; and the message of a buffer that is no encoding

VARIABLES
  input,        \* the buffer of the calls
  delimited,    \* its argument
  at,           \* where the call is
  parent,       \* parent_stream, when the message is delimited
  stream,       \* the stream that decode_stream points to
  type,         \* what decode_unionmessage_type returned
  entry,        \* history: the stream as the handler got it
  result        \* what the call returned

vars == <<input, delimited, at, parent, stream, type, entry, result>>

Types == { UnionFields[n] : n \in DOMAIN UnionFields }

\* fields: the message, a sequence of [tag, wire_type, payload], or NULL; starts: where
\* in the buffer they begin; delimited: whether the encoding begins with its length.
ASSUME InputsAssumption ==
  \A i \in Inputs :
    /\ i.buffer \in Seq(Octet)
    /\ i.fields # NULL => IsMessage(i.buffer, i.delimited, i.fields, i.starts)
ASSUME TypesAssumption == NULL \notin Types \cup Registered

Init ==
  /\ input \in Inputs
  /\ delimited \in BOOLEAN
  /\ at = "idle"
  /\ parent = FromBuffer(input.buffer)
  /\ stream = FromBuffer(input.buffer)
  /\ type = NULL
  /\ entry = NULL
  /\ result = FALSE

-----------------------------------------------------------------------------
\* _unmarshal()

\* Where a call goes once its message is open.
Body(explicit) == IF explicit THEN "explicit" ELSE "scan"

\* unmarshal(), or explicit_unmarshal(), of the buffer, up to the call of callback.
Call(d, explicit) ==
  LET whole == FromBuffer(input.buffer)
      open  == pb_make_string_substream(input.buffer, whole)
  IN
    /\ at = "idle"
    /\ delimited' = d
    /\ type' = NULL
    /\ entry' = NULL
    /\ result' = FALSE
    /\ parent' = IF d THEN open.stream ELSE whole
    /\ stream' = IF d THEN open.substream ELSE whole
    /\ at' = IF d /\ ~open.ok THEN "idle" ELSE Body(explicit)
    /\ UNCHANGED input

\* What _unmarshal does when callback has returned.
Close ==
  /\ at = "close"
  /\ at' = "idle"
  /\ parent' = IF delimited THEN pb_close_string_substream(parent, stream) ELSE parent
  /\ UNCHANGED <<input, delimited, stream, type, entry, result>>

-----------------------------------------------------------------------------
\* decode_unionmessage_type(), one action per round of its loop.

\* Mutant of IsSubmessage: the wire type is not looked at.
IsSubmessageByNumber(field) == field.tag \in DOMAIN UnionFields

\* The field is a submessage of UnionMessage.  The code masks the type of the field it has
\* found, and the mask holds of more types than this one: all fields of UnionMessage
\* are submessages (hid.proto), so none is told apart.
IsSubmessage(field) == field.wire_type = 2 /\ field.tag \in DOMAIN UnionFields

\* Mutant of Scan: after a field that cannot be skipped the scan starts over.
ScanAgain ==
  LET field == pb_decode_tag(input.buffer, stream) IN
    /\ at = "scan"
    /\ IF field.ok /\ ~IsSubmessage(field)
       THEN LET skip == pb_skip_field(input.buffer, field.stream, field.wire_type)
            IN  stream' = (IF skip.ok THEN skip.stream ELSE FromBuffer(input.buffer))
       ELSE stream' = field.stream
    /\ at' = IF field.ok /\ ~IsSubmessage(field) THEN "scan" ELSE "lookup"
    /\ type' = IF field.ok /\ IsSubmessage(field) THEN UnionFields[field.tag] ELSE NULL
    /\ UNCHANGED <<input, delimited, parent, entry, result>>

\* Whether a field could be skipped does not matter to the loop.
Scan ==
  LET field == pb_decode_tag(input.buffer, stream) IN
    /\ at = "scan"
    /\ \/ /\ ~field.ok
          /\ stream' = field.stream
          /\ at' = "lookup"
          /\ UNCHANGED type
       \/ /\ field.ok
          /\ IsSubmessage(field)
          /\ stream' = field.stream
          /\ type' = UnionFields[field.tag]
          /\ at' = "lookup"
       \/ /\ field.ok
          /\ ~IsSubmessage(field)
          /\ stream' = pb_skip_field(input.buffer, field.stream, field.wire_type).stream
          /\ UNCHANGED <<at, type>>
    /\ UNCHANGED <<input, delimited, parent, entry, result>>

\* _unmarshal_lookup_callback(), after the scan.
Lookup ==
  /\ at = "lookup"
  /\ \/ /\ type \in Registered
        /\ at' = "handler"
        /\ entry' = stream
     \/ /\ type \notin Registered
        /\ at' = "close"
        /\ UNCHANGED entry
  /\ UNCHANGED <<input, delimited, parent, stream, type, result>>

-----------------------------------------------------------------------------
\* The handler, and the function given to explicit_unmarshal().

InHandler == at \in {"handler", "explicit"}

\* It reads some bytes itself.
HandlerReads(count) ==
  /\ InHandler
  /\ count <= stream.left
  /\ stream' = Advance(stream, count)
  /\ UNCHANGED <<input, delimited, at, parent, type, entry, result>>

\* decode_union(): pb_decode reads count bytes of the submessage, all of them when
\* it succeeds; the rest is skipped.
decode_union(count) ==
  LET sub == pb_make_string_substream(input.buffer, stream) IN
    /\ InHandler
    /\ \/ /\ ~sub.ok
          /\ count = 0
          /\ stream' = sub.stream
       \/ /\ sub.ok
          /\ count <= sub.substream.left
          /\ stream' = pb_close_string_substream(sub.stream, Advance(sub.substream, count))
    /\ UNCHANGED <<input, delimited, at, parent, type, entry, result>>

\* The result is what the explicit function returned, or true after a handler.
HandlerReturns(answer) ==
  /\ InHandler
  /\ at = "handler" => answer
  /\ result' = answer
  /\ at' = "close"
  /\ UNCHANGED <<input, delimited, parent, stream, type, entry>>

-----------------------------------------------------------------------------
Callers ==
  \E d \in BOOLEAN, explicit \in BOOLEAN : Call(d, explicit)

System == Scan \/ Lookup \/ Close

Handlers ==
  \/ \E count \in 1 .. Len(input.buffer) : HandlerReads(count)
  \/ \E count \in 0 .. Len(input.buffer) : decode_union(count)

HandlerEnds == \E answer \in BOOLEAN : HandlerReturns(answer)

Next == Callers \/ System \/ Handlers \/ HandlerEnds

Spec == Init /\ [][Next]_vars

\* A call goes on until it ends, provided that its handler returns.
Fairness == WF_vars(System) /\ WF_vars(HandlerEnds)

FairSpec == Spec /\ Fairness

-----------------------------------------------------------------------------
\* Properties.

\* Every variable has the shape the code gives it; in particular no count of
\* bytes left, a size_t, ever goes below zero.
TypeOK ==
  /\ input \in Inputs
  /\ delimited \in BOOLEAN
  /\ at \in {"idle", "scan", "lookup", "handler", "explicit", "close"}
  /\ parent \in Stream
  /\ stream \in Stream
  /\ type \in Types \cup {NULL}
  /\ entry \in Stream \cup {NULL}
  /\ result \in BOOLEAN

\* Positions and counts never come apart, whatever the bytes are and whatever the
\* handler does: the stream ends where the rest of its parent begins, or at the
\* end of the buffer, and once a delimited message is closed the parent has moved
\* exactly past it.
StreamsFit ==
  /\ at # "idle" =>
       EndOf(stream) + (IF delimited THEN parent.left ELSE 0) = Len(input.buffer)
  /\ at = "idle" => EndOf(parent) = Len(input.buffer)

Least(S) == CHOOSE n \in S : \A m \in S : n <= m

\* The field that the scan has to find, and what handlers have to get.
Submessages(fields) ==
  { k \in DOMAIN fields :
      fields[k].wire_type = 2 /\ fields[k].tag \in DOMAIN UnionFields }

\* In a well-formed message the first submessage of the union decides the type,
\* however many unknown fields and fields of other kinds come before it, and its
\* handler is called if there is one.
RightType ==
  at \in {"lookup", "handler"} /\ input.fields # NULL /\ delimited = input.delimited =>
    IF Submessages(input.fields) = {} THEN type = NULL
    ELSE type = UnionFields[input.fields[Least(Submessages(input.fields))].tag]

\* The handler of a well-formed message gets the stream at the submessage: what
\* decode_union decodes is its payload, byte for byte.
PayloadExact ==
  at = "handler" /\ input.fields # NULL /\ delimited = input.delimited =>
    LET sub == pb_make_string_substream(input.buffer, entry)
    IN  /\ Submessages(input.fields) # {}
        /\ sub.ok
        /\ SubSeq(input.buffer, sub.substream.pos + 1, EndOf(sub.substream))
             = input.fields[Least(Submessages(input.fields))].payload

\* No round of the scan reads nothing, or goes back.
ScanAdvances ==
  [][at = "scan" /\ at' = "scan" => stream'.left < stream.left]_vars

\* Every call returns, whatever the bytes are.
CallReturns == at # "idle" ~> at = "idle"
=============================================================================
