------------------------------ MODULE PbOStream -----------------------------
(***************************************************************************)
(* Output streams, lib/nanopb-0.3.9.3/pb_encode.c.                         *)
(*                                                                         *)
(* A stream counts the bytes written to it.  One that only counts is for   *)
(* finding out sizes; the caller's writes to its buffer, and state is how  *)
(* far it has come there; one for a submessage is a part of the stream     *)
(* that the submessage is in.                                              *)
(***************************************************************************)
EXTENDS Integers

CONSTANTS
  BufferSizes, \* the sizes of the caller's buffer
  Counts       \* how many bytes may be written at once

ASSUME OutputAssumption == BufferSizes \subseteq Nat /\ Counts \subseteq Nat

PB_OSTREAM_SIZING == [of |-> "sizing", state |-> 0, max_size |-> 0, bytes_written |-> 0]

pb_ostream_from_buffer(size) ==
  [of |-> "caller", state |-> 0, max_size |-> size, bytes_written |-> 0]

Sizing(s) == s.of = "sizing"

\* Mutant of HasRoom: the size of the buffer may be exceeded by one.
HasRoomForOneMore(s, count) == s.bytes_written + count <= s.max_size + 1

HasRoom(s, count) == s.bytes_written + count <= s.max_size

\* The stream after count bytes, and where in the buffer they are.
Wrote(s, count) ==
  [s EXCEPT !.bytes_written = @ + count, !.state = IF Sizing(s) THEN @ ELSE @ + count]

Places(s, count) == IF Sizing(s) THEN {} ELSE s.state + 1 .. s.state + count

\* Mutant of SubStream: the second pass may fill the buffer.
SubStreamToEnd(s, size) ==
  [of |-> "submessage", state |-> s.state, max_size |-> s.max_size, bytes_written |-> 0]

\* A stream for the second pass over a submessage, and its outer stream after that.
SubStream(s, size) ==
  [of |-> "submessage", state |-> s.state, max_size |-> size, bytes_written |-> 0]

Joined(s, sub) ==
  [s EXCEPT !.bytes_written = @ + sub.bytes_written, !.state = sub.state]
=============================================================================
