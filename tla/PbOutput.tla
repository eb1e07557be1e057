------------------------------- MODULE PbOutput -----------------------------
(***************************************************************************)
(* What pb_encode() and every callback it calls may do to the caller's     *)
(* buffer: the streams of pb_encode.c in the hands of a program that       *)
(* writes what it likes, in any order, goes on after a write has failed    *)
(* and leaves a submessage whenever it likes.                              *)
(***************************************************************************)
EXTENDS PbOStream, Sequences

VARIABLES
  bufsize, \* the size of the buffer
  outs,    \* the streams, the innermost last
  touched  \* where bytes were written, counted from the beginning of the buffer

vars == <<bufsize, outs, touched>>

Out == outs[Len(outs)]

\* Without the innermost one.
Outer == SubSeq(outs, 1, Len(outs) - 1)

Init ==
  /\ bufsize \in BufferSizes
  /\ outs = <<>>
  /\ touched = {}

Open ==
  /\ outs = <<>>
  /\ outs' \in { <<PB_OSTREAM_SIZING>>, <<pb_ostream_from_buffer(bufsize)>> }
  /\ UNCHANGED <<bufsize, touched>>

\* A write that fails changes nothing.
Write(count) ==
  /\ outs # <<>>
  /\ Sizing(Out) \/ HasRoom(Out, count)
  /\ outs' = [outs EXCEPT ![Len(outs)] = Wrote(Out, count)]
  /\ touched' = touched \cup Places(Out, count)
  /\ UNCHANGED bufsize

\* The passes over a submessage.
SizePass ==
  /\ outs # <<>>
  /\ outs' = Append(outs, PB_OSTREAM_SIZING)
  /\ UNCHANGED <<bufsize, touched>>

WritePass(size) ==
  /\ outs # <<>>
  /\ ~Sizing(Out) /\ HasRoom(Out, size)
  /\ outs' = Append(outs, SubStream(Out, size))
  /\ UNCHANGED <<bufsize, touched>>

EndSizePass ==
  /\ Len(outs) > 1
  /\ Sizing(Out)
  /\ outs' = Outer
  /\ UNCHANGED <<bufsize, touched>>

EndWritePass ==
  /\ Len(outs) > 1
  /\ ~Sizing(Out)
  /\ outs' = [Outer EXCEPT ![Len(outs) - 1] = Joined(@, Out)]
  /\ UNCHANGED <<bufsize, touched>>

Close ==
  /\ Len(outs) = 1
  /\ outs' = <<>>
  /\ UNCHANGED <<bufsize, touched>>

Next ==
  \/ Open
  \/ \E count \in Counts : Write(count)
  \/ SizePass
  \/ \E size \in Counts : WritePass(size)
  \/ EndSizePass
  \/ EndWritePass
  \/ Close

Spec == Init /\ [][Next]_vars

-----------------------------------------------------------------------------
\* Inside a stream that only counts all streams only count.  A stream for a submessage
\* begins where the stream around it is and ends before that one does.
Nested(outer, inner) ==
  Sizing(inner) \/ /\ ~Sizing(outer)
                   /\ inner.state = outer.state + inner.bytes_written
                   /\ outer.bytes_written + inner.max_size <= outer.max_size

\* Nothing is ever written behind the caller's buffer, however deep in submessages,
\* and no matter what the second pass over one writes that the first one did not count.
WithinBuffer ==
  /\ touched \subseteq 1 .. bufsize
  /\ \A k \in DOMAIN outs : ~Sizing(outs[k]) =>
       /\ outs[k].bytes_written <= outs[k].max_size
       /\ outs[k].state <= bufsize
  /\ \A k \in DOMAIN outs : k > 1 => Nested(outs[k - 1], outs[k])
=============================================================================
