---------------------------- MODULE PacketStream ----------------------------
(***************************************************************************)
(* What send() promises, without the loop, the offsets and the handlers:   *)
(* a call hands over the pieces of its message one by one and in order,    *)
(* numbered and marked at both ends; it ends with TRUE only when every     *)
(* piece was handed over and none was refused, and it may give up, with    *)
(* FALSE, while pieces are left.  A call made while another is in progress *)
(* ends before that one goes on.                                           *)
(***************************************************************************)
EXTENDS Integers, Sequences

CONSTANTS
  ChunkSize,    \* bytes in a piece: at least one
  SequenceMod,  \* the numbers of the pieces wrap at this value
  Messages,     \* the messages callers send
  None          \* no call has ended yet

VARIABLES
  calls,        \* the calls in progress, the innermost one last
  ended         \* the call that ended last and its result

streamVars == <<calls, ended>>

\* A piece closes its message when it reaches the message's last byte.
Closes(message, k) == k * ChunkSize >= Len(message)

Piece(message, k) ==
  [ data   |-> SubSeq(message, (k - 1) * ChunkSize + 1,
                      IF Closes(message, k) THEN Len(message) ELSE k * ChunkSize),
    number |-> (k - 1) % SequenceMod,
    first  |-> k = 1,
    final  |-> Closes(message, k) ]

Current == calls[Len(calls)]

Complete(call) == Closes(call.message, Len(call.handed))

Start == calls = <<>> /\ ended = None

Begin(message) ==
  /\ calls' = Append(calls, [message |-> message, handed |-> <<>>, refused |-> FALSE])
  /\ UNCHANGED ended

HandOver ==
  /\ calls # <<>>
  /\ ~Complete(Current)
  /\ calls' = [calls EXCEPT ![Len(calls)].handed =
                 Append(@, Piece(Current.message, Len(@) + 1))]
  /\ UNCHANGED ended

Refuse ==
  /\ calls # <<>>
  /\ Current.handed # <<>>
  /\ calls' = [calls EXCEPT ![Len(calls)].refused = TRUE]
  /\ UNCHANGED ended

\* The current call ends with the given result.
End(result) ==
  /\ calls' = SubSeq(calls, 1, Len(calls) - 1)
  /\ ended' = [message |-> Current.message, handed |-> Current.handed, result |-> result]

Finish == calls # <<>> /\ Complete(Current) /\ End(~Current.refused)

GiveUp == calls # <<>> /\ ~Complete(Current) /\ End(FALSE)

Progress == HandOver \/ Finish \/ GiveUp

Step == Progress \/ Refuse \/ \E message \in Messages : Begin(message)

StreamSpec == Start /\ [][Step]_streamVars

\* A call that has begun goes on until it ends.
FairStreamSpec == StreamSpec /\ WF_streamVars(Progress)
=============================================================================
