--------------------------- MODULE MCPacketSerial ---------------------------
(***************************************************************************)
(* Instances of PacketSerial for TLC.                                      *)
(***************************************************************************)
EXTENDS PacketSerialStream

\* Two letters whose CRCs differ, one with bit 7 set.
MCLetters == {{0}, {0, 7}}

\* Every buffer of at most 5 bytes, NUL included: with three bytes of data (two
\* per chunk) up to three packets, full and partial last chunks.
MCAllMessages == UNION { [1 .. n -> MCLetters \cup {NUL}] : n \in 0 .. 5 }

\* For nested calls and the refinement: one buffer that send() can carry for each
\* number of packets from none to three.
MCCarriedMessages == { [j \in 1 .. n |-> {j % 2}] : n \in {0, 1, 3, 5} }

\* The two findings: thirty letters, two chunks of fifteen; and the DeviceDescriptor
\* of test_encode_decode_devicedescriptor, marshalled delimited in its UnionMessage
\* (0d 0a 0b 0a 05 "hello" 12 00 18 00): fourteen bytes, two of them zero.
MCTwoFullChunks == { [j \in 1 .. 30 |-> {0, 5, 6}] }

MCDescriptor ==
  { << {0, 2, 3}, {1, 3}, {0, 1, 3}, {1, 3}, {0, 2},
       {3, 5, 6}, {0, 2, 5, 6}, {2, 3, 5, 6}, {2, 3, 5, 6}, {0, 1, 2, 3, 5, 6},
       {1, 4}, {}, {3, 4}, {} >> }
=============================================================================
