-------------------------------- MODULE Crc8 --------------------------------
(***************************************************************************)
(* The CRC-8 (x^8 + x^2 + x + 1) of lib/crc8/Crc8.c, in the variant that   *)
(* the #else branch compiles, and its fold over a buffer.                  *)
(*                                                                         *)
(* A byte is the set of the positions of its one bits: exclusive or is the *)
(* symmetric difference and the shifts move positions, so the operators    *)
(* need no arithmetic and a program byte is exactly a subset of 0..7.      *)
(***************************************************************************)
EXTENDS Integers, Sequences, SequencesExt

Bit == 0 .. 7

Byte == SUBSET Bit

\* The byte 0, the terminator of a C string.
NUL == {}

Xor(a, b) == (a \ b) \cup (b \ a)

\* An unsigned char shifted left by one: bit 7 is lost, bit 0 becomes zero.
Shl(d) == { k + 1 : k \in d \ {7} }

\* The low byte of the polynomial, 0x07.
Poly == {0, 1, 2}

\* One iteration of the loop over the eight bits.
Round == [ d \in Byte |-> IF 7 \in d THEN Xor(Shl(d), Poly) ELSE Shl(d) ]

\* The loop runs eight times.
Rounds ==
  [ d \in Byte |-> Round[Round[Round[Round[Round[Round[Round[Round[d]]]]]]]] ]

Crc8(inCrc, inData) == Rounds[Xor(inCrc, inData)]

\* PacketSerial.c folds Crc8 over the bytes of a buffer, from zero, in a u8:
\* what is stored is the low eight bits.
calculate_crc(buffer) == FoldLeft(Crc8, NUL, buffer) \cap Bit
=============================================================================
