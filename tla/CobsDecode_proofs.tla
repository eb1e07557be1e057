------------------------- MODULE CobsDecode_proofs --------------------------
(***************************************************************************)
(* Whatever bytes the decoders are given, in whatever buffers, they stay   *)
(* inside both buffers, never produce more than the headers say, and in a  *)
(* single buffer never write what they have yet to read; and they return   *)
(* exactly what the string means, or a true reason why it means nothing.   *)
(*                                                                         *)
(* The meaning is a recursive function; the second part proves that it has *)
(* the value its definition says and what a block adds to it, and the last *)
(* part follows one call through its blocks.                               *)
(***************************************************************************)
EXTENDS CobsDecode, SequenceTheorems, WellFoundedInduction, TLAPS

\* How far the pointers are apart.  A block has consumed its code byte before it
\* produces anything, and the zero behind it makes up for that byte; i never exceeds
\* what is left of either buffer; an inner block of cobsr_decode() leaves input behind.
Pointers ==
  /\ single => Len(dst) = Len(src)
  /\ pc = "call" => src_read_ptr = 0 /\ dst_write_ptr = 0
  /\ pc = "code" => dst_write_ptr <= src_read_ptr /\ src_read_ptr < Len(src)
  /\ pc \in {"copy", "last", "final"} =>
       /\ dst_write_ptr + 1 <= src_read_ptr
       /\ src_read_ptr + i <= Len(src)
       /\ dst_write_ptr + i <= Len(dst)
  /\ pc = "copy" /\ reduced => src_read_ptr + i < Len(src)
  /\ pc \in {"last", "final"} => reduced
  /\ pc = "done" => NeverGrows

IInv == TypeOK /\ InBounds /\ Pointers /\ UnreadIntact

-----------------------------------------------------------------------------
\* The bytes are natural numbers, zero among them, and so is the largest.
LEMMA Bytes ==
  /\ MaxCode \in Nat /\ MaxCode > 1
  /\ 0 \in Byte /\ Byte \subseteq Nat
  /\ \A b \in Byte \ {0} : b - 1 \in 0 .. MaxCode - 1
  BY MaxCodeAssumption DEF Byte

\* One byte of a buffer is overwritten.
LEMMA Overwritten ==
  ASSUME NEW S, NEW s \in Seq(S), NEW p \in Nat, p < Len(s), NEW b \in S
  PROVE  /\ [s EXCEPT ![p + 1] = b] \in Seq(S)
         /\ Len([s EXCEPT ![p + 1] = b]) = Len(s)
         /\ \A n \in 1 .. Len(s) : n # p + 1 => [s EXCEPT ![p + 1] = b][n] = s[n]
<1>1. p + 1 \in 1 .. Len(s) OBVIOUS
<1> QED BY <1>1, ExceptSeq

\* A buffer that was never written to.
LEMMA Fresh ==
  ASSUME NEW n \in Nat
  PROVE  /\ [j \in 1 .. n |-> Unwritten] \in Seq(Byte \cup {Unwritten})
         /\ Len([j \in 1 .. n |-> Unwritten]) = n
  OBVIOUS

\* A read inside the source returns a byte of it.
LEMMA ReadByte ==
  ASSUME TypeOK, NEW b, Read(b), src_read_ptr < Len(src)
  PROVE  b \in Byte /\ b = src[src_read_ptr + 1]
<1>1. src_read_ptr + 1 \in 1 .. Len(src) /\ b = src[src_read_ptr + 1]
  BY DEF TypeOK, Read
<1> QED BY <1>1 DEF TypeOK

\* What lies behind a later place lies behind an earlier one.
LEMMA Behind ==
  ASSUME NEW p \in Nat, NEW q \in Nat, q >= p, NEW len \in Nat, NEW n \in q + 1 .. len
  PROVE  n \in p + 1 .. len /\ n \in 1 .. len /\ n > q
  OBVIOUS

\* A write inside the destination, behind the read pointer if the buffer is single,
\* keeps the types of both buffers and what is still to be read.
LEMMA WriteByte ==
  ASSUME IInv, NEW b \in Byte, Write(b),
         dst_write_ptr < Len(dst),
         single' = single, input' = input,
         src_read_ptr' \in Nat, src_read_ptr' >= src_read_ptr,
         dst_write_ptr + 1 <= src_read_ptr'
  PROVE  /\ src' \in Seq(Byte) /\ Len(src') = Len(src)
         /\ dst' \in Seq(Byte \cup {Unwritten}) /\ Len(dst') = Len(dst)
         /\ UnreadIntact'
<1>1. /\ src \in Seq(Byte) /\ dst \in Seq(Byte \cup {Unwritten})
      /\ Len(src) \in Nat /\ Len(dst) \in Nat
      /\ dst_write_ptr \in Nat /\ src_read_ptr \in Nat
      /\ b \in Byte \cup {Unwritten}
  BY DEF IInv, TypeOK
<1>2. /\ dst' \in Seq(Byte \cup {Unwritten}) /\ Len(dst') = Len(dst)
  BY <1>1, Overwritten DEF Write
<1>3. CASE single
  <2>1. dst_write_ptr < Len(src) BY <1>3 DEF IInv, Pointers
  <2>2. src' = [src EXCEPT ![dst_write_ptr + 1] = b] BY <1>3 DEF Write
  <2>3. /\ src' \in Seq(Byte) /\ Len(src') = Len(src)
        /\ \A n \in 1 .. Len(src) : n # dst_write_ptr + 1 => src'[n] = src[n]
    BY <1>1, <2>1, <2>2, Overwritten
  <2>4. UnreadIntact'
    <3> SUFFICES ASSUME NEW n \in src_read_ptr' + 1 .. Len(src)
                 PROVE  src'[n] = input[n]
      BY <2>3 DEF UnreadIntact
    <3>1. /\ n \in src_read_ptr + 1 .. Len(src)
          /\ n \in 1 .. Len(src) /\ n > src_read_ptr'
      BY <1>1, Behind
    <3>2. src[n] = input[n] BY <3>1 DEF IInv, UnreadIntact
    <3>3. n # dst_write_ptr + 1 BY <1>1, <3>1
    <3> QED BY <3>1, <3>2, <3>3, <2>3
  <2> QED BY <1>2, <2>3, <2>4
<1>4. CASE ~single
  <2>1. src' = src BY <1>4 DEF Write
  <2>2. \A n \in src_read_ptr' + 1 .. Len(src) : n \in src_read_ptr + 1 .. Len(src)
    BY <1>1, Behind
  <2> QED BY <1>1, <1>2, <2>1, <2>2 DEF IInv, UnreadIntact
<1> QED BY <1>3, <1>4

\* What is still to be read stays so when the read pointer moves on.
LEMMA UnreadKept ==
  ASSUME IInv, src' = src, input' = input,
         src_read_ptr' \in Nat, src_read_ptr' >= src_read_ptr
  PROVE  UnreadIntact'
<1>1. Len(src) \in Nat /\ src_read_ptr \in Nat BY DEF IInv, TypeOK
<1>2. \A n \in src_read_ptr' + 1 .. Len(src) : n \in src_read_ptr + 1 .. Len(src)
  BY <1>1, Behind
<1> QED BY <1>2 DEF IInv, UnreadIntact

-----------------------------------------------------------------------------
\* Before the call nothing is read or written.
LEMMA InitInvariant == Init => IInv
<1> SUFFICES ASSUME Init PROVE IInv
  OBVIOUS
<1>1. input \in Seq(Byte) /\ src = input /\ Len(input) \in Nat
  BY StringsAssumption DEF Init
<1>2. dst \in Seq(Byte \cup {Unwritten}) /\ Len(dst) \in Nat /\ (single => Len(dst) = Len(src))
  <2>1. CASE single BY <1>1, <2>1 DEF Init
  <2>2. CASE ~single
    <3>1. PICK n \in DstLens : dst = [j \in 1 .. n |-> Unwritten] BY <2>2 DEF Init
    <3>2. n \in Nat BY DstLensAssumption
    <3> QED BY <3>1, <3>2, <2>2, Fresh
  <2> QED BY <2>1, <2>2
<1>3. TypeOK
  <2>1. i \in 0 .. MaxCode - 1 /\ out_len \in 0 .. Len(dst) /\ len_code \in Byte
    BY <1>2, Bytes DEF Init
  <2>2. src_read_ptr \in 0 .. Len(src) /\ dst_write_ptr \in 0 .. Len(dst)
    BY <1>1, <1>2 DEF Init
  <2>3. reduced \in BOOLEAN /\ null \in BOOLEAN /\ single \in BOOLEAN /\ stray \in BOOLEAN
    BY DEF Init
  <2> QED BY <1>1, <1>2, <2>1, <2>2, <2>3 DEF Init, TypeOK
<1>4. Pointers BY <1>2 DEF Init, Pointers
<1>5. UnreadIntact BY <1>1 DEF UnreadIntact
<1> QED BY <1>3, <1>4, <1>5 DEF Init, IInv, InBounds

\* The steps that only return, or go on, and touch no buffer.
LEMMA QuietSteps ==
  ASSUME IInv,
         RejectNull \/ Start \/ InputEnds \/ FullBlock \/ ZeroOverflow \/ LastEnds
           \/ FinalByteOverflow
  PROVE  IInv'
<1>1. /\ UNCHANGED <<reduced, null, single, input, src, dst, src_read_ptr, dst_write_ptr,
                     len_code, i, stray>>
  BY DEF RejectNull, Start, InputEnds, FullBlock, ZeroOverflow, LastEnds, FinalByteOverflow
<1>2. UnreadIntact' BY <1>1 DEF IInv, UnreadIntact
<1>3. Len(src) \in Nat /\ Len(dst) \in Nat /\ Len(input) = Len(src)
  BY DEF IInv, TypeOK
<1>4. TypeOK'
  <2>1. /\ pc' \in {"call", "code", "copy", "last", "final", "done"}
        /\ status' \subseteq {"NULL_POINTER", "OUT_BUFFER_OVERFLOW", "ZERO_BYTE_IN_INPUT",
                              "INPUT_TOO_SHORT"}
        /\ out_len' \in 0 .. Len(dst)
    BY DEF IInv, TypeOK, RejectNull, Start, InputEnds, FullBlock, ZeroOverflow, LastEnds,
           FinalByteOverflow, Return
  <2> QED BY <1>1, <2>1 DEF IInv, TypeOK
<1>5. Pointers'
  <2>1. CASE RejectNull
    BY <2>1, <1>1, <1>3 DEF RejectNull, IInv, TypeOK, Pointers, NeverGrows,
       DECODE_DST_BUF_LEN_MAX, REDUCED_DECODE_DST_BUF_LEN_MAX
  <2>2. CASE Start
    <3>1. src # <<>> => Len(src) > 0 BY <1>3 DEF IInv, TypeOK
    <3> QED BY <2>2, <1>1, <1>3, <3>1 DEF Start, IInv, TypeOK, Pointers, NeverGrows,
       DECODE_DST_BUF_LEN_MAX, REDUCED_DECODE_DST_BUF_LEN_MAX
  <2>3. CASE FullBlock
    BY <2>3, <1>1, <1>3 DEF FullBlock, InputExhausted, IInv, TypeOK, Pointers, Byte
  <2>4. CASE InputEnds \/ ZeroOverflow \/ LastEnds \/ FinalByteOverflow
    <3>1. pc \in {"copy", "last", "final"} /\ pc' = "done"
      BY <2>4 DEF InputEnds, ZeroOverflow, LastEnds, FinalByteOverflow, Return
    <3>2. NeverGrows'
      BY <3>1, <1>1, <1>3 DEF IInv, TypeOK, Pointers, NeverGrows,
         DECODE_DST_BUF_LEN_MAX, REDUCED_DECODE_DST_BUF_LEN_MAX
    <3> QED BY <3>1, <3>2, <1>1 DEF IInv, Pointers
  <2> QED BY <2>1, <2>2, <2>3, <2>4
<1> QED BY <1>1, <1>2, <1>4, <1>5 DEF IInv, InBounds

\* Reading a code of zero.
LEMMA ZeroCodeStep == ASSUME IInv, ReadZeroCode PROVE IInv'
<1>1. /\ pc = "code" /\ pc' = "done"
      /\ src_read_ptr' = src_read_ptr + 1 /\ out_len' = dst_write_ptr
      /\ UNCHANGED <<reduced, null, single, input, src, dst, dst_write_ptr, len_code, i>>
      /\ stray' = (stray \/ src_read_ptr >= Len(src))
      /\ status' = status \cup {"ZERO_BYTE_IN_INPUT"}
  BY DEF ReadZeroCode, Read, Return
<1>2. /\ Len(src) \in Nat /\ Len(dst) \in Nat /\ Len(input) = Len(src)
      /\ src_read_ptr \in Nat /\ src_read_ptr < Len(src)
      /\ dst_write_ptr \in Nat /\ dst_write_ptr <= src_read_ptr
  BY <1>1 DEF IInv, TypeOK, Pointers
<1>3. UnreadIntact' BY <1>1, <1>2, UnreadKept
<1>4. TypeOK' BY <1>1, <1>2 DEF IInv, TypeOK
<1>5. NeverGrows'
  BY <1>1, <1>2 DEF NeverGrows, DECODE_DST_BUF_LEN_MAX, REDUCED_DECODE_DST_BUF_LEN_MAX
<1>6. Pointers' BY <1>1, <1>5 DEF IInv, Pointers
<1>7. InBounds'
  <2>1. ~(src_read_ptr >= Len(src)) BY <1>2
  <2> QED BY <1>1, <2>1, Zenon DEF IInv, InBounds
<1> QED BY <1>3, <1>4, <1>6, <1>7 DEF IInv

\* Reading any other code.
LEMMA BlockStep ==
  ASSUME IInv, pc = "code", NEW b \in Byte \ {0}, NEW bytes \in Nat, NEW code \in Byte,
         NEW at \in {"copy", "last", "final"},
         ReadBlock(b, bytes, code, at),
         bytes <= MaxCode - 1, bytes <= InputLeft,
         at = "copy" /\ reduced => bytes < InputLeft,
         at \in {"last", "final"} => reduced,
         status' \subseteq status \cup {"OUT_BUFFER_OVERFLOW", "INPUT_TOO_SHORT"}
  PROVE  IInv'
<1>1. /\ pc' = at /\ src_read_ptr' = src_read_ptr + 1
      /\ UNCHANGED <<reduced, null, single, input, src, dst, dst_write_ptr, out_len>>
      /\ stray' = (stray \/ src_read_ptr >= Len(src))
      /\ len_code' = code /\ i' = Least(bytes, OutputLeft)
  BY DEF ReadBlock, Read
<1>2. /\ Len(src) \in Nat /\ Len(dst) \in Nat /\ MaxCode \in Nat
      /\ src_read_ptr \in Nat /\ src_read_ptr < Len(src)
      /\ dst_write_ptr \in 0 .. Len(dst) /\ dst_write_ptr <= src_read_ptr
  BY Bytes DEF IInv, TypeOK, Pointers
<1>3. /\ i' \in 0 .. MaxCode - 1
      /\ dst_write_ptr + i' <= Len(dst)
      /\ src_read_ptr' + i' <= Len(src)
      /\ at = "copy" /\ reduced => src_read_ptr' + i' < Len(src)
  <2>1. OutputLeft \in Nat /\ dst_write_ptr + OutputLeft = Len(dst)
    BY <1>2 DEF OutputLeft
  <2>2. i' \in Nat /\ i' <= bytes /\ i' <= OutputLeft
    BY <1>1, <2>1 DEF Least
  <2>3. src_read_ptr' + InputLeft = Len(src) /\ InputLeft \in Nat
    BY <1>1, <1>2 DEF InputLeft
  <2>4. src_read_ptr' \in Nat BY <1>1, <1>2
  <2> QED BY <1>2, <2>1, <2>2, <2>3, <2>4
<1>4. UnreadIntact' BY <1>1, <1>2, UnreadKept
<1>5. TypeOK' BY <1>1, <1>2, <1>3 DEF IInv, TypeOK
<1>6. Pointers' BY <1>1, <1>2, <1>3 DEF IInv, Pointers
<1>7. InBounds'
  <2>1. ~(src_read_ptr >= Len(src)) BY <1>2
  <2> QED BY <1>1, <2>1, Zenon DEF IInv, InBounds
<1> QED BY <1>4, <1>5, <1>6, <1>7 DEF IInv

\* The two actions that read a code byte keep the invariant.
LEMMA CodeSteps ==
  ASSUME IInv, ReadCode \/ ReadInnerCode \/ ReadLastCode
  PROVE  IInv'
<1>1. pc = "code" BY DEF ReadCode, ReadInnerCode, ReadLastCode
<1>2. /\ InputLeft \in Nat /\ OutputLeft \in Nat /\ MaxCode \in Nat
  BY <1>1, Bytes DEF IInv, TypeOK, Pointers, InputLeft, OutputLeft
<1>3. CASE ReadCode
  <2>1. PICK b \in Byte \ {0} :
          /\ ReadBlock(b, Least(b - 1, InputLeft),
                       Least(Least(b - 1, InputLeft), OutputLeft), "copy")
          /\ status' \subseteq status \cup {"OUT_BUFFER_OVERFLOW", "INPUT_TOO_SHORT"}
    BY <1>3 DEF ReadCode, FlagIf
  <2>2. b - 1 \in 0 .. MaxCode - 1 BY Bytes
  <2>3. /\ Least(b - 1, InputLeft) \in Nat
        /\ Least(b - 1, InputLeft) <= MaxCode - 1
        /\ Least(b - 1, InputLeft) <= InputLeft
        /\ Least(Least(b - 1, InputLeft), OutputLeft) \in 0 .. MaxCode
    BY <1>2, <2>2 DEF Least
  <2>4. ~reduced BY <1>3 DEF ReadCode
  <2> QED BY <1>1, <2>1, <2>3, <2>4, BlockStep DEF Byte
<1>4. CASE ReadInnerCode
  <2>1. PICK b \in Byte \ {0} :
          /\ MoreBlocks(b)
          /\ ReadBlock(b, b - 1, b, "copy")
          /\ status' \subseteq status \cup {"OUT_BUFFER_OVERFLOW", "INPUT_TOO_SHORT"}
    BY <1>4 DEF ReadInnerCode, FlagIf
  <2>2. b - 1 \in 0 .. MaxCode - 1 BY Bytes
  <2>3. b - 1 \in Nat /\ b - 1 <= MaxCode - 1 /\ b - 1 < InputLeft
    BY <1>2, <2>1, <2>2 DEF MoreBlocks
  <2> QED BY <1>1, <1>2, <2>1, <2>3, BlockStep
<1>5. CASE ReadLastCode
  <2>1. PICK b \in Byte \ {0} :
          /\ ~MoreBlocks(b)
          /\ ReadBlock(b, InputLeft, b, IF b - 1 > InputLeft THEN "final" ELSE "last")
          /\ status' \subseteq status \cup {"OUT_BUFFER_OVERFLOW", "INPUT_TOO_SHORT"}
    BY <1>5 DEF ReadLastCode, FlagIf
  <2>2. b - 1 \in 0 .. MaxCode - 1 BY Bytes
  <2>3. InputLeft <= MaxCode - 1
    BY <1>2, <2>1, <2>2 DEF MoreBlocks
  <2>4. reduced BY <1>5 DEF ReadLastCode
  <2>5. CASE b - 1 > InputLeft
    <3>1. ReadBlock(b, InputLeft, b, "final") BY <2>1, <2>5
    <3> QED BY <1>1, <1>2, <2>1, <2>3, <2>4, <3>1, BlockStep
  <2>6. CASE ~(b - 1 > InputLeft)
    <3>1. ReadBlock(b, InputLeft, b, "last") BY <2>1, <2>6
    <3> QED BY <1>1, <1>2, <2>1, <2>3, <2>4, <3>1, BlockStep
  <2> QED BY <2>5, <2>6
<1> QED BY <1>3, <1>4, <1>5

\* Copying a byte.
LEMMA CopyStep == ASSUME IInv, CopyByte PROVE IInv'
<1>1. /\ pc \in {"copy", "last", "final"} /\ i > 0 /\ i' = i - 1
      /\ UNCHANGED <<reduced, null, single, input, len_code, out_len, pc>>
      /\ stray' = (stray \/ src_read_ptr >= Len(src) \/ dst_write_ptr >= Len(dst))
  BY DEF CopyByte
<1>2. PICK b \in Byte : Read(b) /\ Write(b) /\ status' = FlagIf(b = 0, "ZERO_BYTE_IN_INPUT")
  BY DEF CopyByte
<1>3. src_read_ptr' = src_read_ptr + 1 /\ dst_write_ptr' = dst_write_ptr + 1
  BY <1>2 DEF Read, Write
<1>4. /\ Len(src) \in Nat /\ Len(dst) \in Nat /\ i \in Nat /\ i \in 0 .. MaxCode - 1
      /\ MaxCode \in Nat
      /\ src_read_ptr \in Nat /\ src_read_ptr + i <= Len(src)
      /\ dst_write_ptr \in Nat /\ dst_write_ptr + i <= Len(dst)
      /\ dst_write_ptr + 1 <= src_read_ptr
  BY <1>1, Bytes DEF IInv, TypeOK, Pointers
<1>5. /\ src' \in Seq(Byte) /\ Len(src') = Len(src)
      /\ dst' \in Seq(Byte \cup {Unwritten}) /\ Len(dst') = Len(dst)
      /\ UnreadIntact'
  <2>1. /\ dst_write_ptr < Len(dst) /\ src_read_ptr' \in Nat
        /\ src_read_ptr' >= src_read_ptr /\ dst_write_ptr + 1 <= src_read_ptr'
    BY <1>1, <1>3, <1>4
  <2> QED BY <1>1, <1>2, <2>1, WriteByte
<1>6. TypeOK'
  <2>1. status' \subseteq {"NULL_POINTER", "OUT_BUFFER_OVERFLOW", "ZERO_BYTE_IN_INPUT",
                           "INPUT_TOO_SHORT"}
    BY <1>2 DEF FlagIf, IInv, TypeOK
  <2>2. /\ src_read_ptr' \in 0 .. Len(src') /\ dst_write_ptr' \in 0 .. Len(dst')
        /\ i' \in 0 .. MaxCode - 1
    BY <1>1, <1>3, <1>4, <1>5
  <2>3. stray' \in BOOLEAN BY <1>1
  <2> QED BY <1>1, <1>5, <2>1, <2>2, <2>3 DEF IInv, TypeOK
<1>7. Pointers'
  BY <1>1, <1>3, <1>4, <1>5 DEF IInv, Pointers
<1>8. InBounds'
  <2>1. ~(src_read_ptr >= Len(src)) /\ ~(dst_write_ptr >= Len(dst)) BY <1>1, <1>4
  <2> QED BY <1>1, <2>1, Zenon DEF IInv, InBounds
<1> QED BY <1>5, <1>6, <1>7, <1>8 DEF IInv

\* The zero behind a block.
LEMMA ZeroStep == ASSUME IInv, AddZero PROVE IInv'
<1>1. /\ pc = "copy" /\ i = 0 /\ pc' = "code" /\ ~InputExhausted /\ Write(0)
      /\ dst_write_ptr < Len(dst)
      /\ UNCHANGED <<reduced, null, single, input, src_read_ptr, len_code, i, status, out_len>>
      /\ stray' = (stray \/ dst_write_ptr >= Len(dst))
  BY DEF AddZero, NoRoomForZero, IInv, TypeOK
<1>2. dst_write_ptr' = dst_write_ptr + 1 BY <1>1 DEF Write
<1>3. /\ Len(src) \in Nat /\ Len(dst) \in Nat
      /\ src_read_ptr \in Nat /\ src_read_ptr < Len(src)
      /\ dst_write_ptr \in Nat /\ dst_write_ptr + 1 <= src_read_ptr
  BY <1>1 DEF IInv, TypeOK, Pointers, InputExhausted
<1>4. /\ src' \in Seq(Byte) /\ Len(src') = Len(src)
      /\ dst' \in Seq(Byte \cup {Unwritten}) /\ Len(dst') = Len(dst)
      /\ UnreadIntact'
  BY <1>1, <1>3, Bytes, WriteByte
<1>5. TypeOK'
  <2>1. /\ src_read_ptr' \in 0 .. Len(src') /\ dst_write_ptr' \in 0 .. Len(dst')
    BY <1>1, <1>2, <1>3, <1>4
  <2>2. stray' \in BOOLEAN BY <1>1
  <2> QED BY <1>1, <1>4, <2>1, <2>2 DEF IInv, TypeOK
<1>6. Pointers' BY <1>1, <1>2, <1>3, <1>4 DEF IInv, Pointers
<1>7. InBounds'
  <2>1. ~(dst_write_ptr >= Len(dst)) BY <1>1, <1>3
  <2> QED BY <1>1, <2>1, Zenon DEF IInv, InBounds
<1> QED BY <1>4, <1>5, <1>6, <1>7 DEF IInv

\* The code of the last block as the last byte.
LEMMA FinalStep == ASSUME IInv, FinalByte PROVE IInv'
<1>1. /\ pc = "final" /\ pc' = "done" /\ Write(len_code) /\ dst_write_ptr < Len(dst)
      /\ out_len' = dst_write_ptr + 1
      /\ UNCHANGED <<reduced, null, single, input, src_read_ptr, len_code, i, status, stray>>
  BY DEF FinalByte, Return
<1>2. dst_write_ptr' = dst_write_ptr + 1 BY <1>1 DEF Write
<1>3. /\ Len(src) \in Nat /\ Len(dst) \in Nat /\ Len(input) = Len(src)
      /\ src_read_ptr \in Nat /\ src_read_ptr <= Len(src)
      /\ dst_write_ptr \in Nat /\ dst_write_ptr + 1 <= src_read_ptr
      /\ len_code \in Byte /\ reduced
  BY <1>1 DEF IInv, TypeOK, Pointers
<1>4. /\ src' \in Seq(Byte) /\ Len(src') = Len(src)
      /\ dst' \in Seq(Byte \cup {Unwritten}) /\ Len(dst') = Len(dst)
      /\ UnreadIntact'
  BY <1>1, <1>3, WriteByte
<1>5. TypeOK'
  <2>1. /\ src_read_ptr' \in 0 .. Len(src') /\ dst_write_ptr' \in 0 .. Len(dst')
        /\ out_len' \in 0 .. Len(dst')
    BY <1>1, <1>2, <1>3, <1>4
  <2> QED BY <1>1, <1>4, <2>1 DEF IInv, TypeOK
<1>6. NeverGrows'
  BY <1>1, <1>2, <1>3 DEF NeverGrows, REDUCED_DECODE_DST_BUF_LEN_MAX
<1>7. Pointers' BY <1>1, <1>4, <1>6 DEF IInv, Pointers
<1>8. InBounds' BY <1>1 DEF IInv, InBounds
<1> QED BY <1>4, <1>5, <1>7, <1>8 DEF IInv

-----------------------------------------------------------------------------
\* The inductive invariant: at every step of both functions the pointers keep the
\* distance that the length code and the zero behind a block give them.
THEOREM InductiveInvariant == Spec => []IInv
<1>1. IInv /\ [Next]_vars => IInv'
  <2> SUFFICES ASSUME IInv, [Next]_vars PROVE IInv'
    OBVIOUS
  <2>1. CASE RejectNull \/ Start BY <2>1, QuietSteps
  <2>2. CASE ReadZeroCode BY <2>2, ZeroCodeStep
  <2>3. CASE ReadCode BY <2>3, CodeSteps
  <2>4. CASE CopyByte BY <2>4, CopyStep
  <2>5. CASE EndBlock
    BY <2>5, QuietSteps, ZeroStep DEF EndBlock
  <2>6. CASE ReducedBlock
    BY <2>6, QuietSteps, CodeSteps, FinalStep DEF ReducedBlock
  <2>7. CASE UNCHANGED vars
    BY <2>7 DEF vars, IInv, TypeOK, InBounds, Pointers, NeverGrows, UnreadIntact
  <2> QED BY <2>1, <2>2, <2>3, <2>4, <2>5, <2>6, <2>7 DEF Next
<1> QED BY InitInvariant, <1>1, PTL DEF Spec

\* Type correctness, for every string and every size of the destination: both pointers
\* stay inside their buffers or just behind them.
THEOREM TypeCorrect == Spec => []TypeOK
<1>1. IInv => TypeOK BY DEF IInv
<1> QED BY <1>1, InductiveInvariant, PTL

\* No read leaves the source and no write the destination, whatever the codes claim.
THEOREM StaysInBounds == Spec => []InBounds
<1>1. IInv => InBounds BY DEF IInv
<1> QED BY <1>1, InductiveInvariant, PTL

\* The output is never longer than the headers say, for every string.
THEOREM OutputNeverGrows == Spec => []NeverGrows
<1>1. IInv => NeverGrows
  <2> SUFFICES ASSUME IInv PROVE NeverGrows
    OBVIOUS
  <2>1. Len(src) \in Nat /\ Len(input) = Len(src) BY DEF IInv, TypeOK
  <2>2. CASE pc = "done" BY <2>2 DEF IInv, Pointers
  <2>3. CASE pc # "done"
    BY <2>1, <2>3 DEF IInv, TypeOK, Pointers, NeverGrows, DECODE_DST_BUF_LEN_MAX,
       REDUCED_DECODE_DST_BUF_LEN_MAX
  <2> QED BY <2>2, <2>3
<1> QED BY <1>1, InductiveInvariant, PTL

\* A single buffer for source and destination is safe: what is still to be read is what
\* the caller put there.
THEOREM UnreadStaysIntact == Spec => []UnreadIntact
<1>1. IInv => UnreadIntact BY DEF IInv
<1> QED BY <1>1, InductiveInvariant, PTL

-----------------------------------------------------------------------------
\* The recursion of BlocksFrom goes to the right and ends: it has the value that its
\* definition says.
LEMMA BlockAt ==
  ASSUME NEW string \in Seq(Byte), NEW k \in 0 .. Len(string) - 1
  PROVE  LET n == Len(string)
             c == string[k + 1]
             from == BlocksFrom(string)
         IN  from[k] =
               IF c = 0 \/ k + c >= n
               THEN [end |-> k + c, code |-> c, data |-> SubSeq(string, k + 2, n)]
               ELSE [ end  |-> from[k + c].end,
                      code |-> from[k + c].code,
                      data |-> SubSeq(string, k + 2, k + c)
                               \o (IF c = MaxCode THEN <<>> ELSE <<0>>) \o from[k + c].data ]
<1> DEFINE n == Len(string)
           Block(f, j) ==
             LET c == string[j + 1]
             IN  IF c = 0 \/ j + c >= n
                 THEN [end |-> j + c, code |-> c, data |-> SubSeq(string, j + 2, n)]
                 ELSE [ end  |-> f[j + c].end,
                        code |-> f[j + c].code,
                        data |-> SubSeq(string, j + 2, j + c)
                                 \o (IF c = MaxCode THEN <<>> ELSE <<0>>) \o f[j + c].data ]
           Solves(f, m) == f = [j \in m .. n - 1 |-> Block(f, j)]
           Missing == { m \in Nat : m <= n /\ ~ \E f : Solves(f, n - m) }
           R == OpToRel(<, Nat)
<1>1. n \in Nat /\ \A j \in 0 .. n - 1 : string[j + 1] \in Nat
  BY MaxCodeAssumption DEF Byte
<1>2. ASSUME NEW f, NEW g, NEW j \in 0 .. n - 1, \A p \in j + 1 .. n - 1 : f[p] = g[p]
      PROVE  Block(f, j) = Block(g, j)
  <2> DEFINE c == string[j + 1]
  <2>1. CASE c = 0 \/ j + c >= n
    BY <2>1
  <2>2. CASE ~(c = 0 \/ j + c >= n)
    <3>1. j + c \in j + 1 .. n - 1
      BY <1>1, <2>2
    <3>2. f[j + c] = g[j + c]
      BY <1>2, <3>1
    <3> QED BY <2>2, <3>2
  <2> QED BY <2>1, <2>2
<1> HIDE DEF Block, n, Solves
<1>3. Missing = {}
  <2> SUFFICES ASSUME Missing # {} PROVE FALSE
    OBVIOUS
  <2>1. PICK m \in Missing : \A y \in Missing : ~(<<y, m>> \in R)
    <3>1. IsWellFoundedOn(R, Nat)
      BY NatLessThanWellFounded
    <3>2. Missing \subseteq Nat
      OBVIOUS
    <3> HIDE DEF R, Missing
    <3> QED BY <3>1, <3>2, WFMin
  <2> HIDE DEF R
  <2>2. m \in Nat /\ m <= n /\ ~ \E f : Solves(f, n - m)
    BY <2>1
  <2>3. m # 0
    <3>1. n - 0 .. n - 1 = {}
      BY <1>1
    <3>2. Solves([j \in n - 0 .. n - 1 |-> 0], n - 0)
      BY <3>1 DEF Solves
    <3> QED BY <2>2, <3>2
  <2>4. m - 1 \in Nat /\ m - 1 < m /\ m - 1 <= n
    BY <1>1, <2>2, <2>3
  <2>5. m - 1 \notin Missing
    BY <2>1, <2>2, <2>4 DEF OpToRel, R
  <2>6. PICK f : Solves(f, n - (m - 1))
    BY <2>4, <2>5
  <2> DEFINE a == n - m
             g == [j \in a .. n - 1 |-> IF j = a THEN Block(f, a) ELSE f[j]]
  <2>7. a \in Nat /\ n - (m - 1) = a + 1
    BY <1>1, <2>2, <2>3
  <2>8. \A j \in a + 1 .. n - 1 : f[j] = Block(f, j)
    BY <2>6, <2>7 DEF Solves
  <2>9. ASSUME NEW j \in a .. n - 1 PROVE g[j] = Block(g, j)
    <3>1. j \in 0 .. n - 1 /\ \A p \in j + 1 .. n - 1 : p \in a .. n - 1 /\ p # a
      BY <1>1, <2>7
    <3>2. \A p \in j + 1 .. n - 1 : f[p] = g[p]
      BY <3>1
    <3> HIDE DEF g, a
    <3>3. Block(f, j) = Block(g, j)
      BY <1>2, <3>1, <3>2
    <3>4. g[j] = Block(f, j)
      BY <1>1, <2>7, <2>8 DEF g
    <3> QED BY <3>3, <3>4
  <2>10. Solves(g, a)
    BY <2>9 DEF Solves
  <2> QED BY <2>2, <2>10
<1>4. \E f : Solves(f, 0)
  <2>1. n \notin Missing
    BY <1>3
  <2>2. n - n = 0
    BY <1>1
  <2> QED BY <1>1, <2>1, <2>2
<1>5. BlocksFrom(string) = CHOOSE f : Solves(f, 0)
  BY Zenon DEF BlocksFrom, Block, Solves, n
<1>6. Solves(BlocksFrom(string), 0)
  BY <1>4, <1>5
<1>7. BlocksFrom(string)[k] = Block(BlocksFrom(string), k)
  BY <1>6 DEF Solves, n
<1> QED BY <1>7 DEF Block, n

\* A part of a byte string.
LEMMA Part ==
  ASSUME NEW t \in Seq(Byte), NEW m \in Nat, m > 0, NEW n \in Nat, n <= Len(t)
  PROVE  /\ SubSeq(t, m, n) \in Seq(Byte)
         /\ Len(SubSeq(t, m, n)) = IF m <= n THEN n - m + 1 ELSE 0
         /\ \A j \in 1 .. n - m + 1 : SubSeq(t, m, n)[j] = t[m + j - 1]
<1>1. \A j \in m .. n : j \in 1 .. Len(t)
  OBVIOUS
<1>2. \A j \in m .. n : t[j] \in Byte
  BY <1>1, ElementOfSeq
<1>3. m \in Int /\ n \in Int
  OBVIOUS
<1> QED BY <1>2, <1>3, SubSeqProperties

\* What a code is, and where its block ends.
LEMMA CodeAt ==
  ASSUME NEW string \in Seq(Byte), NEW k \in 0 .. Len(string) - 1
  PROVE  /\ Len(string) \in Nat /\ k \in Nat /\ k + 1 \in 1 .. Len(string)
         /\ string[k + 1] \in Byte /\ string[k + 1] \in 0 .. MaxCode /\ MaxCode \in Nat
<1>1. Len(string) \in Nat /\ k \in Nat /\ k + 1 \in 1 .. Len(string)
  OBVIOUS
<1>2. string[k + 1] \in Byte
  BY <1>1, ElementOfSeq
<1> QED BY <1>1, <1>2, Bytes DEF Byte

\* A string is three others in a row, byte for byte.
InARow(all, a, b, d) ==
  /\ all \in Seq(Byte)
  /\ Len(all) = Len(a) + Len(b) + Len(d)
  /\ \A j \in 1 .. Len(a) : all[j] = a[j]
  /\ \A j \in 1 .. Len(b) : all[Len(a) + j] = b[j]
  /\ \A j \in 1 .. Len(d) : all[Len(a) + Len(b) + j] = d[j]

Joined(both, a, b) ==
  /\ both \in Seq(Byte) /\ Len(both) = Len(a) + Len(b)
  /\ \A j \in 1 .. Len(a) + Len(b) :
       both[j] = IF j <= Len(a) THEN a[j] ELSE b[j - Len(a)]

\* Two strings in a row.
LEMMA TwoInARow ==
  ASSUME NEW a \in Seq(Byte), NEW b \in Seq(Byte)
  PROVE  Joined(a \o b, a, b)
  BY ConcatProperties DEF Joined

\* Three of them.
LEMMA ThreeInARow ==
  ASSUME NEW a \in Seq(Byte), NEW b \in Seq(Byte), NEW d \in Seq(Byte)
  PROVE  InARow((a \o b) \o d, a, b, d)
<1>1. Len(a) \in Nat /\ Len(b) \in Nat /\ Len(d) \in Nat
  BY LenProperties
<1>2. PICK both : both = a \o b
  OBVIOUS
<1>3. /\ both \in Seq(Byte) /\ Len(both) = Len(a) + Len(b)
      /\ \A j \in 1 .. Len(a) + Len(b) :
           both[j] = IF j <= Len(a) THEN a[j] ELSE b[j - Len(a)]
  BY <1>2, TwoInARow DEF Joined
<1>4. PICK all : all = both \o d
  OBVIOUS
<1>5. /\ all \in Seq(Byte) /\ Len(all) = Len(both) + Len(d)
      /\ \A j \in 1 .. Len(both) + Len(d) :
           all[j] = IF j <= Len(both) THEN both[j] ELSE d[j - Len(both)]
  <2>1. both \in Seq(Byte)
    BY <1>3
  <2>2. Joined(all, both, d)
    BY <1>4, <2>1, TwoInARow
  <2> QED BY <2>2 DEF Joined
<1>6. ASSUME NEW j \in 1 .. Len(a) PROVE all[j] = a[j]
  <2>1. j \in 1 .. Len(a) + Len(b) /\ j \in 1 .. Len(both) + Len(d) /\ j <= Len(both)
    BY <1>1, <1>3, <1>5
  <2> QED BY <1>3, <1>5, <2>1
<1>7. ASSUME NEW j \in 1 .. Len(b) PROVE all[Len(a) + j] = b[j]
  <2> DEFINE m == Len(a) + j
  <2>1. m \in 1 .. Len(a) + Len(b) /\ m \in 1 .. Len(both) + Len(d) /\ m <= Len(both)
        /\ ~(m <= Len(a)) /\ m - Len(a) = j
    BY <1>1, <1>3, <1>5
  <2> HIDE DEF m
  <2>2. all[m] = b[j]
    BY <1>3, <1>5, <2>1
  <2> QED BY <2>2 DEF m
<1>8. ASSUME NEW j \in 1 .. Len(d) PROVE all[Len(a) + Len(b) + j] = d[j]
  <2> DEFINE m == Len(a) + Len(b) + j
  <2>1. m \in 1 .. Len(both) + Len(d) /\ ~(m <= Len(both)) /\ m - Len(both) = j
    BY <1>1, <1>3, <1>5
  <2> HIDE DEF m
  <2>2. all[m] = d[j]
    BY <1>3, <1>5, <2>1
  <2> QED BY <2>2 DEF m
<1>9. Len(all) = Len(a) + Len(b) + Len(d)
  BY <1>1, <1>3, <1>5
<1>10. InARow(all, a, b, d)
  BY <1>5, <1>6, <1>7, <1>8, <1>9 DEF InARow
<1> QED BY <1>2, <1>4, <1>10

\* The value at a place where the last block begins.
LEMMA LastBlockAt ==
  ASSUME NEW string \in Seq(Byte), NEW k \in 0 .. Len(string) - 1, NEW c, c = string[k + 1],
         c = 0 \/ k + c >= Len(string)
  PROVE  BlocksFrom(string)[k]
           = [end |-> k + c, code |-> c, data |-> SubSeq(string, k + 2, Len(string))]
  BY BlockAt

\* The same for a block that others follow.
LEMMA InnerBlockAt ==
  ASSUME NEW string \in Seq(Byte), NEW k \in 0 .. Len(string) - 1, NEW c, c = string[k + 1],
         ~(c = 0 \/ k + c >= Len(string))
  PROVE  BlocksFrom(string)[k]
           = [ end  |-> BlocksFrom(string)[k + c].end,
               code |-> BlocksFrom(string)[k + c].code,
               data |-> (SubSeq(string, k + 2, k + c) \o (IF c = MaxCode THEN <<>> ELSE <<0>>))
                          \o BlocksFrom(string)[k + c].data ]
  BY BlockAt

\* The bytes behind a code.
BytesOf(u, string, k, n) ==
  u \in Seq(Byte) /\ Len(u) = n /\ \A j \in 1 .. n : u[j] = string[k + 1 + j]

\* A part of the string behind the code.
LEMMA BytesBehind ==
  ASSUME NEW string \in Seq(Byte), NEW k \in 0 .. Len(string) - 1,
         NEW m \in Nat, m > k, m <= Len(string)
  PROVE  BytesOf(SubSeq(string, k + 2, m), string, k, m - (k + 1))
<1> DEFINE u == SubSeq(string, k + 2, m)
<1>1. k + 2 \in Nat /\ k + 2 > 0 /\ Len(string) \in Nat /\ k \in Nat
  BY CodeAt
<1>2. /\ u \in Seq(Byte)
      /\ Len(u) = IF k + 2 <= m THEN m - (k + 2) + 1 ELSE 0
      /\ \A j \in 1 .. m - (k + 2) + 1 : u[j] = string[k + 2 + j - 1]
  BY <1>1, Part
<1> HIDE DEF u
<1>3. Len(u) = m - (k + 1)
  BY <1>1, <1>2
<1>4. ASSUME NEW j \in 1 .. m - (k + 1) PROVE u[j] = string[k + 1 + j]
  <2>1. j \in 1 .. m - (k + 2) + 1 /\ k + 2 + j - 1 = k + 1 + j
    BY <1>1
  <2> QED BY <1>2, <2>1
<1>5. BytesOf(u, string, k, m - (k + 1))
  BY <1>2, <1>3, <1>4 DEF BytesOf
<1> QED BY <1>5 DEF u

\* If the data of the blocks behind a place are bytes, so are its own.
LEMMA BlockBytesStep ==
  ASSUME NEW string \in Seq(Byte), NEW k \in 0 .. Len(string) - 1,
         \A p \in k + 1 .. Len(string) - 1 : BlocksFrom(string)[p].data \in Seq(Byte)
  PROVE  BlocksFrom(string)[k].data \in Seq(Byte)
<1>1. PICK c \in Nat : c = string[k + 1]
  BY CodeAt
<1>2. Len(string) \in Nat /\ k \in Nat
  BY CodeAt
<1>3. CASE c = 0 \/ k + c >= Len(string)
  <2>1. SubSeq(string, k + 2, Len(string)) \in Seq(Byte)
    <3>1. Len(string) > k /\ Len(string) <= Len(string)
      BY <1>2
    <3> QED BY <1>2, <3>1, BytesBehind DEF BytesOf
  <2>2. BlocksFrom(string)[k]
          = [end |-> k + c, code |-> c, data |-> SubSeq(string, k + 2, Len(string))]
    BY <1>1, <1>3, LastBlockAt
  <2>3. BlocksFrom(string)[k].data = SubSeq(string, k + 2, Len(string))
    BY <2>2
  <2> QED BY <2>1, <2>3
<1>4. CASE ~(c = 0 \/ k + c >= Len(string))
  <2> DEFINE zero  == IF c = MaxCode THEN <<>> ELSE <<0>>
             bytes == SubSeq(string, k + 2, k + c)
             rest  == BlocksFrom(string)[k + c].data
  <2>1. BlocksFrom(string)[k].data = (bytes \o zero) \o rest
    <3>1. BlocksFrom(string)[k] = [ end  |-> BlocksFrom(string)[k + c].end,
                                    code |-> BlocksFrom(string)[k + c].code,
                                    data |-> (bytes \o zero) \o rest ]
      BY <1>1, <1>4, InnerBlockAt
    <3> HIDE DEF bytes, zero, rest
    <3> QED BY <3>1
  <2>2. bytes \in Seq(Byte)
    <3>1. k + c \in Nat /\ k + c > k /\ k + c <= Len(string)
      BY <1>2, <1>4
    <3> QED BY <3>1, BytesBehind DEF BytesOf
  <2>3. zero \in Seq(Byte)
    BY Bytes
  <2>4. rest \in Seq(Byte)
    <3>1. k + c \in k + 1 .. Len(string) - 1
      BY <1>2, <1>4
    <3> QED BY <3>1
  <2> HIDE DEF zero, bytes, rest
  <2>5. (bytes \o zero) \o rest \in Seq(Byte)
    BY <2>2, <2>3, <2>4, ThreeInARow DEF InARow
  <2> QED BY <2>1, <2>5
<1> QED BY <1>3, <1>4

\* The data of blocks are bytes.
LEMMA BlockBytes ==
  ASSUME NEW string \in Seq(Byte), NEW k \in 0 .. Len(string) - 1
  PROVE  BlocksFrom(string)[k].data \in Seq(Byte)
<1> DEFINE n == Len(string)
           from == BlocksFrom(string)
           Wrong == { m \in Nat : m < n /\ from[n - 1 - m].data \notin Seq(Byte) }
           R == OpToRel(<, Nat)
<1>1. n \in Nat
  OBVIOUS
<1> HIDE DEF from
<1>3. Wrong = {}
  <2> SUFFICES ASSUME Wrong # {} PROVE FALSE
    OBVIOUS
  <2>1. PICK m \in Wrong : \A y \in Wrong : ~(<<y, m>> \in R)
    <3>1. IsWellFoundedOn(R, Nat)
      BY NatLessThanWellFounded
    <3>2. Wrong \subseteq Nat
      OBVIOUS
    <3> HIDE DEF R, Wrong
    <3> QED BY <3>1, <3>2, WFMin
  <2> HIDE DEF R
  <2>2. m \in Nat /\ m < n /\ from[n - 1 - m].data \notin Seq(Byte)
    BY <2>1
  <2>3. ASSUME NEW p \in (n - 1 - m) + 1 .. n - 1 PROVE from[p].data \in Seq(Byte)
    <3> DEFINE y == n - 1 - p
    <3>1. y \in Nat /\ y < m /\ y < n /\ n - 1 - y = p
      BY <1>1, <2>2
    <3>2. y \notin Wrong
      BY <2>1, <2>2, <3>1 DEF OpToRel, R
    <3> HIDE DEF y
    <3> QED BY <3>1, <3>2
  <2>4. n - 1 - m \in 0 .. n - 1
    BY <1>1, <2>2
  <2> QED BY <2>2, <2>3, <2>4, BlockBytesStep DEF from
<1>4. n - 1 - k \in Nat /\ n - 1 - k < n /\ n - 1 - (n - 1 - k) = k
  BY <1>1
<1>5. n - 1 - k \notin Wrong
  BY <1>3
<1> QED BY <1>4, <1>5 DEF from

\* What the blocks from a place on mean, byte for byte: a last block, however much its
\* code promises, is what is left.
Remains(rest, string, k, c, left) ==
  /\ rest.end = k + c /\ rest.code = c /\ Len(rest.data) = left
  /\ \A j \in 1 .. left : rest.data[j] = string[k + 1 + j]

\* A block that reaches the end of the string, or begins with a zero, is of this form.
LEMMA LastShape ==
  ASSUME NEW string \in Seq(Byte), NEW k \in 0 .. Len(string) - 1, NEW c, c = string[k + 1],
         c = 0 \/ k + c >= Len(string),
         NEW left, left = Len(string) - (k + 1)
  PROVE  Remains(BlocksFrom(string)[k], string, k, c, left)
<1>1. Len(string) \in Nat /\ Len(string) > k /\ Len(string) <= Len(string)
  BY CodeAt
<1> DEFINE u == SubSeq(string, k + 2, Len(string))
<1>2. BlocksFrom(string)[k] = [end |-> k + c, code |-> c, data |-> u]
  BY LastBlockAt
<1>3. /\ Len(u) = Len(string) - (k + 1)
      /\ \A j \in 1 .. Len(string) - (k + 1) : u[j] = string[k + 1 + j]
  BY <1>1, BytesBehind DEF BytesOf
<1> HIDE DEF u
<1>4. PICK rest : rest = BlocksFrom(string)[k]
  OBVIOUS
<1>5. rest.end = k + c /\ rest.code = c /\ rest.data = u
  BY <1>2, <1>4
<1>6. Remains(rest, string, k, c, left)
  BY <1>3, <1>5 DEF Remains
<1> QED BY <1>4, <1>6

\* A block that others follow, byte for byte: first its own bytes, then a zero, unless
\* there is none, and then the others.
Followers(rest, next, string, k, c, zeros) ==
  /\ rest.end = next.end /\ rest.code = next.code
  /\ Len(rest.data) = c - 1 + zeros + Len(next.data)
  /\ \A j \in 1 .. c - 1 : rest.data[j] = string[k + 1 + j]
  /\ zeros = 1 => rest.data[c] = 0
  /\ \A j \in 1 .. Len(next.data) : rest.data[c - 1 + zeros + j] = next.data[j]

\* Any other block is of this form.
LEMMA InnerShape ==
  ASSUME NEW string \in Seq(Byte), NEW k \in 0 .. Len(string) - 1,
         NEW c, c = string[k + 1], c # 0, k + c < Len(string),
         NEW zeros \in Nat, zeros = IF c = MaxCode THEN 0 ELSE 1
  PROVE  Followers(BlocksFrom(string)[k], BlocksFrom(string)[k + c], string, k, c, zeros)
<1> DEFINE bytes == SubSeq(string, k + 2, k + c)
           zero  == IF c = MaxCode THEN <<>> ELSE <<0>>
           rest  == BlocksFrom(string)[k + c].data
           data  == (bytes \o zero) \o rest
<1>1. Len(string) \in Nat /\ k \in Nat /\ c \in Nat /\ c > 0 /\ MaxCode \in Nat
  BY CodeAt
<1>2. BlocksFrom(string)[k] = [ end  |-> BlocksFrom(string)[k + c].end,
                                code |-> BlocksFrom(string)[k + c].code,
                                data |-> data ]
  <2>1. ~(c = 0 \/ k + c >= Len(string))
    BY <1>1
  <2> QED BY <2>1, InnerBlockAt
<1>3. /\ bytes \in Seq(Byte) /\ Len(bytes) = c - 1
      /\ \A j \in 1 .. c - 1 : bytes[j] = string[k + 1 + j]
  <2> DEFINE m == k + c
  <2>1. m \in Nat /\ m > k /\ m <= Len(string) /\ m - (k + 1) = c - 1
    BY <1>1
  <2> HIDE DEF m
  <2>2. BytesOf(SubSeq(string, k + 2, m), string, k, m - (k + 1))
    BY <2>1, BytesBehind
  <2>3. BytesOf(bytes, string, k, c - 1)
    BY <2>1, <2>2 DEF m
  <2> QED BY <2>3 DEF BytesOf
<1>4. zero \in Seq(Byte) /\ Len(zero) = zeros /\ (zeros = 1 => zero[1] = 0)
  <2>1. zero \in Seq(Byte)
    BY Bytes
  <2>2. CASE c = MaxCode
    BY <2>1, <2>2
  <2>3. CASE c # MaxCode
    BY <2>1, <2>3
  <2> QED BY <2>2, <2>3
<1>5. rest \in Seq(Byte)
  <2>1. k + c \in 0 .. Len(string) - 1
    BY <1>1
  <2> QED BY <2>1, BlockBytes
<1>6. /\ Len(data) = Len(bytes) + Len(zero) + Len(rest)
      /\ \A j \in 1 .. Len(bytes) : data[j] = bytes[j]
      /\ \A j \in 1 .. Len(zero) : data[Len(bytes) + j] = zero[j]
      /\ \A j \in 1 .. Len(rest) : data[Len(bytes) + Len(zero) + j] = rest[j]
  <2> HIDE DEF bytes, zero, rest
  <2>1. InARow(data, bytes, zero, rest)
    BY <1>3, <1>4, <1>5, ThreeInARow
  <2> HIDE DEF data
  <2> QED BY <2>1 DEF InARow
<1> HIDE DEF bytes, zero, rest
<1> HIDE DEF data
<1>7. zeros = 1 => data[c] = 0
  <2> SUFFICES ASSUME zeros = 1 PROVE data[c] = 0
    OBVIOUS
  <2>1. 1 \in 1 .. Len(zero) /\ Len(bytes) + 1 = c
    BY <1>1, <1>3, <1>4
  <2> QED BY <1>4, <1>6, <2>1
<1>8. /\ Len(data) = c - 1 + zeros + Len(rest)
      /\ \A j \in 1 .. c - 1 : data[j] = string[k + 1 + j]
      /\ \A j \in 1 .. Len(rest) : data[c - 1 + zeros + j] = rest[j]
  BY <1>3, <1>4, <1>6
<1>9. PICK here : here = BlocksFrom(string)[k]
  OBVIOUS
<1>10. PICK next : next = BlocksFrom(string)[k + c]
  OBVIOUS
<1>11. here.end = next.end /\ here.code = next.code /\ here.data = data /\ next.data = rest
  BY <1>2, <1>9, <1>10 DEF rest
<1>12. Followers(here, next, string, k, c, zeros)
  BY <1>7, <1>8, <1>11 DEF Followers
<1> QED BY <1>9, <1>10, <1>12

-----------------------------------------------------------------------------
\* What some blocks mean is the end of what all mean, and stands there behind the first
\* w bytes.
StandsIn(whole, rest, w) ==
  /\ rest.end = whole.end /\ rest.code = whole.code
  /\ Len(whole.data) = w + Len(rest.data)
  /\ \A n \in 1 .. Len(rest.data) : whole.data[w + n] = rest.data[n]

\* Those from a place of the string on.
StandsAt(string, k, w) == StandsIn(Blocks(string), BlocksFrom(string)[k], w)

\* The next n bytes of what all mean are those behind a place of the string.
AheadIn(data, string, k, w, n) ==
  /\ w + n <= Len(data)
  /\ \A j \in 1 .. n : data[w + j] = string[k + j]

Ahead(string, k, w, n) == AheadIn(Blocks(string).data, string, k, w, n)

\* Those are the last ones.
ToTheEnd(string, k, w, n) ==
  k + n = Len(string) /\ Len(Blocks(string).data) = w + n

\* Behind them the next block stands, after a zero unless this one is full.
Followed(string, k, w, n, full) ==
  IF full THEN StandsAt(string, k + n, w + n)
  ELSE StandsAt(string, k + n, w + n + 1) /\ Blocks(string).data[w + n + 1] = 0

\* What any blocks mean is a byte string.
LEMMA MeaningBytes ==
  ASSUME NEW string \in Seq(Byte)
  PROVE  Blocks(string).data \in Seq(Byte) /\ Len(Blocks(string).data) \in Nat
<1>1. CASE string = <<>>
  <2>1. Blocks(string).data = <<>>
    BY <1>1 DEF Blocks
  <2> QED BY <2>1
<1>2. CASE string # <<>>
  <2>1. 0 \in 0 .. Len(string) - 1
    BY <1>2, EmptySeq
  <2>2. Blocks(string) = BlocksFrom(string)[0]
    BY <1>2 DEF Blocks
  <2>3. BlocksFrom(string)[0].data \in Seq(Byte)
    BY <2>1, BlockBytes
  <2> QED BY <2>2, <2>3, LenProperties
<1> QED BY <1>1, <1>2

\* All blocks stand at the beginning.
LEMMA StandsAtStart ==
  ASSUME NEW string \in Seq(Byte), string # <<>>
  PROVE  StandsAt(string, 0, 0)
<1>1. Blocks(string) = BlocksFrom(string)[0]
  BY DEF Blocks
<1>2. Len(Blocks(string).data) \in Nat
  BY MeaningBytes
<1> QED BY <1>1, <1>2 DEF StandsAt, StandsIn

\* A block that ends the string stands there byte for byte.
LEMMA LastStands ==
  ASSUME NEW whole, NEW rest, NEW string, NEW k \in Nat, NEW w \in Nat, NEW left \in Nat,
         NEW c, StandsIn(whole, rest, w), Remains(rest, string, k, c, left)
  PROVE  /\ Len(whole.data) = w + left
         /\ whole.end = k + c /\ whole.code = c
         /\ AheadIn(whole.data, string, k + 1, w, left)
<1>1. /\ rest.end = k + c /\ rest.code = c /\ Len(rest.data) = left
      /\ \A j \in 1 .. left : rest.data[j] = string[k + 1 + j]
  BY DEF Remains
<1>2. /\ Len(whole.data) = w + left
      /\ whole.end = k + c /\ whole.code = c
      /\ \A j \in 1 .. left : whole.data[w + j] = rest.data[j]
  BY <1>1 DEF StandsIn
<1>3. w + left <= Len(whole.data)
  BY <1>2
<1>4. ASSUME NEW j \in 1 .. left PROVE whole.data[w + j] = string[k + 1 + j]
  BY <1>1, <1>2
<1>5. AheadIn(whole.data, string, k + 1, w, left)
  BY <1>3, <1>4 DEF AheadIn
<1> QED BY <1>2, <1>5

\* A code is read that reaches the end of the string.
LEMMA OpensLast ==
  ASSUME NEW string \in Seq(Byte), NEW k \in 0 .. Len(string) - 1, NEW w \in Nat,
         StandsAt(string, k, w),
         NEW c, c = string[k + 1], k + c >= Len(string),
         NEW left, left = Len(string) - (k + 1)
  PROVE  /\ Blocks(string).end = k + c /\ Blocks(string).code = c
         /\ left \in Nat
         /\ Ahead(string, k + 1, w, left) /\ ToTheEnd(string, k + 1, w, left)
<1>1. Len(string) \in Nat /\ k \in Nat /\ left \in Nat /\ k + 1 + left = Len(string)
  BY CodeAt
<1>2. PICK rest : rest = BlocksFrom(string)[k]
  OBVIOUS
<1>3. Remains(rest, string, k, c, left)
  BY <1>2, LastShape
<1>4. StandsIn(Blocks(string), rest, w)
  BY <1>2 DEF StandsAt
<1>5. /\ Len(Blocks(string).data) = w + left
      /\ Blocks(string).end = k + c /\ Blocks(string).code = c
      /\ AheadIn(Blocks(string).data, string, k + 1, w, left)
  BY <1>1, <1>3, <1>4, LastStands
<1>6. ToTheEnd(string, k + 1, w, left)
  BY <1>1, <1>5 DEF ToTheEnd
<1> QED BY <1>1, <1>5, <1>6 DEF Ahead

\* The same for a block that others follow.
InnerStands(whole, next, string, k, w, c, zeros) ==
  /\ AheadIn(whole.data, string, k + 1, w, c - 1)
  /\ zeros = 1 => whole.data[w + (c - 1) + 1] = 0
  /\ StandsIn(whole, next, w + (c - 1) + zeros)

\* They do where the block stood together with what follows it.
LEMMA FollowersStand ==
  ASSUME NEW whole, NEW rest, NEW next, NEW string, NEW k \in Nat, NEW w \in Nat,
         NEW c \in Nat, c > 0, NEW zeros \in Nat, Len(next.data) \in Nat,
         StandsIn(whole, rest, w), Followers(rest, next, string, k, c, zeros)
  PROVE  InnerStands(whole, next, string, k, w, c, zeros)
<1>1. PICK all : all = whole.data
  OBVIOUS
<1>2. PICK theirs : theirs = next.data
  OBVIOUS
<1>3. PICK ours : ours = rest.data
  OBVIOUS
<1>4. PICK more \in Nat : more = Len(theirs)
  BY <1>2
<1>5. PICK size \in Nat : size = c - 1 + zeros + more
  OBVIOUS
<1>6. /\ Len(ours) = size
      /\ \A j \in 1 .. c - 1 : ours[j] = string[k + 1 + j]
      /\ zeros = 1 => ours[c] = 0
      /\ \A j \in 1 .. more : ours[c - 1 + zeros + j] = theirs[j]
  BY <1>2, <1>3, <1>4, <1>5 DEF Followers
<1>7. Len(all) = w + size /\ \A n \in 1 .. size : all[w + n] = ours[n]
  BY <1>1, <1>3, <1>6 DEF StandsIn
<1>8. w + (c - 1) <= Len(all)
  BY <1>5, <1>7
<1>9. ASSUME NEW j \in 1 .. c - 1 PROVE all[w + j] = string[k + 1 + j]
  <2>1. j \in 1 .. size
    BY <1>5
  <2> QED BY <1>6, <1>7, <2>1
<1>10. ASSUME zeros = 1 PROVE all[w + (c - 1) + 1] = 0
  <2>1. c \in 1 .. size /\ w + (c - 1) + 1 = w + c
    BY <1>5, <1>10
  <2> QED BY <1>6, <1>7, <1>10, <2>1
<1>11. Len(all) = w + (c - 1) + zeros + more
  BY <1>5, <1>7
<1>12. ASSUME NEW j \in 1 .. more PROVE all[w + (c - 1) + zeros + j] = theirs[j]
  <2>1. PICK m \in 1 .. size : m = c - 1 + zeros + j
    BY <1>5
  <2>2. w + (c - 1) + zeros + j = w + m
    BY <2>1
  <2>3. ours[m] = theirs[j]
    BY <1>6, <2>1
  <2> QED BY <1>7, <2>2, <2>3
<1>13. /\ rest.end = whole.end /\ rest.code = whole.code
       /\ rest.end = next.end /\ rest.code = next.code
  BY DEF StandsIn, Followers
<1>14. StandsIn(whole, next, w + (c - 1) + zeros)
  BY <1>1, <1>2, <1>4, <1>11, <1>12, <1>13 DEF StandsIn
<1>15. AheadIn(all, string, k + 1, w, c - 1)
  BY <1>8, <1>9 DEF AheadIn
<1> QED BY <1>1, <1>10, <1>14, <1>15 DEF InnerStands

\* A code is read whose block others follow.
LEMMA OpensInner ==
  ASSUME NEW string \in Seq(Byte), NEW k \in 0 .. Len(string) - 1, NEW w \in Nat,
         StandsAt(string, k, w),
         NEW c, c = string[k + 1], c # 0, k + c < Len(string)
  PROVE  /\ Ahead(string, k + 1, w, c - 1)
         /\ Followed(string, k + 1, w, c - 1, c = MaxCode)
<1>1. Len(string) \in Nat /\ k \in Nat /\ c \in Nat /\ c > 0 /\ MaxCode \in Nat
  BY CodeAt
<1>2. PICK zeros \in Nat : zeros = IF c = MaxCode THEN 0 ELSE 1
  OBVIOUS
<1>3. PICK rest : rest = BlocksFrom(string)[k]
  OBVIOUS
<1>4. PICK next : next = BlocksFrom(string)[k + c]
  OBVIOUS
<1>5. PICK whole : whole = Blocks(string)
  OBVIOUS
<1>6. Followers(rest, next, string, k, c, zeros)
  BY <1>2, <1>3, <1>4, InnerShape
<1>7. StandsIn(whole, rest, w)
  BY <1>3, <1>5 DEF StandsAt
<1>8. Len(next.data) \in Nat
  <2>1. k + c \in 0 .. Len(string) - 1
    BY <1>1
  <2> QED BY <1>4, <2>1, BlockBytes, LenProperties
<1>9. InnerStands(whole, next, string, k, w, c, zeros)
  BY <1>1, <1>6, <1>7, <1>8, FollowersStand
<1>10. Ahead(string, k + 1, w, c - 1)
  BY <1>5, <1>9 DEF Ahead, InnerStands
<1>11. k + 1 + (c - 1) = k + c
  BY <1>1
<1>12. StandsAt(string, k + 1 + (c - 1), w + (c - 1) + zeros)
  BY <1>4, <1>5, <1>9, <1>11 DEF StandsAt, InnerStands
<1>13. CASE c = MaxCode
  <2>1. w + (c - 1) + zeros = w + (c - 1)
    BY <1>1, <1>2, <1>13
  <2> QED BY <1>10, <1>12, <1>13, <2>1 DEF Followed
<1>14. CASE c # MaxCode
  BY <1>2, <1>5, <1>9, <1>10, <1>12, <1>14 DEF Followed, InnerStands
<1> QED BY <1>13, <1>14

-----------------------------------------------------------------------------
\* What a call is to return for a string.
Data(red, string) == IF red THEN ReducedMeaning(string) ELSE Meaning(string)

Well(red, string) == IF red THEN ReducedWellFormed(string) ELSE WellFormed(string)

Decoded(red, string, size, st, out) ==
  /\ (st = {}) <=> (Well(red, string) /\ Len(Data(red, string)) <= size)
  /\ st = {} => out = Data(red, string)
  /\ Well(red, string) /\ Len(Data(red, string)) > size =>
       st = {"OUT_BUFFER_OVERFLOW"} /\ out = SubSeq(Data(red, string), 1, size)

\* The errors found in the first r bytes of a string, but for the overflow.
Justified(red, string, r, st) ==
  /\ st \subseteq {"OUT_BUFFER_OVERFLOW", "ZERO_BYTE_IN_INPUT", "INPUT_TOO_SHORT"}
  /\ "ZERO_BYTE_IN_INPUT" \in st <=> \E n \in 1 .. r : string[n] = 0
  /\ "INPUT_TOO_SHORT" \in st => ~red /\ Blocks(string).end > Len(string)

\* A string with such an error is not well-formed.
LEMMA NotWell ==
  ASSUME NEW red \in BOOLEAN, NEW string \in Seq(Byte), NEW r \in 0 .. Len(string), NEW st,
         Justified(red, string, r, st),
         "ZERO_BYTE_IN_INPUT" \in st \/ "INPUT_TOO_SHORT" \in st
  PROVE  ~Well(red, string)
<1>1. CASE "ZERO_BYTE_IN_INPUT" \in st
  <2>1. PICK n \in 1 .. r : string[n] = 0
    BY <1>1 DEF Justified
  <2>2. n \in 1 .. Len(string)
    OBVIOUS
  <2> QED BY <2>1, <2>2 DEF Well, WellFormed, ReducedWellFormed
<1>2. CASE "INPUT_TOO_SHORT" \in st
  <2>1. ~red /\ Blocks(string).end # Len(string)
    BY <1>2 DEF Justified
  <2> QED BY <2>1 DEF Well, WellFormed
<1> QED BY <1>1, <1>2

\* Such a string is rightly refused.
LEMMA Refused ==
  ASSUME NEW red \in BOOLEAN, NEW string \in Seq(Byte), NEW r \in 0 .. Len(string), NEW st,
         Justified(red, string, r, st), NEW size, NEW out,
         "ZERO_BYTE_IN_INPUT" \in st \/ "INPUT_TOO_SHORT" \in st
  PROVE  Decoded(red, string, size, st, out)
<1>1. ~Well(red, string)
  BY NotWell
<1>2. st # {}
  OBVIOUS
<1> QED BY <1>1, <1>2 DEF Decoded

\* Two strings that begin with the same n bytes.
LEMMA SameBeginning ==
  ASSUME NEW S, NEW T, NEW s \in Seq(S), NEW t \in Seq(T), NEW n \in Nat,
         n <= Len(s), n <= Len(t), \A j \in 1 .. n : s[j] = t[j]
  PROVE  SubSeq(s, 1, n) = SubSeq(t, 1, n)
  OBVIOUS

\* All of a string.
LEMMA AllOf ==
  ASSUME NEW S, NEW s \in Seq(S)
  PROVE  SubSeq(s, 1, Len(s)) = s
  OBVIOUS

\* The reduced form adds at most a byte behind what the blocks mean.
LEMMA BeginsData ==
  ASSUME NEW red \in BOOLEAN, NEW string \in Seq(Byte)
  PROVE  /\ Len(Data(red, string)) \in Nat
         /\ Len(Data(red, string)) >= Len(Blocks(string).data)
         /\ \A n \in 0 .. Len(Blocks(string).data) :
              SubSeq(Data(red, string), 1, n) = SubSeq(Blocks(string).data, 1, n)
<1>1. PICK data \in Seq(Byte) : data = Blocks(string).data
  BY MeaningBytes
<1>2. Len(data) \in Nat
  BY LenProperties
<1>3. CASE Data(red, string) = data
  BY <1>1, <1>2, <1>3
<1>4. CASE Data(red, string) # data
  <2>1. PICK code : code = Blocks(string).code
    OBVIOUS
  <2>2. Data(red, string) = Append(data, code)
    BY <1>1, <1>4, <2>1 DEF Data, Meaning, ReducedMeaning
  <2>3. PICK more : more = Append(data, code)
    OBVIOUS
  <2>4. data \in Seq(Byte \cup {code})
    OBVIOUS
  <2>5. more \in Seq(Byte \cup {code}) /\ Len(more) = Len(data) + 1
        /\ \A j \in 1 .. Len(data) : more[j] = data[j]
    BY <2>3, <2>4, AppendProperties
  <2>6. ASSUME NEW n \in 0 .. Len(data) PROVE SubSeq(more, 1, n) = SubSeq(data, 1, n)
    <3>1. n \in Nat /\ n <= Len(more) /\ n <= Len(data) /\ \A j \in 1 .. n : more[j] = data[j]
      BY <1>2, <2>5
    <3> QED BY <2>4, <2>5, <3>1, SameBeginning
  <2> QED BY <1>1, <1>2, <2>2, <2>3, <2>5, <2>6
<1> QED BY <1>3, <1>4

\* The output is full, and there is more.
LEMMA CutShort ==
  ASSUME NEW red \in BOOLEAN, NEW string \in Seq(Byte), NEW r \in 0 .. Len(string), NEW st,
         Justified(red, string, r, st), NEW size, NEW out,
         "OUT_BUFFER_OVERFLOW" \in st, Len(Data(red, string)) > size,
         out = SubSeq(Data(red, string), 1, size), Len(Data(red, string)) \in Nat, size \in Nat
  PROVE  Decoded(red, string, size, st, out)
<1>1. CASE "ZERO_BYTE_IN_INPUT" \in st \/ "INPUT_TOO_SHORT" \in st
  BY <1>1, Refused
<1>2. CASE ~("ZERO_BYTE_IN_INPUT" \in st \/ "INPUT_TOO_SHORT" \in st)
  <2>1. st = {"OUT_BUFFER_OVERFLOW"}
    BY <1>2 DEF Justified
  <2>2. st # {} /\ ~(Len(Data(red, string)) <= size)
    BY <2>1
  <2> QED BY <2>1, <2>2 DEF Decoded
<1> QED BY <1>1, <1>2

\* The whole string is read and its data written.
LEMMA Complete ==
  ASSUME NEW red \in BOOLEAN, NEW string \in Seq(Byte), NEW st,
         Justified(red, string, Len(string), st), NEW size \in Nat, NEW out,
         "OUT_BUFFER_OVERFLOW" \notin st, Len(Data(red, string)) <= size,
         Len(Data(red, string)) \in Nat,
         "INPUT_TOO_SHORT" \in st \/ red \/ Blocks(string).end = Len(string),
         out = Data(red, string)
  PROVE  Decoded(red, string, size, st, out)
<1>1. Len(string) \in 0 .. Len(string)
  BY LenProperties
<1>2. CASE "ZERO_BYTE_IN_INPUT" \in st \/ "INPUT_TOO_SHORT" \in st
  BY <1>1, <1>2, Refused
<1>3. CASE ~("ZERO_BYTE_IN_INPUT" \in st \/ "INPUT_TOO_SHORT" \in st)
  <2>1. st = {}
    BY <1>3 DEF Justified
  <2>2. \A n \in 1 .. Len(string) : string[n] # 0
    BY <1>3 DEF Justified
  <2>3. Well(red, string)
    BY <1>3, <2>2 DEF Well, WellFormed, ReducedWellFormed
  <2>4. ~(Len(Data(red, string)) > size)
    OBVIOUS
  <2> QED BY <2>1, <2>3, <2>4 DEF Decoded
<1> QED BY <1>2, <1>3

-----------------------------------------------------------------------------
\* What a call has decoded, while it runs and when it returns.
Whole == Blocks(input)

Copied ==
  /\ dst_write_ptr <= Len(Whole.data)
  /\ \A n \in 1 .. dst_write_ptr : dst[n] = Whole.data[n]

\* The destination will be full before the data ends.  cobsr_decode() may then go on
\* and take any byte for a code, but nothing is written any more.
CutOff ==
  /\ Len(Whole.data) > Len(dst)
  /\ dst_write_ptr + i = Len(dst)
  /\ pc = "code" => reduced
  /\ pc = "copy" /\ ~reduced => len_code < MaxCode - 1

LastOne == ToTheEnd(input, src_read_ptr, dst_write_ptr, i)

\* Else every code is that of a block, and what is written is what came before it.
Stands ==
  /\ pc = "code" => StandsAt(input, src_read_ptr, dst_write_ptr)
  /\ pc = "copy" =>
       IF src_read_ptr + i < Len(input)
       THEN Followed(input, src_read_ptr, dst_write_ptr, i, NoZeroFollows)
       ELSE LastOne /\ ("INPUT_TOO_SHORT" \notin status => Whole.end = Len(input))
  /\ pc = "last" => LastOne /\ Whole.end = Len(input)
  /\ pc = "final" => LastOne /\ Whole.end > Len(input) /\ Whole.code = len_code

Decoding ==
  /\ ~null /\ input # <<>>
  /\ Justified(reduced, input, src_read_ptr, status)
  /\ Copied
  /\ pc = "code" => i = 0
  /\ Ahead(input, src_read_ptr, dst_write_ptr, i)
  /\ IF Overflown THEN CutOff ELSE Stands

Untouched == src_read_ptr = 0 /\ dst_write_ptr = 0 /\ i = 0 /\ out_len = 0 /\ status = {}

Means ==
  IF pc = "done" THEN DecodesExactly /\ ErrorsAreTrue
  ELSE IF pc = "call" THEN Untouched ELSE Decoding

\* The state as the lemmas below need it.
LEMMA State ==
  ASSUME IInv
  PROVE  /\ reduced \in BOOLEAN
         /\ input \in Seq(Byte) /\ src \in Seq(Byte) /\ Len(src) = Len(input)
         /\ dst \in Seq(Byte \cup {Unwritten})
         /\ Len(input) \in Nat /\ Len(dst) \in Nat /\ MaxCode \in Nat /\ MaxCode > 1
         /\ src_read_ptr \in Nat /\ src_read_ptr <= Len(input)
         /\ dst_write_ptr \in Nat /\ dst_write_ptr <= Len(dst)
         /\ i \in Nat
         /\ Whole.data \in Seq(Byte) /\ Len(Whole.data) \in Nat
<1>1. input \in Seq(Byte)
  BY DEF IInv, TypeOK
<1>2. Whole.data \in Seq(Byte) /\ Len(Whole.data) \in Nat
  BY <1>1, MeaningBytes DEF Whole
<1>3. Len(src) \in Nat /\ Len(dst) \in Nat
  BY LenProperties DEF IInv, TypeOK
<1> QED BY <1>1, <1>2, <1>3, Bytes DEF IInv, TypeOK

\* The byte about to be read is one of the string that the call was given.
LEMMA ReadsInput ==
  ASSUME IInv, NEW b, Read(b), src_read_ptr < Len(src)
  PROVE  /\ src_read_ptr \in 0 .. Len(input) - 1
         /\ b \in Byte /\ b = input[src_read_ptr + 1] /\ src_read_ptr' = src_read_ptr + 1
<1>1. b \in Byte /\ b = src[src_read_ptr + 1]
  BY ReadByte DEF IInv
<1>2. src_read_ptr \in 0 .. Len(input) - 1 /\ src_read_ptr + 1 \in src_read_ptr + 1 .. Len(src)
  BY State
<1>3. src[src_read_ptr + 1] = input[src_read_ptr + 1]
  BY <1>2 DEF IInv, UnreadIntact
<1> QED BY <1>1, <1>2, <1>3 DEF Read

\* Errors stay justified when a byte is read, and a zero is one.
LEMMA JustifiedRead ==
  ASSUME NEW red, NEW string, NEW r \in Nat, NEW st, Justified(red, string, r, st),
         NEW flags \in SUBSET {"OUT_BUFFER_OVERFLOW", "ZERO_BYTE_IN_INPUT", "INPUT_TOO_SHORT"},
         "ZERO_BYTE_IN_INPUT" \in flags <=> string[r + 1] = 0,
         "INPUT_TOO_SHORT" \in flags => ~red /\ Blocks(string).end > Len(string)
  PROVE  Justified(red, string, r + 1, st \cup flags)
<1>1. (\E n \in 1 .. r + 1 : string[n] = 0)
        <=> (\E n \in 1 .. r : string[n] = 0) \/ string[r + 1] = 0
  BY 1 .. r + 1 = 1 .. r \cup {r + 1}
<1> QED BY <1>1 DEF Justified

\* An overflow is no such error.
LEMMA JustifiedOverflow ==
  ASSUME NEW red, NEW string, NEW r, NEW st, Justified(red, string, r, st)
  PROVE  Justified(red, string, r, st \cup {"OUT_BUFFER_OVERFLOW"})
  BY DEF Justified

\* Fewer bytes of a block.
LEMMA AheadLess ==
  ASSUME NEW string \in Seq(Byte), NEW k \in Nat, NEW w \in Nat, NEW n \in Nat, NEW m \in Nat,
         m <= n, Ahead(string, k, w, n)
  PROVE  Ahead(string, k, w, m)
<1>1. Len(Blocks(string).data) \in Nat
  BY MeaningBytes
<1>2. w + m <= Len(Blocks(string).data)
  BY <1>1 DEF Ahead, AheadIn
<1>3. ASSUME NEW j \in 1 .. m PROVE Blocks(string).data[w + j] = string[k + j]
  <2>1. j \in 1 .. n
    OBVIOUS
  <2> QED BY <2>1 DEF Ahead, AheadIn
<1> QED BY <1>2, <1>3 DEF Ahead, AheadIn

\* None of them.
LEMMA AheadNone ==
  ASSUME NEW string, NEW k, NEW w \in Nat, w <= Len(Blocks(string).data)
  PROVE  Ahead(string, k, w, 0)
  BY DEF Ahead, AheadIn

\* One byte of it.
LEMMA AheadOne ==
  ASSUME NEW string \in Seq(Byte), NEW k \in Nat, NEW w \in Nat, NEW n \in Nat, n > 0,
         Ahead(string, k, w, n)
  PROVE  /\ Blocks(string).data[w + 1] = string[k + 1]
         /\ w + 1 <= Len(Blocks(string).data)
         /\ Ahead(string, k + 1, w + 1, n - 1)
<1>1. Len(Blocks(string).data) \in Nat
  BY MeaningBytes
<1>2. PICK all : all = Blocks(string).data
  OBVIOUS
<1>3. w + n <= Len(all) /\ \A j \in 1 .. n : all[w + j] = string[k + j]
  BY <1>2 DEF Ahead, AheadIn
<1>4. all[w + 1] = string[k + 1] /\ w + 1 <= Len(all) /\ (w + 1) + (n - 1) <= Len(all)
  BY <1>1, <1>2, <1>3
<1>5. ASSUME NEW j \in 1 .. n - 1 PROVE all[(w + 1) + j] = string[(k + 1) + j]
  <2>1. PICK m \in 1 .. n : m = j + 1
    OBVIOUS
  <2>2. (w + 1) + j = w + m /\ (k + 1) + j = k + m
    BY <2>1
  <2> QED BY <1>3, <2>2
<1> QED BY <1>2, <1>4, <1>5 DEF Ahead, AheadIn

\* A call returns what it is to return, and its errors are true.
LEMMA Concludes ==
  ASSUME NEW r \in Nat, r <= Len(input'), Len(input') \in Nat,
         Justified(reduced', input', r, status'),
         Decoded(reduced', input', Len(dst'), status', Output')
  PROVE  DecodesExactly' /\ ErrorsAreTrue'
<1>1. DecodesExactly'
  BY DEF DecodesExactly, Decoded, Data, Well
<1>2. ErrorsAreTrue'
  <2>1. "ZERO_BYTE_IN_INPUT" \in status' => \E n \in 1 .. Len(input') : input'[n] = 0
    BY DEF Justified
  <2>2. "INPUT_TOO_SHORT" \in status' => ~WellFormed(input')
    <3> SUFFICES ASSUME "INPUT_TOO_SHORT" \in status' PROVE ~WellFormed(input')
      OBVIOUS
    <3>1. Blocks(input').end > Len(input')
      BY DEF Justified
    <3>2. Blocks(input').end # Len(input')
      BY <3>1
    <3> QED BY <3>2 DEF WellFormed
  <2> QED BY <2>1, <2>2 DEF ErrorsAreTrue
<1> QED BY <1>1, <1>2

-----------------------------------------------------------------------------
\* Where a code is read, the block it opens either is one of the string, or there is no
\* room for it.
LEMMA AtCode ==
  ASSUME IInv, Means, pc = "code", NEW b, Read(b)
  PROVE  /\ src_read_ptr \in 0 .. Len(input) - 1
         /\ b \in Byte /\ b = input[src_read_ptr + 1] /\ src_read_ptr' = src_read_ptr + 1
         /\ InputLeft = Len(input) - (src_read_ptr + 1) /\ InputLeft \in Nat
         /\ OutputLeft = Len(dst) - dst_write_ptr /\ OutputLeft \in Nat
         /\ ~null /\ input # <<>>
         /\ Justified(reduced, input, src_read_ptr, status)
         /\ Copied
         /\ IF Overflown THEN Len(Whole.data) > Len(dst) /\ OutputLeft = 0 /\ reduced
            ELSE StandsAt(input, src_read_ptr, dst_write_ptr)
<1>1. Decoding /\ i = 0
  BY DEF Means, Decoding
<1>2. src_read_ptr < Len(src)
  BY DEF IInv, Pointers
<1>3. /\ src_read_ptr \in 0 .. Len(input) - 1
      /\ b \in Byte /\ b = input[src_read_ptr + 1] /\ src_read_ptr' = src_read_ptr + 1
  BY <1>2, ReadsInput
<1>4. /\ InputLeft = Len(input) - (src_read_ptr + 1) /\ InputLeft \in Nat
      /\ OutputLeft = Len(dst) - dst_write_ptr /\ OutputLeft \in Nat
  BY <1>2, State DEF InputLeft, OutputLeft
<1>5. CASE Overflown
  <2>1. Len(Whole.data) > Len(dst) /\ dst_write_ptr + i = Len(dst) /\ reduced
    BY <1>1, <1>5 DEF Decoding, CutOff
  <2>2. OutputLeft = 0
    BY <1>1, <1>4, <2>1, State
  <2> QED BY <1>1, <1>3, <1>4, <1>5, <2>1, <2>2 DEF Decoding
<1>6. CASE ~Overflown
  <2>1. StandsAt(input, src_read_ptr, dst_write_ptr)
    BY <1>1, <1>6 DEF Decoding, Stands
  <2> QED BY <1>1, <1>3, <1>4, <1>6, <2>1 DEF Decoding
<1> QED BY <1>5, <1>6

\* What a block needs once its code is read.
LEMMA CodeMeans ==
  ASSUME IInv, Means, pc = "code", NEW b \in Byte \ {0}, NEW bytes, NEW code, NEW at,
         ReadBlock(b, bytes, code, at), at \in {"copy", "last", "final"},
         NEW flags \in SUBSET {"OUT_BUFFER_OVERFLOW", "INPUT_TOO_SHORT"},
         status' = status \cup flags,
         "INPUT_TOO_SHORT" \in flags => ~reduced /\ Whole.end > Len(input),
         Ahead(input, src_read_ptr + 1, dst_write_ptr, i'),
         IF Overflown' THEN CutOff' ELSE Stands'
  PROVE  Means'
<1>1. Read(b) /\ input' = input /\ reduced' = reduced /\ null' = null /\ dst' = dst
      /\ dst_write_ptr' = dst_write_ptr /\ pc' = at
  BY DEF ReadBlock
<1>2. /\ b = input[src_read_ptr + 1] /\ src_read_ptr' = src_read_ptr + 1
      /\ ~null /\ input # <<>> /\ Copied
      /\ Justified(reduced, input, src_read_ptr, status)
  BY <1>1, AtCode
<1>3. Justified(reduced, input, src_read_ptr + 1, status \cup flags)
  <2>1. "ZERO_BYTE_IN_INPUT" \notin flags /\ b # 0
    OBVIOUS
  <2>2. "INPUT_TOO_SHORT" \in flags => ~reduced /\ Blocks(input).end > Len(input)
    BY DEF Whole
  <2>3. flags \in SUBSET {"OUT_BUFFER_OVERFLOW", "ZERO_BYTE_IN_INPUT", "INPUT_TOO_SHORT"}
    OBVIOUS
  <2>4. src_read_ptr \in Nat
    BY State
  <2> QED BY <1>2, <2>1, <2>2, <2>3, <2>4, JustifiedRead
<1>4. Justified(reduced', input', src_read_ptr', status')
  BY <1>1, <1>2, <1>3
<1>5. Copied'
  BY <1>1, <1>2 DEF Copied, Whole
<1>6. Ahead(input', src_read_ptr', dst_write_ptr', i')
  BY <1>1, <1>2
<1>7. pc' # "code" /\ pc' # "call" /\ pc' # "done"
  BY <1>1
<1>8. ~null' /\ input' # <<>>
  BY <1>1, <1>2
<1>9. Decoding'
  BY <1>4, <1>5, <1>6, <1>7, <1>8 DEF Decoding
<1> QED BY <1>7, <1>9 DEF Means

\* No room was left: nothing of the block will be written.
LEMMA CutOffBlock ==
  ASSUME IInv, Means, pc = "code", Overflown, NEW b \in Byte \ {0}, NEW bytes \in Nat,
         NEW code, NEW at,
         ReadBlock(b, bytes, code, at), at \in {"copy", "last", "final"},
         NEW flags \in SUBSET {"OUT_BUFFER_OVERFLOW"}, status' = status \cup flags
  PROVE  Means'
<1>1. Read(b) /\ input' = input /\ reduced' = reduced /\ null' = null /\ dst' = dst
      /\ dst_write_ptr' = dst_write_ptr /\ pc' = at /\ i' = Least(bytes, OutputLeft)
  BY DEF ReadBlock
<1>2. /\ Len(Whole.data) > Len(dst) /\ OutputLeft = 0 /\ reduced /\ Copied
      /\ OutputLeft = Len(dst) - dst_write_ptr
  BY <1>1, AtCode
<1>3. i' = 0
  BY <1>1, <1>2 DEF Least
<1>4. Ahead(input, src_read_ptr + 1, dst_write_ptr, 0)
  BY <1>2, State, AheadNone DEF Copied, Whole
<1>5. Overflown'
  BY DEF Overflown
<1>6. CutOff'
  <2>1. dst_write_ptr' + i' = Len(dst')
    BY <1>1, <1>2, <1>3, State
  <2>2. Len(Whole'.data) > Len(dst')
    BY <1>1, <1>2 DEF Whole
  <2> QED BY <1>1, <1>2, <2>1, <2>2 DEF CutOff, Whole
<1>7. flags \in SUBSET {"OUT_BUFFER_OVERFLOW", "INPUT_TOO_SHORT"}
      /\ "INPUT_TOO_SHORT" \notin flags
  OBVIOUS
<1> QED BY <1>3, <1>4, <1>5, <1>6, <1>7, CodeMeans

\* The code of the last block is read.
LEMMA LastBlockRead ==
  ASSUME IInv, Means, pc = "code", ~Overflown, NEW b \in Byte \ {0}, NEW code, NEW at,
         ReadBlock(b, InputLeft, code, at), b - 1 >= InputLeft,
         NEW flags \in SUBSET {"OUT_BUFFER_OVERFLOW", "INPUT_TOO_SHORT"},
         status' = status \cup flags,
         "INPUT_TOO_SHORT" \in flags => ~reduced /\ b - 1 > InputLeft,
         "OUT_BUFFER_OVERFLOW" \in flags <=> InputLeft > OutputLeft,
         \/ /\ at = "copy" /\ ~reduced
            /\ "INPUT_TOO_SHORT" \notin flags => b - 1 = InputLeft
            /\ "OUT_BUFFER_OVERFLOW" \in flags => code < MaxCode - 1
         \/ at = "last" /\ b - 1 = InputLeft
         \/ at = "final" /\ b - 1 > InputLeft /\ code = b
  PROVE  Means'
<1>1. /\ Read(b) /\ input' = input /\ reduced' = reduced /\ null' = null /\ dst' = dst
      /\ dst_write_ptr' = dst_write_ptr /\ pc' = at /\ i' = Least(InputLeft, OutputLeft)
      /\ len_code' = code
  BY DEF ReadBlock
<1>2. /\ src_read_ptr \in 0 .. Len(input) - 1
      /\ b = input[src_read_ptr + 1] /\ src_read_ptr' = src_read_ptr + 1
      /\ InputLeft = Len(input) - (src_read_ptr + 1) /\ InputLeft \in Nat
      /\ OutputLeft = Len(dst) - dst_write_ptr /\ OutputLeft \in Nat
      /\ StandsAt(input, src_read_ptr, dst_write_ptr)
  BY <1>1, AtCode
<1>3. b \in Nat /\ b > 0
  BY Bytes
<1>4. src_read_ptr + b >= Len(input)
  BY <1>2, <1>3, State
<1>5. PICK left : left = InputLeft
  OBVIOUS
<1>6. /\ Whole.end = src_read_ptr + b /\ Whole.code = b /\ left \in Nat
      /\ Ahead(input, src_read_ptr + 1, dst_write_ptr, left)
      /\ ToTheEnd(input, src_read_ptr + 1, dst_write_ptr, left)
  BY <1>2, <1>4, <1>5, OpensLast, State DEF Whole
<1>7. "INPUT_TOO_SHORT" \in flags => ~reduced /\ Whole.end > Len(input)
  BY <1>2, <1>3, <1>6, State
<1>8. CASE left > OutputLeft
  <2>1. i' = OutputLeft
    BY <1>1, <1>2, <1>5, <1>8 DEF Least
  <2>2. Ahead(input, src_read_ptr + 1, dst_write_ptr, i')
    <3>1. src_read_ptr + 1 \in Nat /\ OutputLeft <= left
      BY <1>2, <1>6, <1>8
    <3> QED BY <1>2, <1>6, <2>1, <3>1, AheadLess, State
  <2>3. Overflown'
    BY <1>5, <1>8 DEF Overflown
  <2>4. Len(Whole.data) > Len(dst) /\ dst_write_ptr + OutputLeft = Len(dst)
    BY <1>2, <1>6, <1>8, State DEF ToTheEnd, Whole
  <2>5. CutOff'
    <3>1. pc' # "code"
      BY <1>1
    <3>2. pc' = "copy" /\ ~reduced' => len_code' < MaxCode - 1
      BY <1>1, <1>5, <1>8
    <3>3. Len(Whole'.data) > Len(dst') /\ dst_write_ptr' + i' = Len(dst')
      BY <1>1, <2>1, <2>4 DEF Whole
    <3> QED BY <3>1, <3>2, <3>3 DEF CutOff, Whole
  <2> QED BY <1>1, <1>7, <2>2, <2>3, <2>5, CodeMeans
<1>9. CASE ~(left > OutputLeft)
  <2>1. i' = left
    BY <1>1, <1>2, <1>5, <1>9 DEF Least
  <2>2. ~Overflown'
    BY <1>5, <1>9 DEF Overflown
  <2>3. LastOne'
    BY <1>1, <1>2, <1>6, <2>1 DEF LastOne
  <2>4. b - 1 = InputLeft => Whole.end = Len(input)
    <3>1. b - 1 = InputLeft => src_read_ptr + b = Len(input)
      BY <1>2, <1>3, State
    <3> QED BY <1>6, <3>1
  <2>5. b - 1 > InputLeft => Whole.end > Len(input)
    <3>1. b - 1 > InputLeft => src_read_ptr + b > Len(input)
      BY <1>2, <1>3, State
    <3> QED BY <1>6, <3>1
  <2>6. src_read_ptr' + i' = Len(input')
    BY <1>1, <1>2, <1>6, <2>1 DEF ToTheEnd
  <2>7. ~(src_read_ptr' + i' < Len(input'))
    BY <1>1, <2>6, State
  <2>8. "INPUT_TOO_SHORT" \notin status' => "INPUT_TOO_SHORT" \notin flags
    OBVIOUS
  <2>9. Whole' = Whole
    BY <1>1 DEF Whole
  <2>10. Stands'
    BY <1>1, <1>6, <2>3, <2>4, <2>5, <2>7, <2>8, <2>9 DEF Stands
  <2> QED BY <1>1, <1>6, <1>7, <2>1, <2>2, <2>10, CodeMeans
<1> QED BY <1>8, <1>9

\* The code of a block that others follow is read.
LEMMA InnerBlockRead ==
  ASSUME IInv, Means, pc = "code", ~Overflown, NEW b \in Byte \ {0}, NEW code,
         ReadBlock(b, b - 1, code, "copy"), b - 1 < InputLeft,
         NEW flags \in SUBSET {"OUT_BUFFER_OVERFLOW"}, status' = status \cup flags,
         "OUT_BUFFER_OVERFLOW" \in flags <=> b - 1 > OutputLeft,
         "OUT_BUFFER_OVERFLOW" \in flags => reduced \/ code < MaxCode - 1,
         "OUT_BUFFER_OVERFLOW" \notin flags => (NoZeroFollows' <=> b = MaxCode)
  PROVE  Means'
<1>1. /\ Read(b) /\ input' = input /\ reduced' = reduced /\ null' = null /\ dst' = dst
      /\ dst_write_ptr' = dst_write_ptr /\ pc' = "copy" /\ i' = Least(b - 1, OutputLeft)
      /\ len_code' = code
  BY DEF ReadBlock
<1>2. /\ src_read_ptr \in 0 .. Len(input) - 1
      /\ b = input[src_read_ptr + 1] /\ src_read_ptr' = src_read_ptr + 1
      /\ InputLeft = Len(input) - (src_read_ptr + 1) /\ InputLeft \in Nat
      /\ OutputLeft = Len(dst) - dst_write_ptr /\ OutputLeft \in Nat
      /\ StandsAt(input, src_read_ptr, dst_write_ptr)
  BY <1>1, AtCode
<1>3. b \in Nat /\ b > 0 /\ b # 0 /\ b - 1 \in Nat
  BY Bytes
<1>4. src_read_ptr + b < Len(input)
  BY <1>2, <1>3, State
<1>5. /\ Ahead(input, src_read_ptr + 1, dst_write_ptr, b - 1)
      /\ Followed(input, src_read_ptr + 1, dst_write_ptr, b - 1, b = MaxCode)
  BY <1>2, <1>3, <1>4, OpensInner, State
<1>6. flags \in SUBSET {"OUT_BUFFER_OVERFLOW", "INPUT_TOO_SHORT"}
      /\ "INPUT_TOO_SHORT" \notin flags
  OBVIOUS
<1>7. CASE b - 1 > OutputLeft
  <2>1. i' = OutputLeft
    BY <1>1, <1>2, <1>3, <1>7 DEF Least
  <2>2. Ahead(input, src_read_ptr + 1, dst_write_ptr, i')
    <3>1. src_read_ptr + 1 \in Nat /\ OutputLeft <= b - 1
      BY <1>2, <1>3, <1>7
    <3> QED BY <1>2, <1>3, <1>5, <2>1, <3>1, AheadLess, State
  <2>3. Overflown'
    BY <1>7 DEF Overflown
  <2>4. Len(Whole.data) > Len(dst) /\ dst_write_ptr + OutputLeft = Len(dst)
    <3>1. dst_write_ptr + (b - 1) <= Len(Whole.data)
      BY <1>5 DEF Ahead, AheadIn, Whole
    <3>2. dst_write_ptr \in Nat /\ Len(Whole.data) \in Nat /\ Len(dst) \in Nat
      BY State
    <3>3. PICK left \in Nat : left = OutputLeft
      BY <1>2
    <3>4. dst_write_ptr + left = Len(dst) /\ b - 1 > left
      BY <1>2, <1>7, <3>2, <3>3
    <3>5. Len(Whole.data) > Len(dst)
      BY <1>3, <3>1, <3>2, <3>4
    <3> QED BY <3>3, <3>4, <3>5
  <2>5. CutOff'
    <3>1. pc' # "code"
      BY <1>1
    <3>2. pc' = "copy" /\ ~reduced' => len_code' < MaxCode - 1
      BY <1>1, <1>7
    <3>3. Len(Whole'.data) > Len(dst') /\ dst_write_ptr' + i' = Len(dst')
      BY <1>1, <2>1, <2>4 DEF Whole
    <3> QED BY <3>1, <3>2, <3>3 DEF CutOff, Whole
  <2> QED BY <1>6, <2>2, <2>3, <2>5, CodeMeans
<1>8. CASE ~(b - 1 > OutputLeft)
  <2>1. i' = b - 1
    BY <1>1, <1>2, <1>3, <1>8 DEF Least
  <2>2. ~Overflown'
    BY <1>8 DEF Overflown
  <2>3. NoZeroFollows' <=> b = MaxCode
    BY <1>8
  <2>4. Followed(input', src_read_ptr', dst_write_ptr', i', NoZeroFollows')
    <3>1. input' = input /\ src_read_ptr' = src_read_ptr + 1 /\ dst_write_ptr' = dst_write_ptr
      BY <1>1, <1>2
    <3>2. CASE b = MaxCode
      <4>1. StandsAt(input, (src_read_ptr + 1) + (b - 1), dst_write_ptr + (b - 1))
        BY <1>5, <3>2 DEF Followed
      <4>2. StandsAt(input', src_read_ptr' + i', dst_write_ptr' + i')
        BY <2>1, <3>1, <4>1
      <4> QED BY <2>3, <3>2, <4>2 DEF Followed
    <3>3. CASE b # MaxCode
      <4>1. /\ StandsAt(input, (src_read_ptr + 1) + (b - 1), dst_write_ptr + (b - 1) + 1)
            /\ Blocks(input).data[dst_write_ptr + (b - 1) + 1] = 0
        BY <1>5, <3>3 DEF Followed
      <4>2. /\ StandsAt(input', src_read_ptr' + i', dst_write_ptr' + i' + 1)
            /\ Blocks(input').data[dst_write_ptr' + i' + 1] = 0
        BY <2>1, <3>1, <4>1
      <4> QED BY <2>3, <3>3, <4>2 DEF Followed
    <3> QED BY <3>2, <3>3
  <2>5. src_read_ptr' + i' < Len(input')
    BY <1>1, <1>2, <1>3, <1>4, <2>1, State
  <2>6. Stands'
    BY <1>1, <2>4, <2>5 DEF Stands
  <2> QED BY <1>5, <1>6, <2>1, <2>2, <2>6, CodeMeans
<1> QED BY <1>7, <1>8

\* The three actions that read a code.
LEMMA ReadCodeMeans == ASSUME IInv, Means, ReadCode PROVE Means'
<1>1. pc = "code" /\ ~reduced
  BY DEF ReadCode
<1>2. PICK b \in Byte \ {0} :
        LET len == Least(b - 1, InputLeft)
        IN  /\ ReadBlock(b, len, Least(len, OutputLeft), "copy")
            /\ status' = FlagIf(TooShort(b), "INPUT_TOO_SHORT")
                           \cup FlagIf(len > OutputLeft, "OUT_BUFFER_OVERFLOW")
  BY DEF ReadCode
<1> DEFINE len   == Least(b - 1, InputLeft)
           short == IF TooShort(b) THEN {"INPUT_TOO_SHORT"} ELSE {}
           full  == IF len > OutputLeft THEN {"OUT_BUFFER_OVERFLOW"} ELSE {}
           flags == short \cup full
<1>3. ReadBlock(b, len, Least(len, OutputLeft), "copy")
  BY <1>2
<1>4. status' = status \cup flags
  BY <1>2 DEF FlagIf
<1>5. b \in Nat /\ b > 0 /\ b - 1 \in Nat /\ b - 1 <= MaxCode - 1 /\ MaxCode \in Nat
  BY Bytes
<1>6. Read(b)
  BY <1>3 DEF ReadBlock
<1>7. InputLeft \in Nat /\ OutputLeft \in Nat /\ ~Overflown
  BY <1>1, <1>6, AtCode
<1>8. len \in Nat /\ len <= b - 1
  BY <1>5, <1>7 DEF Least
<1>9. len > OutputLeft => Least(len, OutputLeft) = OutputLeft /\ OutputLeft < MaxCode - 1
  BY <1>5, <1>7, <1>8 DEF Least
<1>10. "OUT_BUFFER_OVERFLOW" \in flags <=> len > OutputLeft
  OBVIOUS
<1>11. "INPUT_TOO_SHORT" \in flags <=> b - 1 > InputLeft
  BY DEF TooShort
<1>12. CASE b - 1 >= InputLeft
  <2>1. len = InputLeft
    BY <1>5, <1>7, <1>12 DEF Least
  <2>2. flags \in SUBSET {"OUT_BUFFER_OVERFLOW", "INPUT_TOO_SHORT"}
    OBVIOUS
  <2>3. "INPUT_TOO_SHORT" \notin flags => b - 1 = InputLeft
    BY <1>5, <1>7, <1>11, <1>12
  <2>4. "OUT_BUFFER_OVERFLOW" \in flags => Least(len, OutputLeft) < MaxCode - 1
    BY <1>9, <1>10
  <2> HIDE DEF len, short, full, flags
  <2> QED BY <1>1, <1>3, <1>4, <1>7, <1>10, <1>11, <1>12, <2>1, <2>2, <2>3, <2>4, LastBlockRead
<1>13. CASE b - 1 < InputLeft
  <2>1. len = b - 1
    BY <1>13 DEF Least
  <2>2. flags \in SUBSET {"OUT_BUFFER_OVERFLOW"}
    BY <1>5, <1>7, <1>13 DEF TooShort
  <2>3. "OUT_BUFFER_OVERFLOW" \in flags => Least(len, OutputLeft) < MaxCode - 1
    BY <1>9, <1>10
  <2>4. ASSUME "OUT_BUFFER_OVERFLOW" \notin flags PROVE NoZeroFollows' <=> b = MaxCode
    <3>1. len_code' = Least(len, OutputLeft) /\ reduced' = reduced
      BY <1>3 DEF ReadBlock
    <3>2. Least(len, OutputLeft) = b - 1
      BY <1>5, <1>7, <1>10, <2>1, <2>4 DEF Least
    <3> QED BY <1>1, <1>5, <3>1, <3>2 DEF NoZeroFollows
  <2> HIDE DEF len, short, full, flags
  <2> QED BY <1>1, <1>3, <1>4, <1>7, <1>10, <1>13, <2>1, <2>2, <2>3, <2>4, InnerBlockRead
<1> QED BY <1>5, <1>7, <1>12, <1>13

\* A block of cobsr_decode() that others follow, before or after an overflow.
LEMMA ReadInnerCodeMeans == ASSUME IInv, Means, ReadInnerCode PROVE Means'
<1>1. pc = "code" /\ reduced
  BY DEF ReadInnerCode
<1>2. PICK b \in Byte \ {0} :
        /\ MoreBlocks(b)
        /\ ReadBlock(b, b - 1, b, "copy")
        /\ status' = FlagIf(b - 1 > OutputLeft, "OUT_BUFFER_OVERFLOW")
  BY DEF ReadInnerCode
<1> DEFINE flags == IF b - 1 > OutputLeft THEN {"OUT_BUFFER_OVERFLOW"} ELSE {}
<1>3. status' = status \cup flags
  BY <1>2 DEF FlagIf
<1>4. flags \in SUBSET {"OUT_BUFFER_OVERFLOW"}
      /\ ("OUT_BUFFER_OVERFLOW" \in flags <=> b - 1 > OutputLeft)
  OBVIOUS
<1>5. b - 1 \in Nat /\ b - 1 < InputLeft
  BY <1>2, Bytes DEF MoreBlocks
<1>6. NoZeroFollows' <=> b = MaxCode
  <2>1. len_code' = b /\ reduced' = reduced
    BY <1>2 DEF ReadBlock
  <2> QED BY <1>1, <2>1 DEF NoZeroFollows
<1> HIDE DEF flags
<1>7. CASE Overflown
  BY <1>1, <1>2, <1>3, <1>4, <1>5, <1>7, CutOffBlock
<1>8. CASE ~Overflown
  BY <1>1, <1>2, <1>3, <1>4, <1>5, <1>6, <1>8, InnerBlockRead
<1> QED BY <1>7, <1>8

\* Its last block.
LEMMA ReadLastCodeMeans == ASSUME IInv, Means, ReadLastCode PROVE Means'
<1>1. pc = "code" /\ reduced
  BY DEF ReadLastCode
<1>2. PICK b \in Byte \ {0} :
        /\ ~MoreBlocks(b)
        /\ ReadBlock(b, InputLeft, b, IF b - 1 > InputLeft THEN "final" ELSE "last")
        /\ status' = FlagIf(InputLeft > OutputLeft, "OUT_BUFFER_OVERFLOW")
  BY DEF ReadLastCode
<1> DEFINE flags == IF InputLeft > OutputLeft THEN {"OUT_BUFFER_OVERFLOW"} ELSE {}
<1>3. PICK at : at = IF b - 1 > InputLeft THEN "final" ELSE "last"
  OBVIOUS
<1>4. status' = status \cup flags
  BY <1>2 DEF FlagIf
<1>5. /\ flags \in SUBSET {"OUT_BUFFER_OVERFLOW"}
      /\ flags \in SUBSET {"OUT_BUFFER_OVERFLOW", "INPUT_TOO_SHORT"}
      /\ "INPUT_TOO_SHORT" \notin flags
      /\ ("OUT_BUFFER_OVERFLOW" \in flags <=> InputLeft > OutputLeft)
  OBVIOUS
<1>6. Read(b) /\ ReadBlock(b, InputLeft, b, at)
  <2>1. ReadBlock(b, InputLeft, b, at)
    BY <1>2, <1>3
  <2> QED BY <2>1 DEF ReadBlock
<1>7. InputLeft \in Nat
  BY <1>1, <1>6, AtCode
<1>8. b - 1 >= InputLeft
  BY <1>2, <1>7, Bytes DEF MoreBlocks
<1>9. \/ at = "last" /\ b - 1 = InputLeft
      \/ at = "final" /\ b - 1 > InputLeft
  <2>1. b - 1 \in Nat
    BY Bytes
  <2>2. CASE b - 1 > InputLeft
    BY <1>3, <2>2
  <2>3. CASE ~(b - 1 > InputLeft)
    <3>1. b - 1 = InputLeft
      BY <1>7, <1>8, <2>1, <2>3
    <3> QED BY <1>3, <2>3, <3>1
  <2> QED BY <2>2, <2>3
<1> HIDE DEF flags
<1>10. CASE Overflown
  BY <1>1, <1>4, <1>5, <1>6, <1>7, <1>9, <1>10, CutOffBlock
<1>11. CASE ~Overflown
  BY <1>1, <1>4, <1>5, <1>6, <1>8, <1>9, <1>11, LastBlockRead
<1> QED BY <1>10, <1>11

-----------------------------------------------------------------------------
\* A byte of what all blocks mean is written behind those that are there.
LEMMA CopiedMore ==
  ASSUME IInv, Copied, NEW b \in Byte \cup {Unwritten}, Write(b), dst_write_ptr < Len(dst),
         input' = input, dst_write_ptr + 1 <= Len(Whole.data),
         b = Whole.data[dst_write_ptr + 1]
  PROVE  Copied' /\ Len(dst') = Len(dst) /\ dst' \in Seq(Byte \cup {Unwritten})
<1>1. /\ dst \in Seq(Byte \cup {Unwritten}) /\ Len(dst) \in Nat /\ dst_write_ptr \in Nat
  BY State
<1>2. dst' = [dst EXCEPT ![dst_write_ptr + 1] = b] /\ dst_write_ptr' = dst_write_ptr + 1
  BY DEF Write
<1>3. /\ dst' \in Seq(Byte \cup {Unwritten}) /\ Len(dst') = Len(dst)
      /\ \A n \in 1 .. Len(dst) : n # dst_write_ptr + 1 => dst'[n] = dst[n]
  BY <1>1, <1>2, Overwritten
<1>4. dst'[dst_write_ptr + 1] = b
  <2>1. dst_write_ptr + 1 \in 1 .. Len(dst)
    BY <1>1
  <2> QED BY <1>1, <1>2, <2>1
<1>5. Whole' = Whole
  BY DEF Whole
<1>6. ASSUME NEW n \in 1 .. dst_write_ptr' PROVE dst'[n] = Whole'.data[n]
  <2>1. CASE n = dst_write_ptr + 1
    BY <1>4, <1>5, <2>1
  <2>2. CASE n # dst_write_ptr + 1
    <3>1. n \in 1 .. dst_write_ptr /\ n \in 1 .. Len(dst)
      BY <1>1, <1>2, <2>2
    <3> QED BY <1>3, <1>5, <2>2, <3>1 DEF Copied
  <2> QED BY <2>1, <2>2
<1> QED BY <1>2, <1>3, <1>5, <1>6 DEF Copied

\* A byte of a block is copied.
LEMMA CopyByteMeans == ASSUME IInv, Means, CopyByte PROVE Means'
<1>1. /\ pc \in {"copy", "last", "final"} /\ i > 0 /\ i' = i - 1
      /\ pc' = pc /\ reduced' = reduced /\ null' = null /\ input' = input
      /\ len_code' = len_code
  BY DEF CopyByte
<1>2. PICK b \in Byte : Read(b) /\ Write(b) /\ status' = FlagIf(b = 0, "ZERO_BYTE_IN_INPUT")
  BY DEF CopyByte
<1>3. Decoding
  BY <1>1 DEF Means
<1>4. i \in Nat /\ i - 1 \in Nat /\ src_read_ptr \in Nat /\ dst_write_ptr \in Nat
      /\ src_read_ptr < Len(src) /\ dst_write_ptr < Len(dst)
  BY <1>1, State DEF IInv, Pointers
<1>5. b = input[src_read_ptr + 1] /\ src_read_ptr' = src_read_ptr + 1
  BY <1>2, <1>4, ReadsInput
<1>6. dst_write_ptr' = dst_write_ptr + 1
  BY <1>2 DEF Write
<1>7. /\ Whole.data[dst_write_ptr + 1] = input[src_read_ptr + 1]
      /\ dst_write_ptr + 1 <= Len(Whole.data)
      /\ Ahead(input, src_read_ptr + 1, dst_write_ptr + 1, i - 1)
  BY <1>1, <1>3, <1>4, AheadOne, State DEF Decoding, Whole
<1>8. Copied' /\ Len(dst') = Len(dst)
  BY <1>1, <1>2, <1>3, <1>4, <1>5, <1>7, CopiedMore DEF Decoding
<1>9. Justified(reduced', input', src_read_ptr', status')
  <2> DEFINE flags == IF b = 0 THEN {"ZERO_BYTE_IN_INPUT"} ELSE {}
  <2>1. status' = status \cup flags
    BY <1>2 DEF FlagIf
  <2>2. /\ flags \in SUBSET {"OUT_BUFFER_OVERFLOW", "ZERO_BYTE_IN_INPUT", "INPUT_TOO_SHORT"}
        /\ ("ZERO_BYTE_IN_INPUT" \in flags <=> input[src_read_ptr + 1] = 0)
        /\ "INPUT_TOO_SHORT" \notin flags
    BY <1>5
  <2> HIDE DEF flags
  <2>3. Justified(reduced, input, src_read_ptr, status)
    BY <1>3 DEF Decoding
  <2> QED BY <1>1, <1>4, <1>5, <2>1, <2>2, <2>3, JustifiedRead
<1>10. /\ src_read_ptr' + i' = src_read_ptr + i /\ dst_write_ptr' + i' = dst_write_ptr + i
       /\ dst_write_ptr' + i' + 1 = dst_write_ptr + i + 1
  BY <1>1, <1>4, <1>5, <1>6
<1>11. /\ "INPUT_TOO_SHORT" \in status' <=> "INPUT_TOO_SHORT" \in status
       /\ Overflown' <=> Overflown
       /\ NoZeroFollows' <=> NoZeroFollows
  BY <1>1, <1>2 DEF FlagIf, Overflown, NoZeroFollows
<1>12. Whole' = Whole
  BY <1>1 DEF Whole
<1>13. CASE Overflown
  <2>1. CutOff
    BY <1>3, <1>13 DEF Decoding
  <2>2. CutOff'
    BY <1>1, <1>8, <1>10, <1>12, <2>1 DEF CutOff
  <2>3. Overflown'
    BY <1>11, <1>13
  <2>4. Decoding'
    BY <1>1, <1>3, <1>5, <1>6, <1>7, <1>8, <1>9, <2>2, <2>3 DEF Decoding
  <2> QED BY <1>1, <2>4 DEF Means
<1>14. CASE ~Overflown
  <2>1. Stands
    BY <1>3, <1>14 DEF Decoding
  <2>2. LastOne' <=> LastOne
    BY <1>1, <1>10 DEF LastOne, ToTheEnd
  <2>3. Followed(input', src_read_ptr', dst_write_ptr', i', NoZeroFollows')
          <=> Followed(input, src_read_ptr, dst_write_ptr, i, NoZeroFollows)
    BY <1>1, <1>10, <1>11 DEF Followed
  <2>4. Stands'
    BY <1>1, <1>10, <1>11, <1>12, <2>1, <2>2, <2>3 DEF Stands
  <2>5. ~Overflown'
    BY <1>11, <1>14
  <2>6. Decoding'
    BY <1>1, <1>3, <1>5, <1>6, <1>7, <1>8, <1>9, <2>4, <2>5 DEF Decoding
  <2> QED BY <1>1, <2>6 DEF Means
<1> QED BY <1>13, <1>14

\* What stands behind a block that ends here, when the next code is to be read.
LEMMA AtBlockEnd ==
  ASSUME IInv, Means, pc = "copy", i = 0, ~InputExhausted
  PROVE  /\ Decoding
         /\ src_read_ptr \in 0 .. Len(input) - 1
         /\ Overflown => dst_write_ptr = Len(dst) /\ Len(Whole.data) > Len(dst)
                         /\ (~reduced => ~NoZeroFollows)
         /\ ~Overflown =>
              IF NoZeroFollows THEN StandsAt(input, src_read_ptr, dst_write_ptr)
              ELSE /\ StandsAt(input, src_read_ptr, dst_write_ptr + 1)
                   /\ Whole.data[dst_write_ptr + 1] = 0
                   /\ dst_write_ptr + 1 <= Len(Whole.data)
<1>1. Decoding
  BY DEF Means
<1>2. /\ src_read_ptr + i = src_read_ptr /\ dst_write_ptr + i = dst_write_ptr
      /\ dst_write_ptr + i + 1 = dst_write_ptr + 1
      /\ src_read_ptr \in Nat /\ dst_write_ptr \in Nat
  BY State
<1>3. src_read_ptr < Len(input)
  <2>1. CASE reduced
    BY <1>2, <2>1, State DEF IInv, Pointers
  <2>2. CASE ~reduced
    BY <2>2, State DEF InputExhausted
  <2> QED BY <2>1, <2>2
<1>4. src_read_ptr \in 0 .. Len(input) - 1
  BY <1>2, <1>3, State
<1>5. CASE Overflown
  <2>1. CutOff
    BY <1>1, <1>5 DEF Decoding
  <2>2. ~reduced => ~NoZeroFollows
    <3>1. ~reduced => len_code < MaxCode - 1
      BY <2>1 DEF CutOff
    <3>2. ~reduced => len_code # MaxCode - 1
      BY <3>1, State
    <3> QED BY <3>2 DEF NoZeroFollows
  <2>3. dst_write_ptr = Len(dst) /\ Len(Whole.data) > Len(dst)
    BY <1>2, <2>1 DEF CutOff
  <2> QED BY <1>1, <1>4, <1>5, <2>2, <2>3
<1>6. CASE ~Overflown
  <2>1. Stands
    BY <1>1, <1>6 DEF Decoding
  <2>2. Followed(input, src_read_ptr, dst_write_ptr, i, NoZeroFollows)
    BY <1>2, <1>3, <2>1 DEF Stands
  <2>3. CASE NoZeroFollows
    BY <1>1, <1>2, <1>4, <1>6, <2>2, <2>3 DEF Followed
  <2>4. CASE ~NoZeroFollows
    <3>1. /\ StandsAt(input, src_read_ptr, dst_write_ptr + 1)
          /\ Whole.data[dst_write_ptr + 1] = 0
      BY <1>2, <2>2, <2>4 DEF Followed, Whole
    <3>2. PICK more : more = Len(BlocksFrom(input)[src_read_ptr].data)
      OBVIOUS
    <3>3. more \in Nat
      BY <1>4, <3>2, BlockBytes, LenProperties, State
    <3>4. Len(Whole.data) = dst_write_ptr + 1 + more
      BY <3>1, <3>2 DEF StandsAt, StandsIn, Whole
    <3>5. dst_write_ptr + 1 <= Len(Whole.data)
      BY <1>2, <3>3, <3>4
    <3> QED BY <1>1, <1>4, <1>6, <2>4, <3>1, <3>5
  <2> QED BY <2>3, <2>4
<1> QED BY <1>5, <1>6

\* The next block begins at once.
LEMMA FullBlockMeans == ASSUME IInv, Means, FullBlock PROVE Means'
<1>1. /\ pc = "copy" /\ i = 0 /\ ~InputExhausted /\ NoZeroFollows /\ pc' = "code"
      /\ UNCHANGED <<reduced, null, input, dst, src_read_ptr, dst_write_ptr, i, status>>
  BY DEF FullBlock
<1>2. /\ Decoding
      /\ Overflown => dst_write_ptr = Len(dst) /\ Len(Whole.data) > Len(dst) /\ reduced
      /\ ~Overflown => StandsAt(input, src_read_ptr, dst_write_ptr)
  BY <1>1, AtBlockEnd
<1>3. Whole' = Whole /\ (Overflown' <=> Overflown)
  BY <1>1 DEF Whole, Overflown
<1>4. Copied'
  BY <1>1, <1>2, <1>3 DEF Decoding, Copied
<1>5. IF Overflown' THEN CutOff' ELSE Stands'
  <2>1. CASE Overflown
    <3>1. CutOff'
      BY <1>1, <1>2, <1>3, <2>1, State DEF CutOff
    <3> QED BY <1>3, <2>1, <3>1
  <2>2. CASE ~Overflown
    <3>1. Stands'
      BY <1>1, <1>2, <2>2 DEF Stands
    <3> QED BY <1>3, <2>2, <3>1
  <2> QED BY <2>1, <2>2
<1>6. Decoding'
  BY <1>1, <1>2, <1>4, <1>5 DEF Decoding
<1> QED BY <1>1, <1>6 DEF Means

\* A zero is written before it does.
LEMMA AddZeroMeans == ASSUME IInv, Means, AddZero PROVE Means'
<1>1. /\ pc = "copy" /\ i = 0 /\ ~InputExhausted /\ ~NoZeroFollows /\ pc' = "code"
      /\ Write(0) /\ dst_write_ptr' = dst_write_ptr + 1
      /\ UNCHANGED <<reduced, null, input, src_read_ptr, i, status>>
  BY DEF AddZero, Write
<1>2. dst_write_ptr < Len(dst)
  BY State DEF AddZero, NoRoomForZero
<1>3. ~Overflown
  BY <1>1, <1>2, AtBlockEnd, State
<1>4. /\ Decoding
      /\ StandsAt(input, src_read_ptr, dst_write_ptr + 1)
      /\ Whole.data[dst_write_ptr + 1] = 0
      /\ dst_write_ptr + 1 <= Len(Whole.data)
  BY <1>1, <1>3, AtBlockEnd
<1>5. Copied'
  <2>1. 0 \in Byte \cup {Unwritten}
    BY Bytes
  <2> QED BY <1>1, <1>2, <1>4, <2>1, CopiedMore DEF Decoding
<1>6. Ahead(input, src_read_ptr, dst_write_ptr + 1, 0)
  <2>1. dst_write_ptr + 1 \in Nat
    BY State
  <2> QED BY <1>4, <2>1, AheadNone DEF Whole
<1>7. ~Overflown' /\ Stands'
  BY <1>1, <1>3, <1>4 DEF Stands, Overflown
<1>8. Decoding'
  BY <1>1, <1>4, <1>5, <1>6, <1>7 DEF Decoding
<1> QED BY <1>1, <1>8 DEF Means

-----------------------------------------------------------------------------
\* What is written begins what the call is to return.
LEMMA OutputBegins ==
  ASSUME IInv, Decoding, NEW all, all = SubSeq(Data(reduced, input), 1, dst_write_ptr)
  PROVE  /\ SubSeq(dst, 1, dst_write_ptr) = all
         /\ Len(Data(reduced, input)) \in Nat
         /\ Len(Data(reduced, input)) >= Len(Whole.data)
<1>1. /\ input \in Seq(Byte) /\ reduced \in BOOLEAN /\ dst \in Seq(Byte \cup {Unwritten})
      /\ dst_write_ptr \in Nat /\ dst_write_ptr <= Len(dst)
      /\ Whole.data \in Seq(Byte) /\ Len(Whole.data) \in Nat
  BY State
<1>2. /\ dst_write_ptr <= Len(Whole.data)
      /\ \A n \in 1 .. dst_write_ptr : dst[n] = Whole.data[n]
  BY DEF Decoding, Copied
<1>3. SubSeq(dst, 1, dst_write_ptr) = SubSeq(Whole.data, 1, dst_write_ptr)
  BY <1>1, <1>2, SameBeginning
<1>4. dst_write_ptr \in 0 .. Len(Whole.data)
  BY <1>1, <1>2
<1>5. SubSeq(Data(reduced, input), 1, dst_write_ptr) = SubSeq(Whole.data, 1, dst_write_ptr)
  BY <1>1, <1>4, BeginsData DEF Whole
<1>6. Len(Data(reduced, input)) \in Nat /\ Len(Data(reduced, input)) >= Len(Whole.data)
  BY <1>1, BeginsData DEF Whole
<1> QED BY <1>3, <1>5, <1>6

\* A call returns with the destination full and some data left.
LEMMA ReturnsFull ==
  ASSUME IInv, Decoding, UNCHANGED <<reduced, null, input, dst>>,
         Return(dst_write_ptr), dst_write_ptr = Len(dst),
         Len(Data(reduced, input)) > Len(dst),
         "OUT_BUFFER_OVERFLOW" \in status',
         Justified(reduced, input, src_read_ptr, status')
  PROVE  Means'
<1>1. pc' = "done" /\ out_len' = dst_write_ptr
  BY DEF Return
<1>2. /\ SubSeq(dst, 1, dst_write_ptr) = SubSeq(Data(reduced, input), 1, Len(dst))
      /\ Len(Data(reduced, input)) \in Nat
  BY OutputBegins
<1>3. Output' = SubSeq(Data(reduced, input), 1, Len(dst))
  BY <1>1, <1>2 DEF Output
<1>4. src_read_ptr \in 0 .. Len(input) /\ reduced \in BOOLEAN /\ input \in Seq(Byte)
      /\ Len(dst) \in Nat
  BY State
<1>5. Decoded(reduced, input, Len(dst), status', Output')
  BY <1>2, <1>3, <1>4, CutShort
<1>6. src_read_ptr \in Nat /\ src_read_ptr <= Len(input) /\ Len(input) \in Nat
  BY State
<1>7. DecodesExactly' /\ ErrorsAreTrue'
  BY <1>5, <1>6, Concludes
<1> QED BY <1>1, <1>7 DEF Means

\* A call returns when the whole string is read and what its blocks mean is written.
LEMMA ReturnsAll ==
  ASSUME IInv, Decoding, UNCHANGED <<reduced, null, input, dst, status>>,
         Return(dst_write_ptr), ~Overflown, src_read_ptr = Len(input),
         dst_write_ptr = Len(Whole.data),
         ~reduced => "INPUT_TOO_SHORT" \in status \/ Whole.end = Len(input),
         reduced => Whole.end = Len(input)
  PROVE  Means'
<1>1. pc' = "done" /\ out_len' = dst_write_ptr
  BY DEF Return
<1>2. reduced \in BOOLEAN /\ input \in Seq(Byte) /\ Len(input) \in Nat /\ Len(dst) \in Nat
      /\ dst_write_ptr <= Len(dst) /\ Whole.data \in Seq(Byte)
  BY State
<1>3. Data(reduced, input) = Whole.data
  BY <1>2 DEF Data, Meaning, ReducedMeaning, Whole
<1>4. SubSeq(Whole.data, 1, dst_write_ptr) = Whole.data
  BY <1>2, AllOf
<1>5. Output' = Data(reduced, input) /\ Len(Data(reduced, input)) \in Nat
  BY <1>1, <1>3, <1>4, OutputBegins DEF Output
<1>6. Justified(reduced, input, Len(input), status)
  BY DEF Decoding
<1>7. "INPUT_TOO_SHORT" \in status \/ reduced \/ Blocks(input).end = Len(input)
  BY DEF Whole
<1>8. "OUT_BUFFER_OVERFLOW" \notin status /\ Len(Data(reduced, input)) <= Len(dst)
  BY <1>2, <1>3 DEF Overflown
<1>9. Decoded(reduced, input, Len(dst), status, Output')
  BY <1>2, <1>5, <1>6, <1>7, <1>8, Complete
<1>10. Len(input) <= Len(input)
  BY <1>2
<1>11. DecodesExactly' /\ ErrorsAreTrue'
  BY <1>2, <1>6, <1>9, <1>10, Concludes
<1> QED BY <1>1, <1>11 DEF Means

\* The actions a call returns from: without a buffer it does nothing.
LEMMA RejectNullMeans == ASSUME IInv, Means, RejectNull PROVE Means'
<1>1. pc' = "done" /\ null' /\ status' = {"NULL_POINTER"}
  BY DEF RejectNull
<1>2. DecodesExactly'
  BY <1>1 DEF DecodesExactly
<1>3. ErrorsAreTrue'
  BY <1>1 DEF ErrorsAreTrue
<1> QED BY <1>1, <1>2, <1>3 DEF Means

\* No string has no data, and the first code is that of all blocks.
LEMMA StartMeans == ASSUME IInv, Means, Start PROVE Means'
<1>1. /\ pc = "call" /\ ~null /\ pc' = IF src = <<>> THEN "done" ELSE "code"
      /\ UNCHANGED <<reduced, null, input, dst, src_read_ptr, dst_write_ptr, i, status,
                     out_len>>
  BY DEF Start
<1>2. src_read_ptr = 0 /\ dst_write_ptr = 0 /\ i = 0 /\ out_len = 0 /\ status = {}
  BY <1>1 DEF Means, Untouched
<1>3. /\ input \in Seq(Byte) /\ src \in Seq(Byte) /\ Len(src) = Len(input)
      /\ reduced \in BOOLEAN /\ Len(dst) \in Nat
  BY State
<1>4. ~Overflown /\ Justified(reduced, input, 0, status)
  BY <1>2 DEF Overflown, Justified
<1>5. CASE src = <<>>
  <2>1. input = <<>>
    BY <1>3, <1>5
  <2>2. Blocks(input).end = 0 /\ Blocks(input).data = <<>> /\ Len(input) = 0
    BY <2>1 DEF Blocks
  <2>3. Data(reduced, input) = <<>>
    BY <2>2 DEF Data, Meaning, ReducedMeaning
  <2>4. Output' = <<>>
    BY <1>1, <1>2 DEF Output
  <2>5. Justified(reduced, input, Len(input), status)
    BY <1>4, <2>2
  <2>6. Decoded(reduced, input, Len(dst), status, Output')
    <3>1. Len(Data(reduced, input)) = 0
      BY <2>3
    <3>2. Len(Data(reduced, input)) \in Nat /\ Len(Data(reduced, input)) <= Len(dst)
      BY <1>3, <3>1
    <3> QED BY <1>3, <1>4, <2>2, <2>3, <2>4, <2>5, <3>2, Complete DEF Overflown
  <2>7. Len(input) \in Nat /\ Len(input) <= Len(input)
    BY <2>2
  <2>8. DecodesExactly' /\ ErrorsAreTrue'
    BY <1>1, <2>5, <2>6, <2>7, Concludes
  <2> QED BY <1>1, <1>5, <2>8 DEF Means
<1>6. CASE src # <<>>
  <2>1. input # <<>>
    BY <1>3, <1>6
  <2>2. StandsAt(input, 0, 0)
    BY <1>3, <2>1, StandsAtStart
  <2>3. 0 <= Len(Blocks(input).data)
    BY <1>3, MeaningBytes
  <2>4. Ahead(input, 0, 0, 0)
    BY <2>3, AheadNone
  <2>5. Copied'
    BY <1>1, <1>2, <2>3 DEF Copied, Whole
  <2>6. ~Overflown' /\ Stands'
    BY <1>1, <1>2, <1>4, <1>6, <2>2 DEF Stands, Overflown
  <2>7. Decoding'
    BY <1>1, <1>2, <1>4, <1>6, <2>1, <2>4, <2>5, <2>6 DEF Decoding
  <2> QED BY <1>1, <1>6, <2>7 DEF Means
<1> QED BY <1>5, <1>6

\* A zero where a code is due.
LEMMA ReadZeroCodeMeans == ASSUME IInv, Means, ReadZeroCode PROVE Means'
<1>1. /\ pc = "code" /\ Read(0) /\ status' = status \cup {"ZERO_BYTE_IN_INPUT"}
      /\ pc' = "done"
      /\ UNCHANGED <<reduced, null, input, dst>>
  BY DEF ReadZeroCode, Return
<1>2. /\ src_read_ptr \in 0 .. Len(input) - 1 /\ 0 = input[src_read_ptr + 1]
      /\ Justified(reduced, input, src_read_ptr, status)
  BY <1>1, AtCode
<1>3. /\ src_read_ptr \in Nat /\ src_read_ptr + 1 \in 0 .. Len(input)
      /\ reduced \in BOOLEAN /\ input \in Seq(Byte) /\ Len(input) \in Nat
  BY <1>2, State
<1>4. Justified(reduced, input, src_read_ptr + 1, status')
  <2> DEFINE flags == {"ZERO_BYTE_IN_INPUT"}
  <2>1. flags \in SUBSET {"OUT_BUFFER_OVERFLOW", "ZERO_BYTE_IN_INPUT", "INPUT_TOO_SHORT"}
        /\ "ZERO_BYTE_IN_INPUT" \in flags /\ "INPUT_TOO_SHORT" \notin flags
    OBVIOUS
  <2>2. status' = status \cup flags
    BY <1>1
  <2> HIDE DEF flags
  <2> QED BY <1>2, <1>3, <2>1, <2>2, JustifiedRead
<1>5. Decoded(reduced, input, Len(dst), status', Output')
  BY <1>1, <1>3, <1>4, Refused
<1>6. src_read_ptr + 1 \in Nat /\ src_read_ptr + 1 <= Len(input)
  BY <1>3
<1>7. DecodesExactly' /\ ErrorsAreTrue'
  BY <1>1, <1>3, <1>4, <1>5, <1>6, Concludes
<1> QED BY <1>1, <1>7 DEF Means

\* A loop ends that wrote until there was no room.
LEMMA CutOffReturns ==
  ASSUME IInv, Decoding, UNCHANGED <<reduced, null, input, dst>>,
         Return(dst_write_ptr), i = 0, Overflown, status' = status \cup {"OUT_BUFFER_OVERFLOW"}
  PROVE  Means'
<1>1. CutOff /\ Justified(reduced, input, src_read_ptr, status)
  BY DEF Decoding
<1>2. dst_write_ptr = Len(dst) /\ Len(Whole.data) > Len(dst)
  BY <1>1, State DEF CutOff
<1>3. Len(Data(reduced, input)) \in Nat /\ Len(Data(reduced, input)) >= Len(Whole.data)
  BY OutputBegins
<1>4. Len(Data(reduced, input)) > Len(dst)
  BY <1>2, <1>3, State
<1>5. Justified(reduced, input, src_read_ptr, status')
  BY <1>1, JustifiedOverflow
<1>6. "OUT_BUFFER_OVERFLOW" \in status'
  OBVIOUS
<1> QED BY <1>2, <1>4, <1>5, <1>6, ReturnsFull

\* The input ends behind a block of cobs_decode().
LEMMA InputEndsMeans == ASSUME IInv, Means, InputEnds PROVE Means'
<1>1. /\ pc = "copy" /\ i = 0 /\ InputExhausted /\ Return(dst_write_ptr)
      /\ UNCHANGED <<reduced, null, input, dst, src_read_ptr, dst_write_ptr, status>>
  BY DEF InputEnds
<1>2. Decoding
  BY <1>1 DEF Means
<1>3. ~reduced /\ src_read_ptr = Len(input)
  BY <1>1, State DEF InputExhausted
<1>4. CASE Overflown
  <2>1. status' = status \cup {"OUT_BUFFER_OVERFLOW"}
    BY <1>1, <1>4 DEF Overflown
  <2> QED BY <1>1, <1>2, <1>4, <2>1, CutOffReturns
<1>5. CASE ~Overflown
  <2>1. Stands
    BY <1>2, <1>5 DEF Decoding
  <2>2. ~(src_read_ptr + i < Len(input))
    BY <1>1, <1>3, State
  <2>3. LastOne /\ ("INPUT_TOO_SHORT" \notin status => Whole.end = Len(input))
    BY <1>1, <2>1, <2>2 DEF Stands
  <2>4. dst_write_ptr = Len(Whole.data)
    BY <1>1, <2>3, State DEF LastOne, ToTheEnd, Whole
  <2> QED BY <1>1, <1>2, <1>3, <1>5, <2>3, <2>4, ReturnsAll
<1> QED BY <1>4, <1>5

\* There is no room for the zero behind a block.
LEMMA ZeroOverflowMeans == ASSUME IInv, Means, ZeroOverflow PROVE Means'
<1>1. /\ pc = "copy" /\ i = 0 /\ ~InputExhausted /\ ~NoZeroFollows /\ Return(dst_write_ptr)
      /\ status' = status \cup {"OUT_BUFFER_OVERFLOW"}
      /\ UNCHANGED <<reduced, null, input, dst, src_read_ptr, dst_write_ptr>>
  BY DEF ZeroOverflow
<1>2. Decoding
  BY <1>1, AtBlockEnd
<1>3. CASE Overflown
  BY <1>1, <1>2, <1>3, CutOffReturns
<1>4. CASE ~Overflown
  <2>1. dst_write_ptr + 1 <= Len(Whole.data)
    BY <1>1, <1>4, AtBlockEnd
  <2>2. dst_write_ptr = Len(dst)
    BY State DEF ZeroOverflow, NoRoomForZero
  <2>3. Len(Data(reduced, input)) \in Nat /\ Len(Data(reduced, input)) >= Len(Whole.data)
    BY <1>2, OutputBegins
  <2>4. Len(Data(reduced, input)) > Len(dst)
    BY <2>1, <2>2, <2>3, State
  <2>5. Justified(reduced, input, src_read_ptr, status')
    BY <1>1, <1>2, JustifiedOverflow DEF Decoding
  <2>6. "OUT_BUFFER_OVERFLOW" \in status'
    BY <1>1
  <2> QED BY <1>1, <1>2, <2>2, <2>4, <2>5, <2>6, ReturnsFull
<1> QED BY <1>3, <1>4

\* The last block of cobsr_decode() ends with the string.
LEMMA LastEndsMeans == ASSUME IInv, Means, LastEnds PROVE Means'
<1>1. /\ pc = "last" /\ i = 0 /\ Return(dst_write_ptr)
      /\ UNCHANGED <<reduced, null, input, dst, src_read_ptr, dst_write_ptr, status>>
  BY DEF LastEnds
<1>2. Decoding
  BY <1>1 DEF Means
<1>3. reduced
  BY <1>1 DEF IInv, Pointers
<1>4. CASE Overflown
  <2>1. status' = status \cup {"OUT_BUFFER_OVERFLOW"}
    BY <1>1, <1>4 DEF Overflown
  <2> QED BY <1>1, <1>2, <1>4, <2>1, CutOffReturns
<1>5. CASE ~Overflown
  <2>1. LastOne /\ Whole.end = Len(input)
    BY <1>1, <1>2, <1>5 DEF Decoding, Stands
  <2>2. src_read_ptr = Len(input) /\ dst_write_ptr = Len(Whole.data)
    BY <1>1, <2>1, State DEF LastOne, ToTheEnd, Whole
  <2> QED BY <1>1, <1>2, <1>3, <1>5, <2>1, <2>2, ReturnsAll
<1> QED BY <1>4, <1>5

\* A code that promises more than there is adds itself to the data.
LEMMA FinalData ==
  ASSUME IInv, Means, pc = "final", i = 0, ~Overflown
  PROVE  /\ Decoding /\ reduced
         /\ src_read_ptr = Len(input) /\ dst_write_ptr = Len(Whole.data)
         /\ len_code \in Byte
         /\ Data(reduced, input) = Append(Whole.data, len_code)
         /\ Len(Data(reduced, input)) = dst_write_ptr + 1
<1>1. Decoding
  BY DEF Means
<1>2. reduced
  BY DEF IInv, Pointers
<1>3. LastOne /\ Whole.end > Len(input) /\ Whole.code = len_code
  BY <1>1 DEF Decoding, Stands
<1>4. src_read_ptr = Len(input) /\ dst_write_ptr = Len(Whole.data)
  BY <1>3, State DEF LastOne, ToTheEnd, Whole
<1>5. Data(reduced, input) = Append(Whole.data, len_code)
  BY <1>2, <1>3 DEF Data, ReducedMeaning, Whole
<1>6. len_code \in Byte
  BY DEF IInv, TypeOK
<1>7. Len(Append(Whole.data, len_code)) = Len(Whole.data) + 1
  BY <1>6, State, AppendProperties
<1> QED BY <1>1, <1>2, <1>4, <1>5, <1>6, <1>7

\* There is no room for it.
LEMMA FinalByteOverflowMeans == ASSUME IInv, Means, FinalByteOverflow PROVE Means'
<1>1. /\ pc = "final" /\ i = 0 /\ dst_write_ptr >= Len(dst) /\ Return(dst_write_ptr)
      /\ status' = status \cup {"OUT_BUFFER_OVERFLOW"}
      /\ UNCHANGED <<reduced, null, input, dst, src_read_ptr, dst_write_ptr>>
  BY DEF FinalByteOverflow
<1>2. Decoding
  BY <1>1 DEF Means
<1>3. CASE Overflown
  BY <1>1, <1>2, <1>3, CutOffReturns
<1>4. CASE ~Overflown
  <2>1. dst_write_ptr = Len(dst)
    BY <1>1, State
  <2>2. Len(Data(reduced, input)) = dst_write_ptr + 1
    BY <1>1, <1>4, FinalData
  <2>3. Len(Data(reduced, input)) > Len(dst)
    BY <2>1, <2>2, State
  <2>4. Justified(reduced, input, src_read_ptr, status')
    BY <1>1, <1>2, JustifiedOverflow DEF Decoding
  <2>5. "OUT_BUFFER_OVERFLOW" \in status'
    BY <1>1
  <2> QED BY <1>1, <1>2, <2>1, <2>3, <2>4, <2>5, ReturnsFull
<1> QED BY <1>3, <1>4

\* There is.
LEMMA FinalByteMeans == ASSUME IInv, Means, FinalByte PROVE Means'
<1>1. /\ pc = "final" /\ i = 0 /\ dst_write_ptr < Len(dst) /\ Write(len_code)
      /\ pc' = "done" /\ out_len' = dst_write_ptr + 1
      /\ UNCHANGED <<reduced, null, input, src_read_ptr, status>>
  BY DEF FinalByte, Return
<1>2. ~Overflown
  <2> SUFFICES ASSUME Overflown PROVE FALSE
    OBVIOUS
  <2>1. dst_write_ptr + i = Len(dst)
    BY <1>1 DEF Means, Decoding, CutOff
  <2> QED BY <1>1, <2>1, State
<1>3. /\ Decoding /\ reduced
      /\ src_read_ptr = Len(input) /\ dst_write_ptr = Len(Whole.data)
      /\ len_code \in Byte
      /\ Data(reduced, input) = Append(Whole.data, len_code)
      /\ Len(Data(reduced, input)) = dst_write_ptr + 1
  BY <1>1, <1>2, FinalData
<1>4. /\ input \in Seq(Byte) /\ Len(input) \in Nat /\ reduced \in BOOLEAN
      /\ dst \in Seq(Byte \cup {Unwritten}) /\ Len(dst) \in Nat /\ dst_write_ptr \in Nat
      /\ Whole.data \in Seq(Byte)
  BY State
<1>5. PICK all \in Seq(Byte) : all = Append(Whole.data, len_code)
  BY <1>3, <1>4, AppendProperties
<1>6. /\ Len(all) = dst_write_ptr + 1 /\ all[dst_write_ptr + 1] = len_code
      /\ \A n \in 1 .. dst_write_ptr : all[n] = Whole.data[n]
  BY <1>3, <1>4, <1>5, AppendProperties
<1>7. dst' = [dst EXCEPT ![dst_write_ptr + 1] = len_code]
  BY <1>1 DEF Write
<1>8. /\ dst' \in Seq(Byte \cup {Unwritten}) /\ Len(dst') = Len(dst)
      /\ \A n \in 1 .. Len(dst) : n # dst_write_ptr + 1 => dst'[n] = dst[n]
  <2>1. len_code \in Byte \cup {Unwritten}
    BY <1>3
  <2> QED BY <1>1, <1>4, <1>7, <2>1, Overwritten
<1>9. dst'[dst_write_ptr + 1] = len_code
  <2>1. dst_write_ptr + 1 \in 1 .. Len(dst)
    BY <1>1, <1>4
  <2> QED BY <1>4, <1>7, <2>1
<1>10. ASSUME NEW n \in 1 .. dst_write_ptr + 1 PROVE dst'[n] = all[n]
  <2>1. CASE n = dst_write_ptr + 1
    BY <1>6, <1>9, <2>1
  <2>2. CASE n # dst_write_ptr + 1
    <3>1. n \in 1 .. dst_write_ptr /\ n \in 1 .. Len(dst)
      BY <1>1, <1>4, <2>2
    <3>2. dst[n] = Whole.data[n]
      BY <1>3, <3>1 DEF Decoding, Copied
    <3> QED BY <1>6, <1>8, <2>2, <3>1, <3>2
  <2> QED BY <2>1, <2>2
<1>11. Output' = Data(reduced, input)
  <2>1. /\ dst_write_ptr + 1 \in Nat /\ dst_write_ptr + 1 <= Len(dst')
        /\ dst_write_ptr + 1 <= Len(all)
    BY <1>1, <1>4, <1>6, <1>8
  <2>2. SubSeq(dst', 1, dst_write_ptr + 1) = SubSeq(all, 1, dst_write_ptr + 1)
    BY <1>8, <1>10, <2>1, SameBeginning
  <2>3. SubSeq(all, 1, dst_write_ptr + 1) = all
    BY <1>6, AllOf
  <2> QED BY <1>1, <1>3, <1>5, <2>2, <2>3 DEF Output
<1>12. Justified(reduced, input, Len(input), status)
  BY <1>3 DEF Decoding
<1>13. Decoded(reduced, input, Len(dst'), status, Output')
  <2>1. Len(dst') \in Nat /\ dst_write_ptr + 1 \in Nat /\ dst_write_ptr + 1 <= Len(dst')
    BY <1>1, <1>4, <1>8
  <2>2. Len(Data(reduced, input)) \in Nat /\ Len(Data(reduced, input)) <= Len(dst')
    BY <1>3, <2>1
  <2>3. "OUT_BUFFER_OVERFLOW" \notin status
    BY <1>2 DEF Overflown
  <2> QED BY <1>3, <1>4, <1>11, <1>12, <2>1, <2>2, <2>3, Complete
<1>14. Len(input) <= Len(input)
  BY <1>4
<1>15. DecodesExactly' /\ ErrorsAreTrue'
  BY <1>1, <1>4, <1>12, <1>13, <1>14, Concludes
<1> QED BY <1>1, <1>15 DEF Means

-----------------------------------------------------------------------------
\* All of it together is inductive.
LEMMA MeansInvariant == Spec => [](IInv /\ Means)
<1>1. Init => Means
  BY DEF Init, Means, Untouched
<1>2. IInv /\ Means /\ [Next]_vars => Means'
  <2> SUFFICES ASSUME IInv, Means, [Next]_vars PROVE Means'
    OBVIOUS
  <2>1. CASE RejectNull
    BY <2>1, RejectNullMeans
  <2>2. CASE Start
    BY <2>2, StartMeans
  <2>3. CASE ReadZeroCode
    BY <2>3, ReadZeroCodeMeans
  <2>4. CASE ReadCode
    BY <2>4, ReadCodeMeans
  <2>5. CASE CopyByte
    BY <2>5, CopyByteMeans
  <2>6. CASE EndBlock
    BY <2>6, InputEndsMeans, FullBlockMeans, ZeroOverflowMeans, AddZeroMeans DEF EndBlock
  <2>7. CASE ReducedBlock
    BY <2>7, ReadInnerCodeMeans, ReadLastCodeMeans, LastEndsMeans, FinalByteOverflowMeans,
       FinalByteMeans DEF ReducedBlock
  <2>8. CASE UNCHANGED vars
    <3>1. DecodesExactly' <=> DecodesExactly
      BY <2>8 DEF vars, DecodesExactly, Output
    <3>2. ErrorsAreTrue' <=> ErrorsAreTrue
      BY <2>8 DEF vars, ErrorsAreTrue
    <3>3. Untouched' <=> Untouched
      BY <2>8 DEF vars, Untouched
    <3>4. Decoding' <=> Decoding
      BY <2>8 DEF vars, Decoding, Copied, CutOff, Stands, LastOne, Overflown, NoZeroFollows,
         Whole
    <3> QED BY <2>8, <3>1, <3>2, <3>3, <3>4 DEF vars, Means
  <2> QED BY <2>1, <2>2, <2>3, <2>4, <2>5, <2>6, <2>7, <2>8 DEF Next
<1> QED BY <1>1, <1>2, InductiveInvariant, PTL DEF Spec

\* For every string, well-formed or not, in any buffers: OK is returned exactly for the
\* well-formed strings whose data fits, with that data, and when it does not fit, that is
\* reported, with as much of the data as fits.
THEOREM DecodesWhatItMeans == Spec => []DecodesExactly
<1>1. IInv /\ Means => DecodesExactly
  BY DEF Means, DecodesExactly
<1> QED BY <1>1, MeansInvariant, PTL

\* Every reported zero is in the string, and a short input is only reported for a string
\* that is not well-formed.
THEOREM ReportsTrueErrors == Spec => []ErrorsAreTrue
<1>1. IInv /\ Means => ErrorsAreTrue
  BY DEF Means, ErrorsAreTrue
<1> QED BY <1>1, MeansInvariant, PTL
=============================================================================
