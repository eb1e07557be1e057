----------------------------- MODULE CobsEncode -----------------------------
(***************************************************************************)
(* lib/cobs-c-0.5.0/cobs.c and cobsr.c: cobs_encode() and cobsr_encode().  *)
(*                                                                         *)
(* One call, from the null check to the return, one action per iteration   *)
(* of its loop.  The two functions are the same up to the end of the loop  *)
(* and differ in how they write the last code.  Pointers are offsets into  *)
(* their buffers; stray records that some access left its buffer.          *)
(***************************************************************************)
EXTENDS Cobs

CONSTANTS
  Sources,   \* the byte strings to encode
  DstLens    \* the values of dst_buf_len

ASSUME SourcesAssumption == Sources \subseteq Seq(Byte)
ASSUME DstLensAssumption == DstLens \subseteq Nat

VARIABLES
  reduced,             \* the call is one of cobsr_encode()
  null,                \* one of the two pointers is NULL
  src, dst,            \* the two buffers
  src_read_ptr,
  dst_code_write_ptr,  \* where the code of the block in progress will go
  dst_write_ptr,
  src_byte,
  search_len,          \* the code of the block in progress
  status, out_len,     \* the result
  pc,
  stray                \* history: an access left its buffer

vars == <<reduced, null, src, dst, src_read_ptr, dst_code_write_ptr, dst_write_ptr,
          src_byte, search_len, status, out_len, pc, stray>>

Init ==
  /\ reduced \in BOOLEAN
  /\ null \in BOOLEAN
  /\ src \in Sources
  /\ \E n \in DstLens : dst = [j \in 1 .. n |-> Unwritten]
  /\ src_read_ptr = 0
  /\ dst_code_write_ptr = 0
  /\ dst_write_ptr = 1
  /\ src_byte = 0
  /\ search_len = 1
  /\ status = {}
  /\ out_len = 0
  /\ pc = "call"
  /\ stray = FALSE

-----------------------------------------------------------------------------
RejectNull ==
  /\ pc = "call"
  /\ null
  /\ status' = {"NULL_POINTER"}
  /\ pc' = "done"
  /\ UNCHANGED <<reduced, null, src, dst, src_read_ptr, dst_code_write_ptr, dst_write_ptr,
                 src_byte, search_len, out_len, stray>>

Start ==
  /\ pc = "call"
  /\ ~null
  /\ pc' = IF src = <<>> THEN "finish" ELSE "loop"
  /\ UNCHANGED <<reduced, null, src, dst, src_read_ptr, dst_code_write_ptr, dst_write_ptr,
                 src_byte, search_len, status, out_len, stray>>

\* Mutant of OutOfSpace: the pointer behind the buffer passes for a place in it.
OutOfSpaceLate == dst_write_ptr > Len(dst)

\* "Check for running out of output buffer space"
OutOfSpace == dst_write_ptr >= Len(dst)

\* Mutant of Overflow: the break is missing.
OverflowNoBreak ==
  /\ pc = "loop"
  /\ OutOfSpace
  /\ status' = status \cup {"OUT_BUFFER_OVERFLOW"}
  /\ UNCHANGED <<reduced, null, src, dst, src_read_ptr, dst_code_write_ptr, dst_write_ptr,
                 src_byte, search_len, out_len, pc, stray>>

Overflow ==
  /\ pc = "loop"
  /\ OutOfSpace
  /\ status' = status \cup {"OUT_BUFFER_OVERFLOW"}
  /\ pc' = "finish"
  /\ UNCHANGED <<reduced, null, src, dst, src_read_ptr, dst_code_write_ptr, dst_write_ptr,
                 src_byte, search_len, out_len, stray>>

\* src_byte = *src_read_ptr++; a read behind the source returns anything.
Read(b) ==
  /\ pc = "loop"
  /\ ~OutOfSpace
  /\ b \in IF src_read_ptr < Len(src) THEN {src[src_read_ptr + 1]} ELSE Byte
  /\ src_byte' = b
  /\ src_read_ptr' = src_read_ptr + 1
  /\ pc' = IF src_read_ptr + 1 >= Len(src) THEN "finish" ELSE "loop"

\* "We found a zero byte": the block in progress ends, the next one begins.
EncodeZero ==
  /\ Read(0)
  /\ dst' = [dst EXCEPT ![dst_code_write_ptr + 1] = search_len]
  /\ stray' = (stray \/ src_read_ptr >= Len(src) \/ dst_code_write_ptr >= Len(dst))
  /\ dst_code_write_ptr' = dst_write_ptr
  /\ dst_write_ptr' = dst_write_ptr + 1
  /\ search_len' = 1
  /\ UNCHANGED <<reduced, null, src, status, out_len>>

\* Mutant of BlockFull: a block that ends with the source is closed as well.
BlockFullAtEnd == search_len + 1 = MaxCode

\* "We have a long string of non-zero bytes": tested only when bytes are left.
BlockFull == search_len + 1 = MaxCode /\ src_read_ptr + 1 < Len(src)

\* Mutant of SearchLenAfterByte: it is not reset when a block is full.
SearchLenNotReset == (search_len + 1) % (MaxCode + 1)

SearchLenAfterByte == IF BlockFull THEN 1 ELSE (search_len + 1) % (MaxCode + 1)

\* A byte is copied; a full block is closed in the same iteration.
EncodeNonZero ==
  /\ \E b \in Byte \ {0} :
       /\ Read(b)
       /\ dst' = IF BlockFull
                 THEN [dst EXCEPT ![dst_write_ptr + 1] = b,
                                  ![dst_code_write_ptr + 1] = search_len + 1]
                 ELSE [dst EXCEPT ![dst_write_ptr + 1] = b]
  /\ stray' = (stray \/ src_read_ptr >= Len(src) \/ dst_write_ptr >= Len(dst)
                     \/ (BlockFull /\ dst_code_write_ptr >= Len(dst)))
  /\ dst_code_write_ptr' = IF BlockFull THEN dst_write_ptr + 1 ELSE dst_code_write_ptr
  /\ dst_write_ptr' = IF BlockFull THEN dst_write_ptr + 2 ELSE dst_write_ptr + 1
  /\ search_len' = SearchLenAfterByte
  /\ UNCHANGED <<reduced, null, src, status, out_len>>

\* Mutant of NoRoomForCode: the write pointer is not taken back to the end.
NoRoomNotTakenBack ==
  /\ pc = "finish"
  /\ dst_code_write_ptr >= Len(dst)
  /\ status' = status \cup {"OUT_BUFFER_OVERFLOW"}
  /\ out_len' = dst_write_ptr
  /\ pc' = "done"
  /\ UNCHANGED <<reduced, null, src, dst, src_read_ptr, dst_code_write_ptr, dst_write_ptr,
                 src_byte, search_len, stray>>

\* "We've run out of output buffer to write the code byte."
NoRoomForCode ==
  /\ pc = "finish"
  /\ dst_code_write_ptr >= Len(dst)
  /\ status' = status \cup {"OUT_BUFFER_OVERFLOW"}
  /\ dst_write_ptr' = Len(dst)
  /\ out_len' = Len(dst)
  /\ pc' = "done"
  /\ UNCHANGED <<reduced, null, src, dst, src_read_ptr, dst_code_write_ptr, src_byte,
                 search_len, stray>>

\* Mutant of SameAsPlain: the byte is compared with the number of bytes.
SameAsPlainByCount == reduced => src_byte < search_len - 1

\* "Encoding same as plain COBS"
SameAsPlain == reduced => src_byte < search_len

\* "Write the last code (length) byte."
WriteLastCode ==
  /\ pc = "finish"
  /\ dst_code_write_ptr < Len(dst)
  /\ SameAsPlain
  /\ dst' = [dst EXCEPT ![dst_code_write_ptr + 1] = search_len]
  /\ out_len' = dst_write_ptr
  /\ pc' = "done"
  /\ UNCHANGED <<reduced, null, src, src_read_ptr, dst_code_write_ptr, dst_write_ptr,
                 src_byte, search_len, status, stray>>

\* "length code is final byte, and final byte is removed from data sequence"
WriteLastByteAsCode ==
  /\ pc = "finish"
  /\ dst_code_write_ptr < Len(dst)
  /\ ~SameAsPlain
  /\ dst' = [dst EXCEPT ![dst_code_write_ptr + 1] = src_byte]
  /\ dst_write_ptr' = dst_write_ptr - 1
  /\ out_len' = dst_write_ptr - 1
  /\ pc' = "done"
  /\ UNCHANGED <<reduced, null, src, src_read_ptr, dst_code_write_ptr, src_byte,
                 search_len, status, stray>>

Loop == Overflow \/ EncodeZero \/ EncodeNonZero

Finish == NoRoomForCode \/ WriteLastCode \/ WriteLastByteAsCode

Next == RejectNull \/ Start \/ Loop \/ Finish

Spec == Init /\ [][Next]_vars /\ WF_vars(Next)

-----------------------------------------------------------------------------
Output == SubSeq(dst, 1, out_len)

Overflown == "OUT_BUFFER_OVERFLOW" \in status

\* Types.  The write pointer may point just behind the place of a code byte that
\* itself no longer fits.
TypeOK ==
  /\ reduced \in BOOLEAN
  /\ null \in BOOLEAN
  /\ src \in Seq(Byte)
  /\ dst \in Seq(Byte \cup {Unwritten})
  /\ src_read_ptr \in Nat
  /\ dst_code_write_ptr \in Nat
  /\ dst_write_ptr \in 0 .. Len(dst) + 1
  /\ src_byte \in Byte
  /\ search_len \in 1 .. MaxCode
  /\ status \subseteq {"NULL_POINTER", "OUT_BUFFER_OVERFLOW"}
  /\ out_len \in 0 .. Len(dst)
  /\ pc \in {"call", "loop", "finish", "done"}
  /\ stray \in BOOLEAN

\* "Check that the function never writes bytes past the end of the buffer", and
\* that it reads nothing behind the source, for every size of both buffers: the
\* code byte is written long after its place was reserved.
InBounds == ~stray

\* The encoded packet is "guaranteed to generate packets with bytes only in the
\* range 0x01 to 0xFF": a zero, or a place reserved for a code and never filled,
\* would break the framing.  It holds for the cut-off output of an overflow too.
NoZeroByte ==
  pc = "done" => \A n \in 1 .. out_len : dst[n] \in Byte \ {0}

\* On an overflow cobs_encode() has filled the buffer, and it writes nothing behind
\* what its result claims: both are "nice-to-have" in test_encode_output_overflow,
\* which leaves them out for cobsr_encode().
OutputExact ==
  pc = "done" /\ ~reduced =>
    /\ Overflown => out_len = Len(dst)
    /\ \A n \in out_len + 1 .. Len(dst) : dst[n] = Unwritten

\* A buffer of the size the header computes is always large enough for a source
\* that is not empty: a block boundary off by one would need one byte more.
SizeMaxSuffices ==
  /\ pc = "done"
  /\ src # <<>>
  /\ Len(dst) >= ENCODE_DST_BUF_LEN_MAX(Len(src))
  => ~Overflown

\* The same for every source, the empty one included, as the sanity check of
\* test_encode_output_overflow has it ("the expected encode string length is not
\* bigger than the computed maximum").
SizeMaxAlwaysSuffices ==
  /\ pc = "done"
  /\ Len(dst) >= ENCODE_DST_BUF_LEN_MAX(Len(src))
  => ~Overflown

\* The output means the source, in the reading of its own variant.  After an overflow
\* it is still a well-formed string and means a beginning of the source; what
\* cobs_encode() leaves then lacks some of it.
ReadsBack ==
  pc = "done" /\ ~null =>
    LET meaning == IF reduced THEN ReducedMeaning(Output) ELSE Meaning(Output)
    IN  /\ IF reduced THEN ReducedWellFormed(Output) ELSE WellFormed(Output)
        /\ IF Overflown
           THEN StartsWith(src, meaning) /\ (~reduced /\ src # <<>> => meaning # src)
           ELSE meaning = src

\* Every call returns: each iteration of for (;;) reads a byte or leaves the loop.
Terminates == <>(pc = "done")
=============================================================================
