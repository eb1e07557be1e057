----------------------------- MODULE CobsDecode -----------------------------
(***************************************************************************)
(* lib/cobs-c-0.5.0/cobs.c and cobsr.c: cobs_decode() and cobsr_decode().  *)
(*                                                                         *)
(* In COBS/R a length code that reaches the end of the input begins the    *)
(* last block, and one that reaches behind it is the last byte of the      *)
(* data.  cobsr_decode() keeps len_code as it was read, also when it       *)
(* copies fewer bytes, where cobs_decode() cuts it.                        *)
(*                                                                         *)
(* One call on any bytes, one action per code byte and one per copied      *)
(* byte.  The caller may pass one buffer as source and destination, as     *)
(* test_decode_single_buffer does: every write then changes the source.    *)
(***************************************************************************)
EXTENDS Cobs

CONSTANTS
  Strings,   \* the byte strings to decode, well-formed or not
  DstLens    \* the values of dst_buf_len, when the buffers are two

ASSUME StringsAssumption == Strings \subseteq Seq(Byte)
ASSUME DstLensAssumption == DstLens \subseteq Nat

VARIABLES
  reduced,         \* the call is one of cobsr_decode()
  null,            \* one of the two pointers is NULL
  single,          \* the two buffers are one
  input,           \* history: what src held when the call began
  src, dst,        \* the two buffers
  src_read_ptr, dst_write_ptr,
  len_code,
  i,               \* bytes of the block still to be copied
  status, out_len, \* the result
  pc,
  stray            \* history: an access left its buffer

vars == <<reduced, null, single, input, src, dst, src_read_ptr, dst_write_ptr, len_code, i,
          status, out_len, pc, stray>>

\* Mutant of Init: room is left for a code byte, as the encoder does.
InitBehindCode ==
  /\ reduced \in BOOLEAN
  /\ null \in BOOLEAN
  /\ single \in BOOLEAN
  /\ input \in Strings
  /\ src = input
  /\ IF single THEN dst = input ELSE \E n \in DstLens : dst = [j \in 1 .. n |-> Unwritten]
  /\ src_read_ptr = 0
  /\ dst_write_ptr = 1
  /\ len_code = 0
  /\ i = 0
  /\ status = {}
  /\ out_len = 0
  /\ pc = "call"
  /\ stray = FALSE

Init ==
  /\ reduced \in BOOLEAN
  /\ null \in BOOLEAN
  /\ single \in BOOLEAN
  /\ input \in Strings
  /\ src = input
  /\ IF single THEN dst = input ELSE \E n \in DstLens : dst = [j \in 1 .. n |-> Unwritten]
  /\ src_read_ptr = 0
  /\ dst_write_ptr = 0
  /\ len_code = 0
  /\ i = 0
  /\ status = {}
  /\ out_len = 0
  /\ pc = "call"
  /\ stray = FALSE

-----------------------------------------------------------------------------
RejectNull ==
  /\ pc = "call"
  /\ null
  /\ status' = {"NULL_POINTER"}
  /\ pc' = "done"
  /\ UNCHANGED <<reduced, null, single, input, src, dst, src_read_ptr, dst_write_ptr,
                 len_code, i, out_len, stray>>

Start ==
  /\ pc = "call"
  /\ ~null
  /\ pc' = IF src = <<>> THEN "done" ELSE "code"
  /\ UNCHANGED <<reduced, null, single, input, src, dst, src_read_ptr, dst_write_ptr,
                 len_code, i, status, out_len, stray>>

\* *src_read_ptr++: a read behind the source returns anything.
Read(b) ==
  /\ b \in IF src_read_ptr < Len(src) THEN {src[src_read_ptr + 1]} ELSE Byte
  /\ src_read_ptr' = src_read_ptr + 1

\* *dst_write_ptr++ = b
Write(b) ==
  /\ dst' = [dst EXCEPT ![dst_write_ptr + 1] = b]
  /\ src' = IF single THEN [src EXCEPT ![dst_write_ptr + 1] = b] ELSE src
  /\ dst_write_ptr' = dst_write_ptr + 1

Return(len) ==
  /\ out_len' = len
  /\ pc' = "done"

ReadZeroCode ==
  /\ pc = "code"
  /\ Read(0)
  /\ status' = status \cup {"ZERO_BYTE_IN_INPUT"}
  /\ Return(dst_write_ptr)
  /\ stray' = (stray \/ src_read_ptr >= Len(src))
  /\ UNCHANGED <<reduced, null, single, input, src, dst, dst_write_ptr, len_code, i>>

\* Bytes of input behind the code byte being read, and bytes of output left.
InputLeft == Len(src) - (src_read_ptr + 1)

\* Mutant of OutputLeft: the last byte of the buffer is counted twice.
OutputLeftOneMore == Len(dst) - dst_write_ptr + 1

OutputLeft == Len(dst) - dst_write_ptr

Least(m, n) == IF m < n THEN m ELSE n

TooShort(b) == b - 1 > InputLeft

FlagIf(condition, flag) == IF condition THEN status \cup {flag} ELSE status

\* A length code, and how many bytes of output its block gets.
ReadBlock(b, bytes, code, at) ==
  /\ Read(b)
  /\ len_code' = code
  /\ i' = Least(bytes, OutputLeft)
  /\ pc' = at
  /\ stray' = (stray \/ src_read_ptr >= Len(src))
  /\ UNCHANGED <<reduced, null, single, input, src, dst, dst_write_ptr, out_len>>

\* The length code is cut to what is left of the input, then of the output.
ReadCode ==
  /\ pc = "code"
  /\ ~reduced
  /\ \E b \in Byte \ {0} :
       LET len == Least(b - 1, InputLeft)
       IN  /\ ReadBlock(b, len, Least(len, OutputLeft), "copy")
           /\ status' = FlagIf(TooShort(b), "INPUT_TOO_SHORT")
                          \cup FlagIf(len > OutputLeft, "OUT_BUFFER_OVERFLOW")

\* Mutant of MoreBlocks: a block that just ends the input counts as inner.
MoreBlocksAtEnd(b) == b - 1 <= InputLeft

MoreBlocks(b) == b - 1 < InputLeft

\* The same in cobsr_decode(), for a block that others follow.
ReadInnerCode ==
  /\ pc = "code"
  /\ reduced
  /\ \E b \in Byte \ {0} :
       /\ MoreBlocks(b)
       /\ ReadBlock(b, b - 1, b, "copy")
       /\ status' = FlagIf(b - 1 > OutputLeft, "OUT_BUFFER_OVERFLOW")

\* "We've reached the last length code, so write the remaining bytes"; "final" when
\* the code promises more than that.
ReadLastCode ==
  /\ pc = "code"
  /\ reduced
  /\ \E b \in Byte \ {0} :
       /\ ~MoreBlocks(b)
       /\ ReadBlock(b, InputLeft, b, IF b - 1 > InputLeft THEN "final" ELSE "last")
       /\ status' = FlagIf(InputLeft > OutputLeft, "OUT_BUFFER_OVERFLOW")

\* One iteration of for (i = len_code; i != 0; i--)
CopyByte ==
  /\ pc \in {"copy", "last", "final"}
  /\ i > 0
  /\ \E b \in Byte :
       /\ Read(b)
       /\ Write(b)
       /\ status' = FlagIf(b = 0, "ZERO_BYTE_IN_INPUT")
  /\ i' = i - 1
  /\ stray' = (stray \/ src_read_ptr >= Len(src) \/ dst_write_ptr >= Len(dst))
  /\ UNCHANGED <<reduced, null, single, input, len_code, out_len, pc>>

\* Mutant of InputExhausted: the pointer behind the input passes for a place in it.
InputExhaustedLate == ~reduced /\ src_read_ptr > Len(src)

\* cobsr_decode() does not ask after an inner block: it knows that bytes are left.
InputExhausted == ~reduced /\ src_read_ptr >= Len(src)

InputEnds ==
  /\ pc = "copy"
  /\ i = 0
  /\ InputExhausted
  /\ Return(dst_write_ptr)
  /\ UNCHANGED <<reduced, null, single, input, src, dst, src_read_ptr, dst_write_ptr,
                 len_code, i, status, stray>>

\* Mutant of NoZeroFollows: both compare the code as it was read.
NoZeroFollowsMaxCode == len_code = MaxCode

\* cobs_decode() has decremented the code by now.
NoZeroFollows == len_code = IF reduced THEN MaxCode ELSE MaxCode - 1

\* A block with the largest code is followed by the next block, not by a zero.
FullBlock ==
  /\ pc = "copy"
  /\ i = 0
  /\ ~InputExhausted
  /\ NoZeroFollows
  /\ pc' = "code"
  /\ UNCHANGED <<reduced, null, single, input, src, dst, src_read_ptr, dst_write_ptr,
                 len_code, i, status, out_len, stray>>

\* Mutant of NoRoomForZero: the pointer behind the buffer passes for a place in it.
NoRoomForZeroLate == dst_write_ptr > Len(dst)

NoRoomForZero == dst_write_ptr >= Len(dst)

\* Mutant of ZeroOverflow: it waits for room instead of leaving the loop.
ZeroWaits ==
  /\ pc = "copy"
  /\ i = 0
  /\ ~InputExhausted
  /\ ~NoZeroFollows
  /\ NoRoomForZero
  /\ status' = status \cup {"OUT_BUFFER_OVERFLOW"}
  /\ UNCHANGED <<reduced, null, single, input, src, dst, src_read_ptr, dst_write_ptr,
                 len_code, i, out_len, pc, stray>>

\* "Add a zero to the end", but there is no room for it.
ZeroOverflow ==
  /\ pc = "copy"
  /\ i = 0
  /\ ~InputExhausted
  /\ ~NoZeroFollows
  /\ NoRoomForZero
  /\ status' = status \cup {"OUT_BUFFER_OVERFLOW"}
  /\ Return(dst_write_ptr)
  /\ UNCHANGED <<reduced, null, single, input, src, dst, src_read_ptr, dst_write_ptr,
                 len_code, i, stray>>

AddZero ==
  /\ pc = "copy"
  /\ i = 0
  /\ ~InputExhausted
  /\ ~NoZeroFollows
  /\ ~NoRoomForZero
  /\ Write(0)
  /\ pc' = "code"
  /\ stray' = (stray \/ dst_write_ptr >= Len(dst))
  /\ UNCHANGED <<reduced, null, single, input, src_read_ptr, len_code, i, status, out_len>>

EndBlock == InputEnds \/ FullBlock \/ ZeroOverflow \/ AddZero

LastEnds ==
  /\ pc = "last"
  /\ i = 0
  /\ Return(dst_write_ptr)
  /\ UNCHANGED <<reduced, null, single, input, src, dst, src_read_ptr, dst_write_ptr,
                 len_code, i, status, stray>>

\* "Write final data byte, if applicable for COBS/R encoding."
FinalByteOverflow ==
  /\ pc = "final"
  /\ i = 0
  /\ dst_write_ptr >= Len(dst)
  /\ status' = status \cup {"OUT_BUFFER_OVERFLOW"}
  /\ Return(dst_write_ptr)
  /\ UNCHANGED <<reduced, null, single, input, src, dst, src_read_ptr, dst_write_ptr,
                 len_code, i, stray>>

FinalByte ==
  /\ pc = "final"
  /\ i = 0
  /\ dst_write_ptr < Len(dst)
  /\ Write(len_code)
  /\ Return(dst_write_ptr + 1)
  /\ UNCHANGED <<reduced, null, single, input, src_read_ptr, len_code, i, status, stray>>

ReducedBlock == ReadInnerCode \/ ReadLastCode \/ LastEnds \/ FinalByteOverflow \/ FinalByte

Next == RejectNull \/ Start \/ ReadZeroCode \/ ReadCode \/ CopyByte \/ EndBlock \/ ReducedBlock

Spec == Init /\ [][Next]_vars /\ WF_vars(Next)

-----------------------------------------------------------------------------
Output == SubSeq(dst, 1, out_len)

Overflown == "OUT_BUFFER_OVERFLOW" \in status

\* Types.
TypeOK ==
  /\ reduced \in BOOLEAN /\ null \in BOOLEAN /\ single \in BOOLEAN /\ stray \in BOOLEAN
  /\ input \in Seq(Byte)
  /\ src \in Seq(Byte) /\ Len(src) = Len(input)
  /\ dst \in Seq(Byte \cup {Unwritten})
  /\ src_read_ptr \in 0 .. Len(src)
  /\ dst_write_ptr \in 0 .. Len(dst)
  /\ len_code \in Byte
  /\ i \in 0 .. MaxCode - 1
  /\ status \subseteq {"NULL_POINTER", "OUT_BUFFER_OVERFLOW", "ZERO_BYTE_IN_INPUT",
                       "INPUT_TOO_SHORT"}
  /\ out_len \in 0 .. Len(dst)
  /\ pc \in {"call", "code", "copy", "last", "final", "done"}

\* "Check that the function never writes bytes past the end of the buffer", and
\* that it never reads past the end of the source, whatever the bytes claim.
InBounds == ~stray

\* Whatever the bytes are, the output of cobs_decode() is shorter than the input, and
\* that of cobsr_decode() no longer: a buffer of the size the headers compute is large
\* enough for bytes from an untrusted line.
NeverGrows ==
  dst_write_ptr <= IF reduced THEN REDUCED_DECODE_DST_BUF_LEN_MAX(Len(input))
                              ELSE DECODE_DST_BUF_LEN_MAX(Len(input))

\* In a single buffer the output never catches up with what is still to be read:
\* that part of the buffer is as it was when the call began.
UnreadIntact ==
  \A n \in src_read_ptr + 1 .. Len(src) : src[n] = input[n]

\* OK is returned for the strings that are well-formed and whose data fits, and the
\* output is that data.  When it does not fit, that is all that is reported, and the
\* output is as much of the data as fits.  A single buffer changes none of this.
DecodesExactly ==
  pc = "done" /\ ~null =>
    LET wellFormed == IF reduced THEN ReducedWellFormed(input) ELSE WellFormed(input)
        data == IF reduced THEN ReducedMeaning(input) ELSE Meaning(input)
    IN  /\ (status = {}) <=> (wellFormed /\ Len(data) <= Len(dst))
        /\ status = {} => Output = data
        /\ wellFormed /\ Len(data) > Len(dst) =>
             status = {"OUT_BUFFER_OVERFLOW"} /\ Output = SubSeq(data, 1, Len(dst))

\* A string may be refused for more than one reason, each of them true: a zero byte
\* is reported only when there is one, and a short input only for a string that is
\* not well-formed.
ErrorsAreTrue ==
  pc = "done" =>
    /\ "ZERO_BYTE_IN_INPUT" \in status => \E n \in 1 .. Len(input) : input[n] = 0
    /\ "INPUT_TOO_SHORT" \in status => ~WellFormed(input)

\* Every call returns, whatever the bytes are.
Terminates == <>(pc = "done")
=============================================================================
