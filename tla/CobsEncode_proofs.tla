------------------------- MODULE CobsEncode_proofs --------------------------
(***************************************************************************)
(* Whatever the source and however small the destination, the encoders     *)
(* stay inside both buffers and write no zero, a destination of the size   *)
(* the header computes is large enough, and the output means the source,   *)
(* or as much of it as fits.                                               *)
(*                                                                         *)
(* The reading of a string is a recursive function; the last part proves   *)
(* that it has the value its definition says, and then, block by block,    *)
(* what the bytes written so far mean.                                     *)
(***************************************************************************)
EXTENDS CobsEncode, SequenceTheorems, WellFoundedInduction, TLAPS

-----------------------------------------------------------------------------
\* Natural numbers.

\* Division with remainder.
LEMMA DivMod ==
  ASSUME NEW a \in Nat, NEW c \in Nat, c > 0
  PROVE  /\ a \div c \in Nat
         /\ a % c \in 0 .. c - 1
         /\ a = c * (a \div c) + (a % c)
  OBVIOUS

\* (n + c - 1) \div c is n / c, rounded up.
LEMMA Ceiling ==
  ASSUME NEW n \in Nat, NEW c \in Nat, c > 0,
         NEW t, t = (n + c - 1) \div c
  PROVE  /\ t \in Nat
         /\ n = 0 => t = 0
         /\ n <= t * c
         /\ t * c <= n + c - 1
<1> DEFINE m == n + c - 1
<1>1. /\ m \div c \in Nat
      /\ m % c \in 0 .. c - 1
      /\ m = c * (m \div c) + (m % c)
  BY DivMod
<1>2. t = m \div c OBVIOUS
<1> QED BY <1>1, <1>2

\* The multiples of a number in order.
LEMMA Multiples ==
  ASSUME NEW c \in Nat, NEW j \in Nat, NEW k \in Nat, j < k
  PROVE  /\ j * c \in Nat
         /\ (j + 1) * c = j * c + c
         /\ (j + 1) * c <= k * c
<1>1. PICK d \in Nat : k = j + 1 + d BY SMT
<1>2. k * c = (j + 1) * c + d * c BY <1>1, SMT
<1>3. d * c \in Nat BY SMT
<1> QED BY <1>2, <1>3, SMT

-----------------------------------------------------------------------------

\* Every byte that was read takes one of output, and every full block one more.
FullBlocks == dst_write_ptr - src_read_ptr - 1

\* Where the pointers are while the call is in progress.
Pointers ==
  /\ dst_write_ptr = dst_code_write_ptr + search_len
  /\ dst_code_write_ptr <= Len(dst)
  /\ dst_code_write_ptr < Len(dst) => dst_write_ptr <= Len(dst)
  /\ src_read_ptr <= Len(src)
  /\ FullBlocks \in Nat
  /\ (MaxCode - 1) * FullBlocks + search_len - 1 <= src_read_ptr

\* Behind the write pointer nothing was written, before it everything but the code.
Placed ==
  \A n \in 1 .. Len(dst) :
    IF n = dst_code_write_ptr + 1 \/ n > dst_write_ptr
    THEN dst[n] = Unwritten
    ELSE dst[n] \in Byte \ {0}

\* What is known at each place of the code.
Stages ==
  /\ pc = "call" =>
       /\ src_read_ptr = 0 /\ dst_code_write_ptr = 0 /\ search_len = 1
       /\ status = {} /\ out_len = 0
  /\ pc = "loop" => src_read_ptr < Len(src) /\ search_len < MaxCode /\ ~Overflown
  /\ pc = "finish" =>
       /\ Overflown => dst_write_ptr >= Len(dst)
       /\ ~Overflown /\ src # <<>> => dst_code_write_ptr < Len(dst)

\* Only a destination smaller than the header computes overflows.
TooSmall == Overflown /\ src # <<>> => Len(dst) < ENCODE_DST_BUF_LEN_MAX(Len(src))

IInv ==
  /\ TypeOK
  /\ InBounds
  /\ pc # "done" => Pointers /\ Placed
  /\ Stages
  /\ TooSmall
  /\ NoZeroByte
  /\ OutputExact

-----------------------------------------------------------------------------
\* One byte of a buffer is overwritten.
LEMMA Overwritten ==
  ASSUME NEW S, NEW s \in Seq(S), NEW p \in Nat, p < Len(s), NEW b \in S
  PROVE  /\ [s EXCEPT ![p + 1] = b] \in Seq(S)
         /\ Len([s EXCEPT ![p + 1] = b]) = Len(s)
         /\ \A n \in 1 .. Len(s) :
              [s EXCEPT ![p + 1] = b][n] = IF n = p + 1 THEN b ELSE s[n]
<1>1. p + 1 \in 1 .. Len(s) OBVIOUS
<1> QED BY <1>1, ExceptSeq

\* The codes that a block can have are bytes, and not zero.
LEMMA Codes ==
  /\ MaxCode \in Nat /\ MaxCode > 1
  /\ \A n \in 1 .. MaxCode : n \in Byte \ {0}
  /\ 0 \in Byte
  BY MaxCodeAssumption DEF Byte

\* A byte does not wrap before it exceeds its largest value.
LEMMA NoWrap == ASSUME NEW c \in Nat, NEW n \in Nat, n < c PROVE n % c = n
  OBVIOUS

\* How many full blocks fit into a source, against what the header adds to its length.
LEMMA HeaderCounts ==
  ASSUME NEW n \in Nat, NEW k \in Nat, (MaxCode - 1) * k < n
  PROVE  n + k < ENCODE_DST_BUF_LEN_MAX(n) /\ ENCODE_DST_BUF_LEN_MAX(n) \in Nat
<1> DEFINE c == MaxCode - 1
           t == (n + c - 1) \div c
<1>1. c \in Nat /\ c > 0 BY Codes
<1>2. t \in Nat /\ n <= t * c BY <1>1, Ceiling
<1>3. ENCODE_DST_BUF_LEN_MAX(n) = n + t
  <2>1. n + MaxCode - 2 = n + c - 1 BY Codes
  <2> QED BY <2>1 DEF ENCODE_DST_BUF_LEN_MAX
<1> HIDE DEF c, t
<1>4. k * c < n
  <2>1. c * k = k * c BY <1>1
  <2>2. c * k < n BY DEF c
  <2> QED BY <2>1, <2>2
<1>5. k < t
  <2> SUFFICES ASSUME ~(k < t) PROVE FALSE
    OBVIOUS
  <2>1. t = k \/ t < k BY <1>2
  <2>2. CASE t = k BY <1>2, <1>4, <2>2, <1>1
  <2>3. CASE t < k
    <3>1. t * c \in Nat /\ (t + 1) * c = t * c + c /\ (t + 1) * c <= k * c
      BY <1>1, <1>2, <2>3, Multiples
    <3>2. k * c \in Nat BY <1>1
    <3> QED BY <3>1, <3>2, <1>1, <1>2, <1>4
  <2> QED BY <2>1, <2>2, <2>3
<1> QED BY <1>2, <1>3, <1>5

\* The arithmetic that every step uses.
LEMMA Numbers ==
  ASSUME IInv, pc # "done"
  PROVE  /\ Len(src) \in Nat /\ Len(dst) \in Nat /\ src_read_ptr \in Nat
         /\ dst_code_write_ptr \in Nat /\ dst_write_ptr \in Nat
         /\ search_len \in Nat /\ search_len >= 1 /\ search_len <= MaxCode
         /\ search_len \in Byte \ {0}
         /\ dst_write_ptr = dst_code_write_ptr + search_len
         /\ dst_write_ptr <= Len(dst) + 1
         /\ dst_code_write_ptr < dst_write_ptr
         /\ FullBlocks \in Nat
         /\ dst_write_ptr = src_read_ptr + FullBlocks + 1
<1>1. /\ Len(src) \in Nat /\ Len(dst) \in Nat /\ src_read_ptr \in Nat
      /\ dst_code_write_ptr \in Nat /\ dst_write_ptr \in Nat
      /\ search_len \in Nat /\ search_len >= 1 /\ search_len <= MaxCode
      /\ dst_write_ptr <= Len(dst) + 1
      /\ dst_write_ptr = dst_code_write_ptr + search_len
      /\ FullBlocks \in Nat
  BY Codes DEF IInv, TypeOK, Pointers
<1>2. search_len \in Byte \ {0} BY <1>1, Codes
<1>3. dst_write_ptr = src_read_ptr + FullBlocks + 1 BY <1>1 DEF FullBlocks
<1> QED BY <1>1, <1>2, <1>3

\* The source pays for its full blocks.
LEMMA BlocksPaid ==
  ASSUME IInv, pc # "done"
  PROVE  /\ (MaxCode - 1) * FullBlocks \in Nat
         /\ (MaxCode - 1) * FullBlocks + search_len - 1 <= src_read_ptr
<1>1. MaxCode - 1 \in Nat /\ FullBlocks \in Nat BY Codes, Numbers
<1>2. (MaxCode - 1) * FullBlocks \in Nat BY <1>1
<1> QED BY <1>2 DEF IInv, Pointers

\* In an iteration of the loop there are a byte to read and room to write one.
LEMMA RoomToWrite ==
  ASSUME IInv, NEW b \in Byte, Read(b)
  PROVE  /\ pc = "loop" /\ src_read_ptr < Len(src) /\ dst_write_ptr < Len(dst)
         /\ dst_code_write_ptr < Len(dst)
         /\ search_len < MaxCode /\ ~Overflown
         /\ src_byte' = b /\ src_read_ptr' = src_read_ptr + 1
         /\ pc' = IF src_read_ptr + 1 >= Len(src) THEN "finish" ELSE "loop"
<1>1. pc = "loop" BY DEF Read
<1> QED BY <1>1, Numbers DEF Read, OutOfSpace, IInv, Stages

-----------------------------------------------------------------------------
\* Before the call nothing is read or written.
LEMMA InitInvariant == Init => IInv
<1> SUFFICES ASSUME Init PROVE IInv
  OBVIOUS
<1>1. PICK n \in DstLens : dst = [j \in 1 .. n |-> Unwritten] BY DEF Init
<1>2. n \in Nat BY DstLensAssumption
<1>3. /\ dst \in Seq(Byte \cup {Unwritten}) /\ Len(dst) = n
      /\ \A j \in 1 .. n : dst[j] = Unwritten
  BY <1>1, <1>2
<1>4. src \in Seq(Byte) /\ Len(src) \in Nat BY SourcesAssumption DEF Init
<1>5. /\ src_read_ptr = 0 /\ dst_code_write_ptr = 0 /\ dst_write_ptr = 1
      /\ src_byte = 0 /\ search_len = 1 /\ status = {} /\ out_len = 0 /\ pc = "call"
      /\ reduced \in BOOLEAN /\ null \in BOOLEAN /\ stray = FALSE
  BY DEF Init
<1>6. TypeOK
  <2>1. search_len \in 1 .. MaxCode /\ src_byte \in Byte BY <1>5, Codes
  <2>2. dst_write_ptr \in 0 .. Len(dst) + 1 /\ out_len \in 0 .. Len(dst)
        /\ src_read_ptr \in Nat /\ dst_code_write_ptr \in Nat
    BY <1>2, <1>3, <1>5
  <2> QED BY <1>3, <1>4, <1>5, <2>1, <2>2 DEF TypeOK
<1>7. Pointers /\ Placed
  <2>1. FullBlocks = 0 BY <1>5 DEF FullBlocks
  <2>2. (MaxCode - 1) * FullBlocks = 0 BY <2>1, Codes
  <2>3. Pointers BY <1>2, <1>3, <1>4, <1>5, <2>1, <2>2 DEF Pointers
  <2>4. \A j \in 1 .. Len(dst) : j = 1 \/ j > 1 BY <1>2, <1>3
  <2>5. Placed BY <1>3, <1>5, <2>4 DEF Placed
  <2> QED BY <2>3, <2>5
<1>8. Stages BY <1>5 DEF Stages
<1>9. ~Overflown BY <1>5 DEF Overflown
<1> QED BY <1>5, <1>6, <1>7, <1>8, <1>9
       DEF IInv, InBounds, TooSmall, NoZeroByte, OutputExact

\* The null check.
LEMMA RejectNullStep == ASSUME IInv, RejectNull PROVE IInv'
<1>1. /\ pc = "call" /\ pc' = "done" /\ status' = {"NULL_POINTER"}
      /\ UNCHANGED <<reduced, null, src, dst, src_read_ptr, dst_code_write_ptr,
                     dst_write_ptr, src_byte, search_len, out_len, stray>>
  BY DEF RejectNull
<1>2. TypeOK' BY <1>1 DEF IInv, TypeOK
<1>3. out_len = 0 /\ dst_code_write_ptr = 0 /\ dst_write_ptr = 1 /\ Len(dst) \in Nat
  BY <1>1, Numbers DEF IInv, Stages
<1>4. ~Overflown' BY <1>1 DEF Overflown
<1>5. \A n \in 1 .. Len(dst) : dst[n] = Unwritten
  <2> TAKE n \in 1 .. Len(dst)
  <2>1. n = 1 \/ n > 1 BY <1>3
  <2> QED BY <1>1, <1>3, <2>1 DEF IInv, Placed
<1>6. NoZeroByte' BY <1>1, <1>3 DEF NoZeroByte
<1>7. OutputExact' BY <1>1, <1>3, <1>4, <1>5 DEF OutputExact
<1> QED BY <1>1, <1>2, <1>4, <1>6, <1>7 DEF IInv, InBounds, Stages, TooSmall

\* The call reserves the place of the first code byte.
LEMMA StartStep == ASSUME IInv, Start PROVE IInv'
<1>1. /\ pc = "call" /\ pc' = IF src = <<>> THEN "finish" ELSE "loop"
      /\ UNCHANGED <<reduced, null, src, dst, src_read_ptr, dst_code_write_ptr,
                     dst_write_ptr, src_byte, search_len, status, out_len, stray>>
  BY DEF Start
<1>2. TypeOK' BY <1>1 DEF IInv, TypeOK
<1>3. Pointers' /\ Placed' BY <1>1 DEF IInv, Pointers, Placed, FullBlocks
<1>4. src_read_ptr = 0 /\ search_len = 1 /\ ~Overflown
  BY <1>1 DEF IInv, Stages, Overflown
<1>5. src # <<>> => src_read_ptr < Len(src)
  BY <1>4 DEF IInv, TypeOK
<1>6. Stages' BY <1>1, <1>4, <1>5, Codes DEF Stages, Overflown
<1>7. pc' # "done" BY <1>1
<1> QED BY <1>1, <1>2, <1>3, <1>4, <1>6, <1>7
       DEF IInv, InBounds, TooSmall, Overflown, NoZeroByte, OutputExact

\* No room for the next byte.
LEMMA OverflowStep == ASSUME IInv, Overflow PROVE IInv'
<1>1. /\ pc = "loop" /\ pc' = "finish" /\ dst_write_ptr >= Len(dst)
      /\ status' = status \cup {"OUT_BUFFER_OVERFLOW"}
      /\ UNCHANGED <<reduced, null, src, dst, src_read_ptr, dst_code_write_ptr,
                     dst_write_ptr, src_byte, search_len, out_len, stray>>
  BY DEF Overflow, OutOfSpace
<1>2. TypeOK' BY <1>1 DEF IInv, TypeOK
<1>3. Pointers' /\ Placed' BY <1>1 DEF IInv, Pointers, Placed, FullBlocks
<1>4. Overflown' BY <1>1 DEF Overflown
<1>5. Len(dst) < ENCODE_DST_BUF_LEN_MAX(Len(src))
  <2>1. (MaxCode - 1) * FullBlocks < Len(src) /\ src_read_ptr < Len(src)
    <3> DEFINE product == (MaxCode - 1) * FullBlocks
    <3>1. src_read_ptr < Len(src) BY <1>1 DEF IInv, Stages
    <3>2. product \in Nat /\ product + search_len - 1 <= src_read_ptr
      BY <1>1, BlocksPaid
    <3> HIDE DEF product
    <3>3. product < Len(src) BY <1>1, <3>1, <3>2, Numbers
    <3> QED BY <3>1, <3>3 DEF product
  <2>2. /\ Len(src) + FullBlocks < ENCODE_DST_BUF_LEN_MAX(Len(src))
        /\ ENCODE_DST_BUF_LEN_MAX(Len(src)) \in Nat
    BY <1>1, <2>1, Numbers, HeaderCounts
  <2> QED BY <1>1, <2>1, <2>2, Numbers
<1>6. TooSmall' BY <1>1, <1>5 DEF TooSmall
<1>7. Stages' BY <1>1, <1>4 DEF Stages
<1> QED BY <1>1, <1>2, <1>3, <1>6, <1>7 DEF IInv, InBounds, NoZeroByte, OutputExact

-----------------------------------------------------------------------------
\* A zero is read: the block gets its code, the next one a place for it.
LEMMA EncodeZeroStep == ASSUME IInv, EncodeZero PROVE IInv'
<1>0. /\ Len(src) \in Nat /\ Len(dst) \in Nat /\ src_read_ptr \in Nat
      /\ dst_code_write_ptr \in Nat /\ dst_write_ptr \in Nat
      /\ search_len \in Nat /\ search_len >= 1 /\ search_len \in Byte \ {0}
      /\ dst_write_ptr = dst_code_write_ptr + search_len
      /\ dst_code_write_ptr < dst_write_ptr
      /\ FullBlocks \in Nat /\ dst_write_ptr = src_read_ptr + FullBlocks + 1
      /\ MaxCode \in Nat /\ MaxCode > 1
  <2>1. pc = "loop" BY DEF EncodeZero, Read
  <2> QED BY <2>1, Numbers, Codes
<1>1. /\ dst' = [dst EXCEPT ![dst_code_write_ptr + 1] = search_len]
      /\ stray' = (stray \/ src_read_ptr >= Len(src) \/ dst_code_write_ptr >= Len(dst))
      /\ dst_code_write_ptr' = dst_write_ptr /\ dst_write_ptr' = dst_write_ptr + 1
      /\ search_len' = 1 /\ Read(0)
      /\ UNCHANGED <<reduced, null, src, status, out_len>>
  BY DEF EncodeZero
<1>2. /\ pc = "loop" /\ src_read_ptr < Len(src) /\ dst_write_ptr < Len(dst)
      /\ dst_code_write_ptr < Len(dst)
      /\ search_len < MaxCode /\ ~Overflown
      /\ src_byte' = 0 /\ src_read_ptr' = src_read_ptr + 1
      /\ pc' = IF src_read_ptr + 1 >= Len(src) THEN "finish" ELSE "loop"
  BY <1>1, Codes, RoomToWrite
<1>3. /\ dst' \in Seq(Byte \cup {Unwritten}) /\ Len(dst') = Len(dst)
      /\ \A n \in 1 .. Len(dst) :
           dst'[n] = IF n = dst_code_write_ptr + 1 THEN search_len ELSE dst[n]
  <2>1. dst \in Seq(Byte \cup {Unwritten}) BY DEF IInv, TypeOK
  <2> QED BY <1>1, <1>2, <2>1, <1>0, Overwritten
<1>4. TypeOK'
  <2>1. /\ src_read_ptr' \in Nat /\ dst_code_write_ptr' \in Nat
        /\ dst_write_ptr' \in 0 .. Len(dst') + 1 /\ search_len' \in 1 .. MaxCode
        /\ src_byte' \in Byte
    BY <1>1, <1>2, <1>3, <1>0, Codes
  <2>2. stray' \in BOOLEAN /\ pc' \in {"call", "loop", "finish", "done"} BY <1>1, <1>2
  <2>3. out_len' \in 0 .. Len(dst') BY <1>1, <1>3 DEF IInv, TypeOK
  <2> QED BY <1>1, <1>3, <2>1, <2>2, <2>3 DEF IInv, TypeOK
<1>5. Pointers'
  <2>1. FullBlocks' = FullBlocks BY <1>1, <1>2, <1>0 DEF FullBlocks
  <2>2. (MaxCode - 1) * FullBlocks' + search_len' - 1 <= src_read_ptr'
    <3> DEFINE product == (MaxCode - 1) * FullBlocks
    <3>1. product \in Nat /\ product + search_len - 1 <= src_read_ptr
      BY <1>2, BlocksPaid
    <3>2. (MaxCode - 1) * FullBlocks' = product BY <2>1
    <3> HIDE DEF product
    <3> QED BY <1>1, <1>2, <3>1, <3>2, <1>0
  <2> QED BY <1>1, <1>2, <1>3, <2>1, <2>2, <1>0 DEF Pointers
<1>6. Placed'
  <2> SUFFICES ASSUME NEW n \in 1 .. Len(dst)
               PROVE  IF n = dst_write_ptr + 1 \/ n > dst_write_ptr + 1
                      THEN dst'[n] = Unwritten
                      ELSE dst'[n] \in Byte \ {0}
    BY <1>1, <1>3 DEF Placed
  <2>1. IF n = dst_code_write_ptr + 1 \/ n > dst_write_ptr
        THEN dst[n] = Unwritten
        ELSE dst[n] \in Byte \ {0}
    BY <1>2 DEF IInv, Placed
  <2> QED BY <1>2, <1>3, <2>1, <1>0
<1>7. ~Overflown' BY <1>1, <1>2 DEF Overflown
<1>8. Stages' BY <1>1, <1>2, <1>3, <1>7, <1>0 DEF Stages
<1>9. InBounds'
  <2>1. ~(src_read_ptr >= Len(src)) /\ ~(dst_code_write_ptr >= Len(dst))
    BY <1>2, <1>0
  <2> QED BY <1>1, <2>1, Zenon DEF IInv, InBounds
<1>10. pc' # "done" BY <1>2
<1> QED BY <1>4, <1>5, <1>6, <1>7, <1>8, <1>9, <1>10
       DEF IInv, TooSmall, NoZeroByte, OutputExact

\* Another byte is copied, and does not fill its block, or ends the source.
LEMMA CopyByteStep ==
  ASSUME IInv, NEW b \in Byte \ {0}, Read(b), ~BlockFull,
         dst' = [dst EXCEPT ![dst_write_ptr + 1] = b],
         stray' = stray,
         dst_code_write_ptr' = dst_code_write_ptr,
         dst_write_ptr' = dst_write_ptr + 1,
         search_len' = search_len + 1,
         UNCHANGED <<reduced, null, src, status, out_len>>
  PROVE  IInv'
<1>0. /\ Len(src) \in Nat /\ Len(dst) \in Nat /\ src_read_ptr \in Nat
      /\ dst_code_write_ptr \in Nat /\ dst_write_ptr \in Nat
      /\ search_len \in Nat /\ search_len >= 1 /\ search_len \in Byte \ {0}
      /\ dst_write_ptr = dst_code_write_ptr + search_len
      /\ dst_code_write_ptr < dst_write_ptr
      /\ FullBlocks \in Nat /\ dst_write_ptr = src_read_ptr + FullBlocks + 1
      /\ MaxCode \in Nat /\ MaxCode > 1
  <2>1. pc = "loop" BY DEF Read
  <2> QED BY <2>1, Numbers, Codes
<1>1. /\ pc = "loop" /\ src_read_ptr < Len(src) /\ dst_write_ptr < Len(dst)
      /\ dst_code_write_ptr < Len(dst)
      /\ search_len < MaxCode /\ ~Overflown
      /\ src_byte' = b /\ src_read_ptr' = src_read_ptr + 1
      /\ pc' = IF src_read_ptr + 1 >= Len(src) THEN "finish" ELSE "loop"
  BY RoomToWrite
<1>2. /\ dst' \in Seq(Byte \cup {Unwritten}) /\ Len(dst') = Len(dst)
      /\ \A n \in 1 .. Len(dst) : dst'[n] = IF n = dst_write_ptr + 1 THEN b ELSE dst[n]
  <2>1. dst \in Seq(Byte \cup {Unwritten}) BY DEF IInv, TypeOK
  <2> QED BY <1>1, <2>1, <1>0, Overwritten
<1>3. TypeOK'
  <2>1. /\ src_read_ptr' \in Nat /\ dst_code_write_ptr' \in Nat
        /\ dst_write_ptr' \in 0 .. Len(dst') + 1 /\ search_len' \in 1 .. MaxCode
    BY <1>1, <1>2, <1>0
  <2>2. pc' \in {"call", "loop", "finish", "done"} BY <1>1
  <2>3. out_len' \in 0 .. Len(dst') BY <1>2 DEF IInv, TypeOK
  <2> QED BY <1>1, <1>2, <2>1, <2>2, <2>3 DEF IInv, TypeOK
<1>4. Pointers'
  <2>1. FullBlocks' = FullBlocks BY <1>1, <1>0 DEF FullBlocks
  <2>2. (MaxCode - 1) * FullBlocks' + search_len' - 1 <= src_read_ptr'
    <3> DEFINE product == (MaxCode - 1) * FullBlocks
    <3>1. product \in Nat /\ product + search_len - 1 <= src_read_ptr
      BY <1>1, BlocksPaid
    <3>2. (MaxCode - 1) * FullBlocks' = product BY <2>1
    <3> HIDE DEF product
    <3> QED BY <1>1, <3>1, <3>2, <1>0
  <2> QED BY <1>1, <1>2, <2>1, <2>2, <1>0 DEF Pointers
<1>5. Placed'
  <2> SUFFICES ASSUME NEW n \in 1 .. Len(dst)
               PROVE  IF n = dst_code_write_ptr + 1 \/ n > dst_write_ptr + 1
                      THEN dst'[n] = Unwritten
                      ELSE dst'[n] \in Byte \ {0}
    BY <1>1, <1>2 DEF Placed
  <2>1. IF n = dst_code_write_ptr + 1 \/ n > dst_write_ptr
        THEN dst[n] = Unwritten
        ELSE dst[n] \in Byte \ {0}
    BY <1>1 DEF IInv, Placed
  <2> QED BY <1>1, <1>2, <2>1, <1>0
<1>6. ~Overflown' BY <1>1 DEF Overflown
<1>7. Stages'
  <2>1. pc' = "loop" => search_len' < MaxCode
    BY <1>1, <1>0 DEF BlockFull
  <2> QED BY <1>1, <1>2, <1>6, <2>1, <1>0 DEF Stages
<1>8. pc' # "done" BY <1>1
<1> QED BY <1>3, <1>4, <1>5, <1>6, <1>7, <1>8
       DEF IInv, InBounds, TooSmall, NoZeroByte, OutputExact

\* The byte fills its block: it gets its code, the next one a place for it.
LEMMA FillBlockStep ==
  ASSUME IInv, NEW b \in Byte \ {0}, Read(b), BlockFull,
         dst' = [dst EXCEPT ![dst_write_ptr + 1] = b,
                            ![dst_code_write_ptr + 1] = search_len + 1],
         stray' = stray,
         dst_code_write_ptr' = dst_write_ptr + 1,
         dst_write_ptr' = dst_write_ptr + 2,
         search_len' = 1,
         UNCHANGED <<reduced, null, src, status, out_len>>
  PROVE  IInv'
<1>0. /\ Len(src) \in Nat /\ Len(dst) \in Nat /\ src_read_ptr \in Nat
      /\ dst_code_write_ptr \in Nat /\ dst_write_ptr \in Nat
      /\ search_len \in Nat /\ search_len >= 1 /\ search_len \in Byte \ {0}
      /\ dst_write_ptr = dst_code_write_ptr + search_len
      /\ dst_code_write_ptr < dst_write_ptr
      /\ FullBlocks \in Nat /\ dst_write_ptr = src_read_ptr + FullBlocks + 1
      /\ MaxCode \in Nat /\ MaxCode > 1
  <2>1. pc = "loop" BY DEF Read
  <2> QED BY <2>1, Numbers, Codes
<1>1. /\ pc = "loop" /\ src_read_ptr + 1 < Len(src) /\ dst_write_ptr < Len(dst)
      /\ dst_code_write_ptr < Len(dst)
      /\ search_len + 1 = MaxCode /\ ~Overflown
      /\ src_byte' = b /\ src_read_ptr' = src_read_ptr + 1
      /\ pc' = "loop"
  <2>1. pc = "loop" BY RoomToWrite
  <2> QED BY <2>1, RoomToWrite, <1>0 DEF BlockFull
<1>2. /\ dst' \in Seq(Byte \cup {Unwritten}) /\ Len(dst') = Len(dst)
      /\ \A n \in 1 .. Len(dst) :
           dst'[n] = IF n = dst_code_write_ptr + 1 THEN MaxCode
                     ELSE IF n = dst_write_ptr + 1 THEN b ELSE dst[n]
  <2> DEFINE once == [dst EXCEPT ![dst_write_ptr + 1] = b]
  <2>1. dst \in Seq(Byte \cup {Unwritten}) BY DEF IInv, TypeOK
  <2>2. /\ once \in Seq(Byte \cup {Unwritten}) /\ Len(once) = Len(dst)
        /\ \A n \in 1 .. Len(dst) : once[n] = IF n = dst_write_ptr + 1 THEN b ELSE dst[n]
    BY <1>1, <2>1, <1>0, Overwritten
  <2>3. dst' = [once EXCEPT ![dst_code_write_ptr + 1] = MaxCode] BY <1>1
  <2>4. MaxCode \in Byte BY Codes DEF Byte
  <2> HIDE DEF once
  <2>5. dst_code_write_ptr < Len(once) /\ MaxCode \in Byte \cup {Unwritten}
    BY <1>1, <2>2, <2>4
  <2> DEFINE twice == [once EXCEPT ![dst_code_write_ptr + 1] = MaxCode]
  <2>6. /\ twice \in Seq(Byte \cup {Unwritten}) /\ Len(twice) = Len(once)
        /\ \A n \in 1 .. Len(once) :
             twice[n] = IF n = dst_code_write_ptr + 1 THEN MaxCode ELSE once[n]
    BY <2>2, <2>5, <1>0, Overwritten
  <2> QED BY <2>2, <2>3, <2>6
<1>3. TypeOK'
  <2>1. /\ src_read_ptr' \in Nat /\ dst_code_write_ptr' \in Nat
        /\ dst_write_ptr' \in 0 .. Len(dst') + 1 /\ search_len' \in 1 .. MaxCode
    BY <1>1, <1>2, <1>0
  <2>3. out_len' \in 0 .. Len(dst') BY <1>2 DEF IInv, TypeOK
  <2> QED BY <1>1, <1>2, <2>1, <2>3 DEF IInv, TypeOK
<1>4. Pointers'
  <2>1. FullBlocks' = FullBlocks + 1 BY <1>1, <1>0 DEF FullBlocks
  <2>2. (MaxCode - 1) * FullBlocks' + search_len' - 1 <= src_read_ptr'
    <3> DEFINE product == (MaxCode - 1) * FullBlocks
    <3>1. product \in Nat /\ product + search_len - 1 <= src_read_ptr
      BY <1>1, BlocksPaid
    <3>2. (MaxCode - 1) * FullBlocks' = product + (MaxCode - 1)
      <4>1. FullBlocks \in Nat BY <1>1, <1>0
      <4> QED BY <2>1, <4>1, Codes
    <3> HIDE DEF product
    <3> QED BY <1>1, <3>1, <3>2, <1>0
  <2> QED BY <1>1, <1>2, <2>1, <2>2, <1>0 DEF Pointers
<1>5. Placed'
  <2> SUFFICES ASSUME NEW n \in 1 .. Len(dst)
               PROVE  IF n = dst_write_ptr + 2 \/ n > dst_write_ptr + 2
                      THEN dst'[n] = Unwritten
                      ELSE dst'[n] \in Byte \ {0}
    <3>1. dst_write_ptr + 1 + 1 = dst_write_ptr + 2 BY <1>1, <1>0
    <3> QED BY <1>1, <1>2, <3>1 DEF Placed
  <2>1. IF n = dst_code_write_ptr + 1 \/ n > dst_write_ptr
        THEN dst[n] = Unwritten
        ELSE dst[n] \in Byte \ {0}
    BY <1>1 DEF IInv, Placed
  <2>2. MaxCode \in Byte \ {0} BY Codes
  <2> QED BY <1>1, <1>2, <2>1, <2>2, <1>0
<1>6. ~Overflown' BY <1>1 DEF Overflown
<1>7. Stages' BY <1>1, <1>2, <1>6, <1>0 DEF Stages
<1>8. pc' # "done" BY <1>1
<1> QED BY <1>3, <1>4, <1>5, <1>6, <1>7, <1>8
       DEF IInv, InBounds, TooSmall, NoZeroByte, OutputExact

\* Copying a byte, and closing the block if it is full, keeps the invariant.
LEMMA EncodeNonZeroStep == ASSUME IInv, EncodeNonZero PROVE IInv'
<1>0. /\ Len(src) \in Nat /\ Len(dst) \in Nat /\ src_read_ptr \in Nat
      /\ dst_code_write_ptr \in Nat /\ dst_write_ptr \in Nat
      /\ search_len \in Nat /\ search_len >= 1 /\ search_len \in Byte \ {0}
      /\ dst_write_ptr = dst_code_write_ptr + search_len
      /\ dst_code_write_ptr < dst_write_ptr
      /\ FullBlocks \in Nat /\ dst_write_ptr = src_read_ptr + FullBlocks + 1
      /\ MaxCode \in Nat /\ MaxCode > 1
  <2>1. pc = "loop" BY DEF EncodeNonZero, Read
  <2> QED BY <2>1, Numbers, Codes
<1>1. PICK b \in Byte \ {0} :
        /\ Read(b)
        /\ dst' = IF BlockFull
                  THEN [dst EXCEPT ![dst_write_ptr + 1] = b,
                                   ![dst_code_write_ptr + 1] = search_len + 1]
                  ELSE [dst EXCEPT ![dst_write_ptr + 1] = b]
  BY DEF EncodeNonZero
<1>2. /\ pc = "loop" /\ src_read_ptr < Len(src) /\ dst_write_ptr < Len(dst)
      /\ dst_code_write_ptr < Len(dst) /\ search_len < MaxCode
  BY <1>1, RoomToWrite
<1>3. stray' = stray
  <2>1. /\ ~(src_read_ptr >= Len(src)) /\ ~(dst_write_ptr >= Len(dst))
        /\ ~(dst_code_write_ptr >= Len(dst))
    BY <1>2, <1>0
  <2>2. stray' = (stray \/ src_read_ptr >= Len(src) \/ dst_write_ptr >= Len(dst)
                        \/ (BlockFull /\ dst_code_write_ptr >= Len(dst)))
    BY DEF EncodeNonZero
  <2>3. stray = FALSE BY DEF IInv, InBounds, TypeOK
  <2>4. stray' = FALSE BY <2>1, <2>2, <2>3, Zenon
  <2> QED BY <2>3, <2>4
<1>4. UNCHANGED <<reduced, null, src, status, out_len>> BY DEF EncodeNonZero
<1>5. CASE BlockFull
  <2>1. /\ dst_code_write_ptr' = dst_write_ptr + 1 /\ dst_write_ptr' = dst_write_ptr + 2
        /\ search_len' = 1
    BY <1>5 DEF EncodeNonZero, SearchLenAfterByte
  <2> QED BY <1>1, <1>3, <1>4, <1>5, <2>1, FillBlockStep
<1>6. CASE ~BlockFull
  <2>1. (search_len + 1) % (MaxCode + 1) = search_len + 1
    <3> DEFINE c == MaxCode + 1
               n == search_len + 1
    <3>1. c \in Nat /\ n \in Nat /\ n < c BY <1>2, <1>0
    <3> HIDE DEF c, n
    <3>2. n % c = n BY <3>1, NoWrap
    <3> QED BY <3>2 DEF c, n
  <2>2. /\ dst_code_write_ptr' = dst_code_write_ptr /\ dst_write_ptr' = dst_write_ptr + 1
        /\ search_len' = search_len + 1
    BY <1>6, <2>1 DEF EncodeNonZero, SearchLenAfterByte
  <2> QED BY <1>1, <1>3, <1>4, <1>6, <2>2, CopyByteStep
<1> QED BY <1>5, <1>6

-----------------------------------------------------------------------------
\* What the end of the call leaves behind, for all three ways to write the last code.
LEMMA NoRoomForCodeStep == ASSUME IInv, NoRoomForCode PROVE IInv'
<1>1. /\ pc = "finish" /\ pc' = "done" /\ dst_code_write_ptr >= Len(dst)
      /\ status' = status \cup {"OUT_BUFFER_OVERFLOW"}
      /\ dst_write_ptr' = Len(dst) /\ out_len' = Len(dst)
      /\ UNCHANGED <<reduced, null, src, dst, src_read_ptr, dst_code_write_ptr, src_byte,
                     search_len, stray>>
  BY DEF NoRoomForCode
<1>2. /\ Len(dst) \in Nat /\ dst_code_write_ptr = Len(dst)
      /\ dst_write_ptr \in Nat /\ dst_write_ptr > Len(dst)
  BY <1>1, Numbers DEF IInv, Pointers
<1>3. TypeOK' BY <1>1, <1>2 DEF IInv, TypeOK
<1>4. TooSmall'
  <2>1. src # <<>> => Overflown BY <1>1, <1>2 DEF IInv, Stages
  <2> QED BY <1>1, <2>1 DEF IInv, TooSmall
<1>5. NoZeroByte'
  <2> SUFFICES ASSUME NEW n \in 1 .. Len(dst) PROVE dst[n] \in Byte \ {0}
    BY <1>1 DEF NoZeroByte
  <2>1. n # dst_code_write_ptr + 1 /\ ~(n > dst_write_ptr) BY <1>2
  <2> QED BY <1>1, <2>1 DEF IInv, Placed
<1>6. OutputExact'
  <2>1. Len(dst) + 1 .. Len(dst) = {} BY <1>2
  <2> QED BY <1>1, <2>1 DEF OutputExact
<1>7. pc' = "done" BY <1>1
<1> QED BY <1>1, <1>3, <1>4, <1>5, <1>6, <1>7 DEF IInv, InBounds, Stages

\* The late write of the last code byte is at the place that was reserved for it.
LEMMA WriteLastCodeStep == ASSUME IInv, WriteLastCode PROVE IInv'
<1>1. /\ pc = "finish" /\ pc' = "done" /\ dst_code_write_ptr < Len(dst)
      /\ dst' = [dst EXCEPT ![dst_code_write_ptr + 1] = search_len]
      /\ out_len' = dst_write_ptr
      /\ UNCHANGED <<reduced, null, src, src_read_ptr, dst_code_write_ptr, dst_write_ptr,
                     src_byte, search_len, status, stray>>
  BY DEF WriteLastCode
<1>2. /\ Len(dst) \in Nat /\ dst_code_write_ptr \in Nat /\ search_len \in Byte \ {0}
      /\ dst_write_ptr \in Nat /\ dst_write_ptr <= Len(dst)
      /\ dst_code_write_ptr + 1 <= dst_write_ptr
  BY <1>1, Numbers DEF IInv, Pointers
<1>3. /\ dst' \in Seq(Byte \cup {Unwritten}) /\ Len(dst') = Len(dst)
      /\ \A n \in 1 .. Len(dst) :
           dst'[n] = IF n = dst_code_write_ptr + 1 THEN search_len ELSE dst[n]
  <2>1. dst \in Seq(Byte \cup {Unwritten}) BY DEF IInv, TypeOK
  <2> QED BY <1>1, <1>2, <2>1, Overwritten
<1>4. TypeOK'
  <2>1. dst_write_ptr' \in 0 .. Len(dst') + 1 /\ out_len' \in 0 .. Len(dst')
    BY <1>1, <1>2, <1>3
  <2> QED BY <1>1, <1>3, <2>1 DEF IInv, TypeOK
<1>5. TooSmall' BY <1>1, <1>3 DEF IInv, TooSmall, Overflown
<1>6. NoZeroByte'
  <2> SUFFICES ASSUME NEW n \in 1 .. dst_write_ptr PROVE dst'[n] \in Byte \ {0}
    BY <1>1 DEF NoZeroByte
  <2>1. n \in 1 .. Len(dst) /\ ~(n > dst_write_ptr) BY <1>2
  <2> QED BY <1>1, <1>2, <1>3, <2>1 DEF IInv, Placed
<1>7. OutputExact'
  <2>1. Overflown' => out_len' = Len(dst')
    <3>1. Overflown' = Overflown BY <1>1 DEF Overflown
    <3>2. Overflown => dst_write_ptr >= Len(dst) BY <1>1 DEF IInv, Stages
    <3>3. Overflown => dst_write_ptr = Len(dst) BY <1>2, <3>2
    <3> QED BY <1>1, <1>3, <3>1, <3>3
  <2>2. ASSUME NEW n \in dst_write_ptr + 1 .. Len(dst) PROVE dst'[n] = Unwritten
    <3>1. n \in 1 .. Len(dst) /\ n > dst_write_ptr /\ n # dst_code_write_ptr + 1
      BY <1>2
    <3> QED BY <1>1, <1>3, <3>1 DEF IInv, Placed
  <2> QED BY <1>1, <1>3, <2>1, <2>2 DEF OutputExact
<1> QED BY <1>1, <1>4, <1>5, <1>6, <1>7 DEF IInv, InBounds, Stages

\* So is that of cobsr_encode(), which puts the last byte there.
LEMMA WriteLastByteAsCodeStep == ASSUME IInv, WriteLastByteAsCode PROVE IInv'
<1>1. /\ pc = "finish" /\ pc' = "done" /\ dst_code_write_ptr < Len(dst)
      /\ dst' = [dst EXCEPT ![dst_code_write_ptr + 1] = src_byte]
      /\ dst_write_ptr' = dst_write_ptr - 1 /\ out_len' = dst_write_ptr - 1
      /\ UNCHANGED <<reduced, null, src, src_read_ptr, dst_code_write_ptr,
                     src_byte, search_len, status, stray>>
  BY DEF WriteLastByteAsCode
<1>2. reduced /\ ~(src_byte < search_len)
  BY Zenon DEF WriteLastByteAsCode, SameAsPlain
<1>3. /\ Len(dst) \in Nat /\ dst_code_write_ptr \in Nat
      /\ dst_write_ptr \in Nat /\ dst_write_ptr <= Len(dst)
      /\ dst_code_write_ptr + 1 <= dst_write_ptr
      /\ search_len \in Nat /\ search_len >= 1
  BY <1>1, Numbers DEF IInv, Pointers
<1>4. src_byte \in Byte \ {0}
  <2>1. src_byte \in Byte /\ src_byte \in Nat BY Codes DEF IInv, TypeOK, Byte
  <2> QED BY <1>2, <1>3, <2>1
<1>5. /\ dst' \in Seq(Byte \cup {Unwritten}) /\ Len(dst') = Len(dst)
      /\ \A n \in 1 .. Len(dst) :
           dst'[n] = IF n = dst_code_write_ptr + 1 THEN src_byte ELSE dst[n]
  <2>1. dst \in Seq(Byte \cup {Unwritten}) BY DEF IInv, TypeOK
  <2> QED BY <1>1, <1>3, <1>4, <2>1, Overwritten
<1>6. TypeOK'
  <2>1. dst_write_ptr' \in 0 .. Len(dst') + 1 /\ out_len' \in 0 .. Len(dst')
    BY <1>1, <1>3, <1>5
  <2> QED BY <1>1, <1>5, <2>1 DEF IInv, TypeOK
<1>7. TooSmall' BY <1>1, <1>5 DEF IInv, TooSmall, Overflown
<1>8. NoZeroByte'
  <2> SUFFICES ASSUME NEW n \in 1 .. dst_write_ptr - 1 PROVE dst'[n] \in Byte \ {0}
    BY <1>1 DEF NoZeroByte
  <2>1. n \in 1 .. Len(dst) /\ ~(n > dst_write_ptr) BY <1>3
  <2> QED BY <1>1, <1>4, <1>5, <2>1 DEF IInv, Placed
<1>9. OutputExact' BY <1>1, <1>2 DEF OutputExact
<1> QED BY <1>1, <1>6, <1>7, <1>8, <1>9 DEF IInv, InBounds, Stages

-----------------------------------------------------------------------------
\* The inductive invariant: at every step of both functions each byte of the destination
\* is where the pointers and the length of the block say.
THEOREM InductiveInvariant == Spec => []IInv
<1>1. IInv /\ [Next]_vars => IInv'
  <2> SUFFICES ASSUME IInv, [Next]_vars PROVE IInv'
    OBVIOUS
  <2>1. CASE RejectNull BY <2>1, RejectNullStep
  <2>2. CASE Start BY <2>2, StartStep
  <2>3. CASE Loop
    BY <2>3, OverflowStep, EncodeZeroStep, EncodeNonZeroStep DEF Loop
  <2>4. CASE Finish
    BY <2>4, NoRoomForCodeStep, WriteLastCodeStep, WriteLastByteAsCodeStep DEF Finish
  <2>5. CASE UNCHANGED vars
    BY <2>5 DEF vars, IInv, TypeOK, InBounds, Pointers, FullBlocks, Placed, Stages,
       TooSmall, Overflown, NoZeroByte, OutputExact
  <2> QED BY <2>1, <2>2, <2>3, <2>4, <2>5 DEF Next
<1> QED BY InitInvariant, <1>1, PTL DEF Spec

\* Type correctness, for every source and every size of the destination: the write
\* pointer never gets further than one place behind the destination.
THEOREM TypeCorrect == Spec => []TypeOK
<1>1. IInv => TypeOK BY DEF IInv
<1> QED BY <1>1, InductiveInvariant, PTL

\* No read leaves the source and no write the destination, the late write of a code
\* byte included.
THEOREM StaysInBounds == Spec => []InBounds
<1>1. IInv => InBounds BY DEF IInv
<1> QED BY <1>1, InductiveInvariant, PTL

\* No output contains a zero or a place that was never written, whether it is complete
\* or was cut off.
THEOREM NeverAZeroByte == Spec => []NoZeroByte
<1>1. IInv => NoZeroByte BY DEF IInv
<1> QED BY <1>1, InductiveInvariant, PTL

\* After an overflow cobs_encode() has filled its destination; otherwise it wrote
\* nothing behind its output.
THEOREM OutputIsExact == Spec => []OutputExact
<1>1. IInv => OutputExact BY DEF IInv
<1> QED BY <1>1, InductiveInvariant, PTL

\* The size that the header computes suffices for every source but the empty one.
THEOREM HeaderSizeSuffices == Spec => []SizeMaxSuffices
<1>1. IInv => SizeMaxSuffices
  <2> SUFFICES ASSUME IInv, Overflown, src # <<>>,
                      Len(dst) >= ENCODE_DST_BUF_LEN_MAX(Len(src))
               PROVE  FALSE
    BY DEF SizeMaxSuffices
  <2>1. Len(dst) < ENCODE_DST_BUF_LEN_MAX(Len(src)) BY DEF IInv, TooSmall
  <2>2. Len(dst) \in Nat /\ ENCODE_DST_BUF_LEN_MAX(Len(src)) \in Int
    <3>1. Len(src) \in Nat /\ Len(dst) \in Nat BY DEF IInv, TypeOK
    <3>2. MaxCode - 1 \in Nat /\ MaxCode - 1 > 0 /\ Len(src) + MaxCode - 2 \in Nat
      BY <3>1, Codes
    <3>3. (Len(src) + MaxCode - 2) \div (MaxCode - 1) \in Nat BY <3>2, DivMod
    <3> QED BY <3>1, <3>3 DEF ENCODE_DST_BUF_LEN_MAX
  <2> QED BY <2>1, <2>2
<1> QED BY <1>1, InductiveInvariant, PTL

-----------------------------------------------------------------------------
\* The recursion of BlocksFrom goes to the right and ends: it has the value that its
\* definition says.
LEMMA BlockAt ==
  ASSUME NEW string \in Seq(Byte), NEW k \in 0 .. Len(string) - 1
  PROVE  LET n == Len(string)
             c == string[k + 1]
             from == BlocksFrom(string)
         IN  from[k] =
               IF c = 0 \/ k + c >= n
               THEN [end |-> k + c, code |-> c, data |-> SubSeq(string, k + 2, n)]
               ELSE [ end  |-> from[k + c].end,
                      code |-> from[k + c].code,
                      data |-> SubSeq(string, k + 2, k + c)
                               \o (IF c = MaxCode THEN <<>> ELSE <<0>>) \o from[k + c].data ]
<1> DEFINE n == Len(string)
           Block(f, j) ==
             LET c == string[j + 1]
             IN  IF c = 0 \/ j + c >= n
                 THEN [end |-> j + c, code |-> c, data |-> SubSeq(string, j + 2, n)]
                 ELSE [ end  |-> f[j + c].end,
                        code |-> f[j + c].code,
                        data |-> SubSeq(string, j + 2, j + c)
                                 \o (IF c = MaxCode THEN <<>> ELSE <<0>>) \o f[j + c].data ]
           Solves(f, m) == f = [j \in m .. n - 1 |-> Block(f, j)]
           Missing == { m \in Nat : m <= n /\ ~ \E f : Solves(f, n - m) }
           R == OpToRel(<, Nat)
<1>1. n \in Nat /\ \A j \in 0 .. n - 1 : string[j + 1] \in Nat
  BY MaxCodeAssumption DEF Byte
<1>2. ASSUME NEW f, NEW g, NEW j \in 0 .. n - 1, \A p \in j + 1 .. n - 1 : f[p] = g[p]
      PROVE  Block(f, j) = Block(g, j)
  <2> DEFINE c == string[j + 1]
  <2>1. CASE c = 0 \/ j + c >= n
    BY <2>1
  <2>2. CASE ~(c = 0 \/ j + c >= n)
    <3>1. j + c \in j + 1 .. n - 1
      BY <1>1, <2>2
    <3>2. f[j + c] = g[j + c]
      BY <1>2, <3>1
    <3> QED BY <2>2, <3>2
  <2> QED BY <2>1, <2>2
<1> HIDE DEF Block, n, Solves
<1>3. Missing = {}
  <2> SUFFICES ASSUME Missing # {} PROVE FALSE
    OBVIOUS
  <2>1. PICK m \in Missing : \A y \in Missing : ~(<<y, m>> \in R)
    <3>1. IsWellFoundedOn(R, Nat)
      BY NatLessThanWellFounded
    <3>2. Missing \subseteq Nat
      OBVIOUS
    <3> HIDE DEF R, Missing
    <3> QED BY <3>1, <3>2, WFMin
  <2> HIDE DEF R
  <2>2. m \in Nat /\ m <= n /\ ~ \E f : Solves(f, n - m)
    BY <2>1
  <2>3. m # 0
    <3>1. n - 0 .. n - 1 = {}
      BY <1>1
    <3>2. Solves([j \in n - 0 .. n - 1 |-> 0], n - 0)
      BY <3>1 DEF Solves
    <3> QED BY <2>2, <3>2
  <2>4. m - 1 \in Nat /\ m - 1 < m /\ m - 1 <= n
    BY <1>1, <2>2, <2>3
  <2>5. m - 1 \notin Missing
    BY <2>1, <2>2, <2>4 DEF OpToRel, R
  <2>6. PICK f : Solves(f, n - (m - 1))
    BY <2>4, <2>5
  <2> DEFINE a == n - m
             g == [j \in a .. n - 1 |-> IF j = a THEN Block(f, a) ELSE f[j]]
  <2>7. a \in Nat /\ n - (m - 1) = a + 1
    BY <1>1, <2>2, <2>3
  <2>8. \A j \in a + 1 .. n - 1 : f[j] = Block(f, j)
    BY <2>6, <2>7 DEF Solves
  <2>9. ASSUME NEW j \in a .. n - 1 PROVE g[j] = Block(g, j)
    <3>1. j \in 0 .. n - 1 /\ \A p \in j + 1 .. n - 1 : p \in a .. n - 1 /\ p # a
      BY <1>1, <2>7
    <3>2. \A p \in j + 1 .. n - 1 : f[p] = g[p]
      BY <3>1
    <3> HIDE DEF g, a
    <3>3. Block(f, j) = Block(g, j)
      BY <1>2, <3>1, <3>2
    <3>4. g[j] = Block(f, j)
      BY <1>1, <2>7, <2>8 DEF g
    <3> QED BY <3>3, <3>4
  <2>10. Solves(g, a)
    BY <2>9 DEF Solves
  <2> QED BY <2>2, <2>10
<1>4. \E f : Solves(f, 0)
  <2>1. n \notin Missing
    BY <1>3
  <2>2. n - n = 0
    BY <1>1
  <2> QED BY <1>1, <2>1, <2>2
<1>5. BlocksFrom(string) = CHOOSE f : Solves(f, 0)
  BY Zenon DEF BlocksFrom, Block, Solves, n
<1>6. Solves(BlocksFrom(string), 0)
  BY <1>4, <1>5
<1>7. BlocksFrom(string)[k] = Block(BlocksFrom(string), k)
  BY <1>6 DEF Solves, n
<1> QED BY <1>7 DEF Block, n

-----------------------------------------------------------------------------
\* What the blocks that are written mean.

\* The two begin with the same bytes.
AgreeTo(t, buf, at) == \A n \in 1 .. at : t[n] = buf[n]

\* Blocks end at the place: whatever follows them, their data stands in front of it.
Passes(buf, at, data) ==
  \A t \in Seq(Byte) :
    LET here  == BlocksFrom(t)[at]
        whole == BlocksFrom(t)[0]
    IN  Len(t) > at /\ AgreeTo(t, buf, at) /\ here.data \in Seq(Byte) =>
          whole.end = here.end /\ whole.code = here.code /\ whole.data = data \o here.data

\* The same when nothing follows them: no zero stands behind the last one.
Stops(buf, at, data) ==
  \A t \in Seq(Byte) :
    Len(t) = at /\ AgreeTo(t, buf, at) => Blocks(t).end = at /\ Blocks(t).data = data

\* A part of a byte string.
LEMMA Part ==
  ASSUME NEW t \in Seq(Byte), NEW m \in Nat, m > 0, NEW n \in Nat, n <= Len(t)
  PROVE  /\ SubSeq(t, m, n) \in Seq(Byte)
         /\ Len(SubSeq(t, m, n)) = IF m <= n THEN n - m + 1 ELSE 0
         /\ \A j \in 1 .. n - m + 1 : SubSeq(t, m, n)[j] = t[m + j - 1]
<1>1. \A j \in m .. n : j \in 1 .. Len(t)
  OBVIOUS
<1>2. \A j \in m .. n : t[j] \in Byte
  BY <1>1, ElementOfSeq
<1>3. m \in Int /\ n \in Int
  OBVIOUS
<1> QED BY <1>2, <1>3, SubSeqProperties

\* Three strings in a row.
LEMMA Joined ==
  ASSUME NEW a \in Seq(Byte), NEW b \in Seq(Byte), NEW c \in Seq(Byte)
  PROVE  (a \o b) \o c = a \o (b \o c)
  BY ConcatAssociative

\* The string is not empty.
LEMMA NotEmpty ==
  ASSUME NEW t \in Seq(Byte), NEW at \in Nat, Len(t) > at
  PROVE  /\ Len(t) \in Nat /\ at \in 0 .. Len(t) - 1 /\ 0 \in 0 .. Len(t) - 1
         /\ Blocks(t) = BlocksFrom(t)[0]
  BY DEF Blocks

\* A block that reaches the end of the string is the last one.
LEMMA LastBlock ==
  ASSUME NEW buf, NEW at \in Nat, NEW data \in Seq(Byte), Passes(buf, at, data),
         NEW t \in Seq(Byte), Len(t) > at, AgreeTo(t, buf, at),
         at + t[at + 1] >= Len(t)
  PROVE  /\ Blocks(t).end = at + t[at + 1]
         /\ Blocks(t).code = t[at + 1]
         /\ Blocks(t).data = data \o SubSeq(t, at + 2, Len(t))
<1> DEFINE here  == BlocksFrom(t)[at]
           whole == BlocksFrom(t)[0]
<1>1. Len(t) \in Nat /\ at \in 0 .. Len(t) - 1 /\ Blocks(t) = whole
  BY NotEmpty
<1>2. here = [end |-> at + t[at + 1], code |-> t[at + 1], data |-> SubSeq(t, at + 2, Len(t))]
  BY <1>1, BlockAt
<1>3. SubSeq(t, at + 2, Len(t)) \in Seq(Byte)
  BY <1>1, Part
<1> HIDE DEF here, whole
<1>4. here.data \in Seq(Byte)
  BY <1>2, <1>3
<1>5. whole.end = here.end /\ whole.code = here.code /\ whole.data = data \o here.data
  BY <1>4 DEF Passes, here, whole
<1> QED BY <1>1, <1>2, <1>5

\* One more block: its code and the bytes behind it are written.
LEMMA OneMoreBlock ==
  ASSUME NEW buf, NEW at \in Nat, NEW data \in Seq(Byte), Passes(buf, at, data),
         NEW bytes \in Seq(Byte), NEW c \in 1 .. MaxCode, c = Len(bytes) + 1,
         NEW longer, AgreeTo(longer, buf, at), longer[at + 1] = c,
         \A n \in 1 .. c - 1 : longer[at + 1 + n] = bytes[n]
  PROVE  LET zero == IF c = MaxCode THEN <<>> ELSE <<0>> IN
           /\ Stops(longer, at + c, data \o bytes)
           /\ Passes(longer, at + c, data \o (bytes \o zero))
<1> DEFINE zero == IF c = MaxCode THEN <<>> ELSE <<0>>
<1>1. MaxCode \in Nat /\ c \in Nat /\ c > 0 /\ Len(bytes) = c - 1
  BY Codes
<1>2. ASSUME NEW t \in Seq(Byte), Len(t) >= at + c, AgreeTo(t, longer, at + c)
      PROVE  /\ Len(t) \in Nat /\ Len(t) > at /\ at \in 0 .. Len(t) - 1
             /\ AgreeTo(t, buf, at) /\ t[at + 1] = c
             /\ SubSeq(t, at + 2, at + c) = bytes
  <2>1. Len(t) \in Nat /\ Len(t) > at /\ at \in 0 .. Len(t) - 1
    BY <1>1, <1>2
  <2>2. AgreeTo(t, buf, at) /\ t[at + 1] = c
    BY <1>1, <1>2 DEF AgreeTo
  <2> DEFINE u == SubSeq(t, at + 2, at + c)
  <2>3. /\ u \in Seq(Byte)
        /\ Len(u) = IF at + 2 <= at + c THEN (at + c) - (at + 2) + 1 ELSE 0
        /\ \A i \in 1 .. (at + c) - (at + 2) + 1 : u[i] = t[(at + 2) + i - 1]
    <3>1. at + 2 \in Nat /\ at + 2 > 0 /\ at + c \in Nat
      BY <1>1
    <3> QED BY <1>2, <3>1, Part
  <2> HIDE DEF u
  <2>4. Len(u) = Len(bytes)
    BY <1>1, <2>3
  <2>5. ASSUME NEW n \in 1 .. Len(bytes) PROVE u[n] = bytes[n]
    <3>1. n \in 1 .. (at + c) - (at + 2) + 1 /\ (at + 2) + n - 1 = at + 1 + n
          /\ at + 1 + n \in 1 .. at + c /\ n \in 1 .. c - 1
      BY <1>1
    <3> QED BY <1>2, <2>3, <3>1 DEF AgreeTo
  <2>6. u = bytes
    BY <2>3, <2>4, <2>5, SeqEqual
  <2> QED BY <2>1, <2>2, <2>6 DEF u
<1>3. Stops(longer, at + c, data \o bytes)
  <2> SUFFICES ASSUME NEW t \in Seq(Byte), Len(t) = at + c, AgreeTo(t, longer, at + c)
               PROVE  Blocks(t).end = at + c /\ Blocks(t).data = data \o bytes
    BY DEF Stops
  <2>1. /\ Len(t) > at /\ AgreeTo(t, buf, at) /\ t[at + 1] = c
        /\ SubSeq(t, at + 2, Len(t)) = bytes /\ at + t[at + 1] >= Len(t)
    BY <1>1, <1>2
  <2> QED BY <2>1, LastBlock
<1>4. zero \in Seq(Byte)
  BY Codes
<1> HIDE DEF zero
<1>5. Passes(longer, at + c, data \o (bytes \o zero))
  <2> SUFFICES ASSUME NEW t \in Seq(Byte), Len(t) > at + c, AgreeTo(t, longer, at + c),
                      BlocksFrom(t)[at + c].data \in Seq(Byte)
               PROVE  /\ BlocksFrom(t)[0].end = BlocksFrom(t)[at + c].end
                      /\ BlocksFrom(t)[0].code = BlocksFrom(t)[at + c].code
                      /\ BlocksFrom(t)[0].data
                           = (data \o (bytes \o zero)) \o BlocksFrom(t)[at + c].data
    BY DEF Passes
  <2> DEFINE next == BlocksFrom(t)[at + c]
             here == BlocksFrom(t)[at]
  <2>1. /\ Len(t) \in Nat /\ Len(t) > at /\ at \in 0 .. Len(t) - 1
        /\ AgreeTo(t, buf, at) /\ t[at + 1] = c
        /\ SubSeq(t, at + 2, at + c) = bytes
    BY <1>1, <1>2
  <2>2. ~(c = 0 \/ at + c >= Len(t))
    BY <1>1, <2>1
  <2>3. here = [end |-> next.end, code |-> next.code, data |-> (bytes \o zero) \o next.data]
    <3>1. SubSeq(t, at + 2, at + t[at + 1]) = bytes
      BY <2>1
    <3> QED BY <2>1, <2>2, <3>1, BlockAt DEF zero
  <2> HIDE DEF next, here
  <2>4. next.data \in Seq(Byte)
    BY DEF next
  <2>5. (bytes \o zero) \in Seq(Byte) /\ here.data = (bytes \o zero) \o next.data
        /\ here.data \in Seq(Byte)
    BY <1>4, <2>3, <2>4, ConcatProperties
  <2>6. /\ BlocksFrom(t)[0].end = here.end /\ BlocksFrom(t)[0].code = here.code
        /\ BlocksFrom(t)[0].data = data \o here.data
    BY <2>1, <2>5 DEF Passes, here
  <2>7. data \o ((bytes \o zero) \o next.data) = (data \o (bytes \o zero)) \o next.data
    <3> DEFINE both == bytes \o zero
    <3>1. both \in Seq(Byte)
      BY <2>5
    <3> HIDE DEF both
    <3>2. \A rest \in Seq(Byte) : (data \o both) \o rest = data \o (both \o rest)
      BY <3>1, Joined
    <3> QED BY <2>4, <3>2, Zenon DEF both
  <2> QED BY <2>3, <2>5, <2>6, <2>7 DEF next
<1> QED BY <1>3, <1>5 DEF zero

\* How much of the source the blocks before the one in progress mean.
Before == src_read_ptr - (search_len - 1)

\* The block in progress is a copy of the source.
Copied ==
  \A n \in 1 .. search_len - 1 : dst[dst_code_write_ptr + 1 + n] = src[Before + n]

\* What the output means so far, and what is known of the last byte.
MeansSoFar ==
  /\ Before \in Nat
  /\ Copied
  /\ Passes(dst, dst_code_write_ptr, SubSeq(src, 1, Before))
  /\ dst_code_write_ptr > 0 =>
       \E m \in 0 .. Before : Stops(dst, dst_code_write_ptr, SubSeq(src, 1, m))
  /\ search_len > 1 => src_byte = src[src_read_ptr]
  /\ Overflown => src_read_ptr < Len(src)
  /\ pc = "finish" /\ ~Overflown => src_read_ptr = Len(src)
  /\ pc # "loop" /\ ~Overflown /\ search_len = 1 => src_byte = 0

Means == IF pc = "done" THEN ReadsBack ELSE MeansSoFar

-----------------------------------------------------------------------------
\* Nothing is written before the place.
LEMMA SamePrefix ==
  ASSUME NEW buf, NEW new, NEW at \in Nat, AgreeTo(new, buf, at), NEW data
  PROVE  /\ Passes(buf, at, data) => Passes(new, at, data)
         /\ Stops(buf, at, data) => Stops(new, at, data)
<1>1. ASSUME NEW t \in Seq(Byte), AgreeTo(t, new, at) PROVE AgreeTo(t, buf, at)
  BY <1>1 DEF AgreeTo
<1> QED BY <1>1 DEF Passes, Stops

\* Before the first block there is nothing.
LEMMA NoBlockYet == ASSUME NEW buf PROVE Passes(buf, 0, <<>>)
<1> SUFFICES ASSUME NEW d, d \in Seq(Byte) PROVE <<>> \o d = d
  BY DEF Passes
<1> QED BY ConcatEmptySeq

\* The source up to a place, and from there on.
LEMMA Joins ==
  ASSUME NEW s \in Seq(Byte), NEW k \in Nat, NEW n \in Nat, k <= n, n <= Len(s)
  PROVE  /\ SubSeq(s, 1, k) \o SubSeq(s, k + 1, n) = SubSeq(s, 1, n)
         /\ SubSeq(s, 1, k) \in Seq(Byte) /\ SubSeq(s, k + 1, n) \in Seq(Byte)
         /\ Len(SubSeq(s, 1, n)) = n
         /\ Len(SubSeq(s, k + 1, n)) = n - k
         /\ \A j \in 1 .. n - k : SubSeq(s, k + 1, n)[j] = s[k + j]
<1>1. Len(s) \in Nat /\ k <= Len(s) /\ k + 1 \in Nat /\ k + 1 > 0
  OBVIOUS
<1>2. 1 \in 1 .. Len(s) + 1 /\ k \in 1 - 1 .. Len(s) /\ n \in k .. Len(s)
  BY <1>1
<1>3. SubSeq(s, 1, k) \o SubSeq(s, k + 1, n) = SubSeq(s, 1, n)
  BY <1>2, ConcatAdjacentSubSeq
<1>4. SubSeq(s, 1, k) \in Seq(Byte) /\ Len(SubSeq(s, 1, n)) = n
  BY <1>1, Part
<1>5. /\ SubSeq(s, k + 1, n) \in Seq(Byte)
      /\ Len(SubSeq(s, k + 1, n)) = n - k
      /\ \A j \in 1 .. n - k : SubSeq(s, k + 1, n)[j] = s[k + j]
  <2>1. /\ SubSeq(s, k + 1, n) \in Seq(Byte)
        /\ Len(SubSeq(s, k + 1, n)) = IF k + 1 <= n THEN n - (k + 1) + 1 ELSE 0
        /\ \A j \in 1 .. n - (k + 1) + 1 : SubSeq(s, k + 1, n)[j] = s[k + 1 + j - 1]
    BY <1>1, Part
  <2>2. n - (k + 1) + 1 = n - k /\ \A j \in 1 .. n - k : k + 1 + j - 1 = k + j
    BY <1>1
  <2> QED BY <2>1, <2>2
<1> QED BY <1>3, <1>4, <1>5

\* The output of a call that is done is a byte string.
LEMMA OutputBytes ==
  ASSUME NEW buf, NEW size \in Nat, Len(buf) \in Nat, size <= Len(buf),
         \A n \in 1 .. size : buf[n] \in Byte \ {0}
  PROVE  LET t == SubSeq(buf, 1, size)
         IN  /\ t \in Seq(Byte) /\ Len(t) = size
             /\ \A n \in 1 .. size : t[n] = buf[n] /\ t[n] # 0
<1> DEFINE t == SubSeq(buf, 1, size)
<1>1. /\ t \in Seq(Byte) /\ Len(t) = IF 1 <= size THEN size - 1 + 1 ELSE 0
      /\ \A n \in 1 .. size - 1 + 1 : t[n] = buf[1 + n - 1]
  <2>1. \A n \in 1 .. size : buf[n] \in Byte
    OBVIOUS
  <2>2. 1 \in Int /\ size \in Int
    OBVIOUS
  <2> QED BY <2>1, <2>2, SubSeqProperties
<1>2. size - 1 + 1 = size /\ \A n \in 1 .. size : 1 + n - 1 = n
  OBVIOUS
<1> QED BY <1>1, <1>2

-----------------------------------------------------------------------------
\* Before the call nothing is written, which means nothing.
LEMMA InitMeans == ASSUME Init, IInv PROVE Means
<1>1. /\ src_read_ptr = 0 /\ dst_code_write_ptr = 0 /\ search_len = 1 /\ pc = "call"
      /\ status = {} /\ src_byte = 0
  BY DEF Init
<1>2. Before = 0 /\ SubSeq(src, 1, Before) = <<>>
  <2>1. Before = 0
    BY <1>1 DEF Before
  <2> QED BY <2>1, SubSeqEmpty
<1>3. Copied
  BY <1>1 DEF Copied
<1>4. Passes(dst, dst_code_write_ptr, SubSeq(src, 1, Before))
  BY <1>1, <1>2, NoBlockYet
<1>5. ~Overflown
  BY <1>1 DEF Overflown
<1> QED BY <1>1, <1>2, <1>3, <1>4, <1>5 DEF Means, MeansSoFar

\* The call starts; a source that is empty is read to its end.
LEMMA StartMeans == ASSUME IInv, Means, Start PROVE Means'
<1>1. /\ pc = "call" /\ pc' = IF src = <<>> THEN "finish" ELSE "loop"
      /\ UNCHANGED <<reduced, null, src, dst, src_read_ptr, dst_code_write_ptr,
                     dst_write_ptr, src_byte, search_len, status, out_len, stray>>
  BY DEF Start
<1>2. MeansSoFar
  BY <1>1 DEF Means
<1>3. src = <<>> => src_read_ptr = Len(src)
  BY <1>1 DEF IInv, Stages
<1>4. Before' = Before /\ Copied' = Copied /\ Overflown' = Overflown
  BY <1>1 DEF Before, Copied, Overflown
<1>5. /\ Before \in Nat /\ Copied
      /\ Passes(dst, dst_code_write_ptr, SubSeq(src, 1, Before))
      /\ dst_code_write_ptr > 0 =>
           \E m \in 0 .. Before : Stops(dst, dst_code_write_ptr, SubSeq(src, 1, m))
      /\ search_len > 1 => src_byte = src[src_read_ptr]
      /\ Overflown => src_read_ptr < Len(src)
      /\ ~Overflown /\ search_len = 1 => src_byte = 0
  BY <1>1, <1>2 DEF MeansSoFar
<1>6. MeansSoFar'
  BY <1>1, <1>3, <1>4, <1>5 DEF MeansSoFar
<1> QED BY <1>1, <1>6 DEF Means

\* No room for the next byte: bytes of the source are left.
LEMMA OverflowMeans == ASSUME IInv, Means, Overflow PROVE Means'
<1>1. /\ pc = "loop" /\ pc' = "finish"
      /\ status' = status \cup {"OUT_BUFFER_OVERFLOW"}
      /\ UNCHANGED <<reduced, null, src, dst, src_read_ptr, dst_code_write_ptr,
                     dst_write_ptr, src_byte, search_len, out_len, stray>>
  BY DEF Overflow
<1>2. /\ Before \in Nat /\ Copied
      /\ Passes(dst, dst_code_write_ptr, SubSeq(src, 1, Before))
      /\ dst_code_write_ptr > 0 =>
           \E m \in 0 .. Before : Stops(dst, dst_code_write_ptr, SubSeq(src, 1, m))
      /\ search_len > 1 => src_byte = src[src_read_ptr]
  BY <1>1 DEF Means, MeansSoFar
<1>3. Before' = Before /\ Copied' = Copied /\ Overflown'
  BY <1>1 DEF Before, Copied, Overflown
<1>4. src_read_ptr < Len(src)
  BY <1>1 DEF IInv, Stages
<1>5. MeansSoFar'
  BY <1>1, <1>2, <1>3, <1>4 DEF MeansSoFar
<1> QED BY <1>1, <1>5 DEF Means

\* The null check.
LEMMA RejectNullMeans == ASSUME IInv, Means, RejectNull PROVE Means'
<1>1. pc' = "done" /\ null'
  BY DEF RejectNull
<1> QED BY <1>1 DEF Means, ReadsBack

\* What an iteration of the loop knows.
LEMMA Iteration ==
  ASSUME IInv, Means, NEW b \in Byte, Read(b)
  PROVE  /\ pc = "loop" /\ src \in Seq(Byte) /\ Len(src) \in Nat
         /\ src_read_ptr \in Nat /\ src_read_ptr + 1 <= Len(src)
         /\ src_byte' = b /\ b = src[src_read_ptr + 1]
         /\ src_read_ptr' = src_read_ptr + 1
         /\ pc' = IF src_read_ptr + 1 >= Len(src) THEN "finish" ELSE "loop"
         /\ dst_code_write_ptr \in Nat /\ dst_code_write_ptr < Len(dst)
         /\ dst_write_ptr = dst_code_write_ptr + search_len /\ dst_write_ptr < Len(dst)
         /\ dst \in Seq(Byte \cup {Unwritten}) /\ Len(dst) \in Nat
         /\ search_len \in 1 .. MaxCode /\ search_len < MaxCode /\ MaxCode \in Nat
         /\ ~Overflown
         /\ Before \in Nat /\ Before + search_len = src_read_ptr + 1
         /\ Copied
         /\ Passes(dst, dst_code_write_ptr, SubSeq(src, 1, Before))
         /\ dst_code_write_ptr > 0 =>
              \E m \in 0 .. Before : Stops(dst, dst_code_write_ptr, SubSeq(src, 1, m))
<1>1. /\ pc = "loop" /\ src_read_ptr < Len(src) /\ dst_write_ptr < Len(dst)
      /\ dst_code_write_ptr < Len(dst)
      /\ search_len < MaxCode /\ ~Overflown
      /\ src_byte' = b /\ src_read_ptr' = src_read_ptr + 1
      /\ pc' = IF src_read_ptr + 1 >= Len(src) THEN "finish" ELSE "loop"
  BY RoomToWrite
<1>2. b = src[src_read_ptr + 1]
  BY <1>1 DEF Read
<1>3. /\ Len(src) \in Nat /\ src_read_ptr \in Nat /\ Len(dst) \in Nat
      /\ dst_code_write_ptr \in Nat /\ search_len \in 1 .. MaxCode /\ MaxCode \in Nat
      /\ dst_write_ptr = dst_code_write_ptr + search_len
  BY <1>1, Numbers, Codes
<1>4. src \in Seq(Byte) /\ dst \in Seq(Byte \cup {Unwritten})
  BY DEF IInv, TypeOK
<1>5. /\ Before \in Nat /\ Copied
      /\ Passes(dst, dst_code_write_ptr, SubSeq(src, 1, Before))
      /\ dst_code_write_ptr > 0 =>
           \E m \in 0 .. Before : Stops(dst, dst_code_write_ptr, SubSeq(src, 1, m))
  BY <1>1 DEF Means, MeansSoFar
<1>6. Before + search_len = src_read_ptr + 1
  BY <1>3 DEF Before
<1>7. src_read_ptr + 1 <= Len(src)
  BY <1>1, <1>3
<1> QED BY <1>1, <1>2, <1>3, <1>4, <1>5, <1>6, <1>7

\* A zero is read: the block that ends there means the source up to the zero, and the
\* zero too if another block follows.
LEMMA EncodeZeroMeans == ASSUME IInv, Means, EncodeZero PROVE Means'
<1> DEFINE at    == dst_code_write_ptr
           k     == Before
           read  == src_read_ptr
           bytes == SubSeq(src, k + 1, read)
<1>1. /\ dst' = [dst EXCEPT ![at + 1] = search_len]
      /\ dst_code_write_ptr' = dst_write_ptr
      /\ search_len' = 1 /\ Read(0) /\ src' = src /\ status' = status
  BY DEF EncodeZero
<1>2. 0 \in Byte
  BY Codes
<1>3. /\ pc = "loop" /\ src \in Seq(Byte) /\ Len(src) \in Nat
      /\ read \in Nat /\ read + 1 <= Len(src)
      /\ src_byte' = 0 /\ 0 = src[read + 1] /\ src_read_ptr' = read + 1
      /\ pc' = IF read + 1 >= Len(src) THEN "finish" ELSE "loop"
      /\ at \in Nat /\ at < Len(dst)
      /\ dst_write_ptr = at + search_len /\ dst_write_ptr < Len(dst)
      /\ dst \in Seq(Byte \cup {Unwritten}) /\ Len(dst) \in Nat
      /\ search_len \in 1 .. MaxCode /\ search_len < MaxCode /\ MaxCode \in Nat
      /\ ~Overflown
      /\ k \in Nat /\ k + search_len = read + 1
      /\ Copied
      /\ Passes(dst, at, SubSeq(src, 1, k))
  BY <1>1, <1>2, Iteration
<1>4. \A n \in 1 .. Len(dst) : dst'[n] = IF n = at + 1 THEN search_len ELSE dst[n]
  <2>1. search_len \in Byte \cup {Unwritten}
    BY <1>3, Codes
  <2> QED BY <1>1, <1>3, <2>1, Overwritten
<1>5. Before' = read + 1
  BY <1>1, <1>3 DEF Before
<1>6. Copied'
  BY <1>1 DEF Copied
<1>7. ~Overflown'
  BY <1>1, <1>3 DEF Overflown
<1>8. /\ SubSeq(src, 1, k) \o bytes = SubSeq(src, 1, read)
      /\ SubSeq(src, 1, k) \in Seq(Byte) /\ bytes \in Seq(Byte)
      /\ Len(bytes) = search_len - 1
      /\ \A j \in 1 .. search_len - 1 : bytes[j] = src[k + j]
  <2>1. k <= read /\ read <= Len(src) /\ read - k = search_len - 1
    BY <1>3
  <2> QED BY <1>3, <2>1, Joins
<1>9. SubSeq(src, 1, k) \o (bytes \o <<0>>) = SubSeq(src, 1, read + 1)
  <2>1. /\ SubSeq(src, 1, read) \o SubSeq(src, read + 1, read + 1) = SubSeq(src, 1, read + 1)
        /\ SubSeq(src, read + 1, read + 1) \in Seq(Byte)
        /\ Len(SubSeq(src, read + 1, read + 1)) = (read + 1) - read
        /\ \A j \in 1 .. (read + 1) - read :
             SubSeq(src, read + 1, read + 1)[j] = src[read + j]
    BY <1>3, Joins
  <2> DEFINE one == SubSeq(src, read + 1, read + 1)
  <2>2. Len(one) = 1 /\ one[1] = 0 /\ one \in Seq(Byte)
    BY <1>3, <2>1
  <2>3. one = <<0>>
    <3> HIDE DEF one
    <3>1. <<0>> \in Seq(Byte) /\ Len(<<0>>) = 1 /\ <<0>>[1] = 0
      BY <1>2
    <3>2. \A j \in 1 .. Len(one) : one[j] = <<0>>[j]
      BY <2>2, <3>1
    <3> QED BY <2>2, <3>1, <3>2, SeqEqual
  <2> DEFINE head == SubSeq(src, 1, k)
             mid  == bytes
  <2>4. (head \o mid) \o <<0>> = head \o (mid \o <<0>>)
    <3>1. <<0>> \in Seq(Byte)
      BY <1>2
    <3>2. head \in Seq(Byte) /\ mid \in Seq(Byte)
      BY <1>8
    <3> HIDE DEF head, mid
    <3> QED BY <3>1, <3>2, Joined
  <2> QED BY <1>8, <2>1, <2>3, <2>4
<1> HIDE DEF at, k, read, bytes
<1>10. /\ Stops(dst', at + search_len, SubSeq(src, 1, k) \o bytes)
       /\ Passes(dst', at + search_len, SubSeq(src, 1, k) \o (bytes \o <<0>>))
  <2>1. AgreeTo(dst', dst, at)
    <3> SUFFICES ASSUME NEW n \in 1 .. at PROVE dst'[n] = dst[n]
      BY DEF AgreeTo
    <3>1. n \in 1 .. Len(dst) /\ n # at + 1
      BY <1>3
    <3> QED BY <1>4, <3>1
  <2>2. dst'[at + 1] = search_len
    <3>1. at + 1 \in 1 .. Len(dst)
      BY <1>3
    <3> QED BY <1>4, <3>1
  <2>3. \A n \in 1 .. search_len - 1 : dst'[at + 1 + n] = bytes[n]
    <3> SUFFICES ASSUME NEW n \in 1 .. search_len - 1 PROVE dst'[at + 1 + n] = bytes[n]
      OBVIOUS
    <3>1. at + 1 + n \in 1 .. Len(dst) /\ at + 1 + n # at + 1
      BY <1>3
    <3>2. dst[at + 1 + n] = src[k + n]
      BY <1>3 DEF Copied, at, k
    <3> QED BY <1>4, <1>8, <3>1, <3>2
  <2>4. search_len = Len(bytes) + 1 /\ search_len # MaxCode
    BY <1>3, <1>8
  <2>5. SubSeq(src, 1, k) \in Seq(Byte) /\ bytes \in Seq(Byte)
    BY <1>8
  <2> QED BY <1>3, <2>1, <2>2, <2>3, <2>4, <2>5, OneMoreBlock
<1>11. read \in 0 .. read + 1
  BY <1>3
<1>12. MeansSoFar'
  <2>1. Before' \in Nat /\ src_read_ptr' = read + 1 /\ dst_code_write_ptr' = at + search_len
        /\ (pc' = "finish" => read + 1 = Len(src))
    BY <1>1, <1>3, <1>5
  <2>2. Passes(dst', dst_code_write_ptr', SubSeq(src', 1, Before'))
    BY <1>1, <1>5, <1>9, <1>10, <2>1
  <2>3. \E m \in 0 .. Before' : Stops(dst', dst_code_write_ptr', SubSeq(src', 1, m))
    BY <1>1, <1>5, <1>8, <1>10, <1>11, <2>1
  <2> QED BY <1>1, <1>3, <1>6, <1>7, <2>1, <2>2, <2>3 DEF MeansSoFar
<1> QED BY <1>3, <1>12 DEF Means

\* A byte is copied, and does not fill its block, or ends the source.
LEMMA CopyByteMeans ==
  ASSUME IInv, Means, NEW b \in Byte \ {0}, Read(b),
         dst' = [dst EXCEPT ![dst_write_ptr + 1] = b],
         dst_code_write_ptr' = dst_code_write_ptr,
         search_len' = search_len + 1, src' = src, status' = status
  PROVE  Means'
<1> DEFINE at   == dst_code_write_ptr
           k    == Before
           read == src_read_ptr
<1>1. /\ pc = "loop" /\ src \in Seq(Byte) /\ Len(src) \in Nat
      /\ read \in Nat /\ read + 1 <= Len(src)
      /\ src_byte' = b /\ b = src[read + 1] /\ src_read_ptr' = read + 1
      /\ pc' = IF read + 1 >= Len(src) THEN "finish" ELSE "loop"
      /\ at \in Nat /\ at < Len(dst)
      /\ dst_write_ptr = at + search_len /\ dst_write_ptr < Len(dst)
      /\ dst \in Seq(Byte \cup {Unwritten}) /\ Len(dst) \in Nat
      /\ search_len \in 1 .. MaxCode /\ search_len < MaxCode /\ MaxCode \in Nat
      /\ ~Overflown
      /\ k \in Nat /\ k + search_len = read + 1
      /\ Copied
      /\ Passes(dst, at, SubSeq(src, 1, k))
      /\ at > 0 => \E m \in 0 .. k : Stops(dst, at, SubSeq(src, 1, m))
  BY Iteration
<1>2. \A n \in 1 .. Len(dst) : dst'[n] = IF n = dst_write_ptr + 1 THEN b ELSE dst[n]
  <2>1. b \in Byte \cup {Unwritten} /\ dst_write_ptr \in Nat
    BY <1>1
  <2> QED BY <1>1, <2>1, Overwritten
<1>3. Before' = k
  BY <1>1 DEF Before
<1>4. ~Overflown'
  BY <1>1 DEF Overflown
<1>5. AgreeTo(dst', dst, at)
  <2> SUFFICES ASSUME NEW n \in 1 .. at PROVE dst'[n] = dst[n]
    BY DEF AgreeTo
  <2>1. n \in 1 .. Len(dst) /\ n # dst_write_ptr + 1
    BY <1>1
  <2> QED BY <1>2, <2>1
<1>6. Copied'
  <2> SUFFICES ASSUME NEW n \in 1 .. search_len PROVE dst'[at + 1 + n] = src[k + n]
    <3>1. search_len' - 1 = search_len
      BY <1>1
    <3> QED BY <1>3, <3>1 DEF Copied
  <2>1. CASE n = search_len
    <3>1. at + 1 + n = dst_write_ptr + 1 /\ at + 1 + n \in 1 .. Len(dst)
          /\ k + n = read + 1
      BY <1>1, <2>1
    <3> QED BY <1>1, <1>2, <3>1
  <2>2. CASE n # search_len
    <3>1. at + 1 + n # dst_write_ptr + 1 /\ at + 1 + n \in 1 .. Len(dst)
          /\ n \in 1 .. search_len - 1
      BY <1>1, <2>2
    <3>2. dst[at + 1 + n] = src[k + n]
      BY <1>1, <3>1 DEF Copied
    <3> QED BY <1>2, <3>1, <3>2
  <2> QED BY <2>1, <2>2
<1> HIDE DEF at, k, read
<1>7. Passes(dst', at, SubSeq(src, 1, k))
      /\ (at > 0 => \E m \in 0 .. k : Stops(dst', at, SubSeq(src, 1, m)))
  BY <1>1, <1>5, SamePrefix
<1>8. dst_code_write_ptr' = at
  BY DEF at
<1>9. search_len' # 1 /\ (pc' = "finish" => read + 1 = Len(src))
  BY <1>1
<1>10. MeansSoFar'
  BY <1>1, <1>3, <1>4, <1>6, <1>7, <1>8, <1>9 DEF MeansSoFar
<1> QED BY <1>1, <1>10 DEF Means

\* A byte fills its block, and bytes are left.
LEMMA FillBlockMeans ==
  ASSUME IInv, Means, NEW b \in Byte \ {0}, Read(b), BlockFull,
         dst' = [dst EXCEPT ![dst_write_ptr + 1] = b,
                            ![dst_code_write_ptr + 1] = search_len + 1],
         dst_code_write_ptr' = dst_write_ptr + 1,
         search_len' = 1, src' = src, status' = status
  PROVE  Means'
<1> DEFINE at    == dst_code_write_ptr
           k     == Before
           read  == src_read_ptr
           bytes == SubSeq(src, k + 1, read + 1)
<1>1. /\ pc = "loop" /\ src \in Seq(Byte) /\ Len(src) \in Nat
      /\ read \in Nat /\ read + 1 <= Len(src)
      /\ src_byte' = b /\ b = src[read + 1] /\ src_read_ptr' = read + 1
      /\ pc' = IF read + 1 >= Len(src) THEN "finish" ELSE "loop"
      /\ at \in Nat /\ at < Len(dst)
      /\ dst_write_ptr = at + search_len /\ dst_write_ptr < Len(dst)
      /\ dst \in Seq(Byte \cup {Unwritten}) /\ Len(dst) \in Nat
      /\ search_len \in 1 .. MaxCode /\ MaxCode \in Nat
      /\ ~Overflown
      /\ k \in Nat /\ k + search_len = read + 1
      /\ Copied
      /\ Passes(dst, at, SubSeq(src, 1, k))
  BY Iteration
<1>2. search_len + 1 = MaxCode /\ read + 1 < Len(src)
  BY DEF BlockFull
<1>3. \A n \in 1 .. Len(dst) :
        dst'[n] = IF n = at + 1 THEN MaxCode
                  ELSE IF n = dst_write_ptr + 1 THEN b ELSE dst[n]
  <2> DEFINE once == [dst EXCEPT ![dst_write_ptr + 1] = b]
  <2>1. b \in Byte \cup {Unwritten} /\ dst_write_ptr \in Nat
    BY <1>1
  <2>2. /\ once \in Seq(Byte \cup {Unwritten}) /\ Len(once) = Len(dst)
        /\ \A n \in 1 .. Len(dst) : once[n] = IF n = dst_write_ptr + 1 THEN b ELSE dst[n]
    BY <1>1, <2>1, Overwritten
  <2>3. dst' = [once EXCEPT ![at + 1] = MaxCode]
    BY <1>2
  <2> HIDE DEF once, at
  <2>4. at < Len(once) /\ MaxCode \in Byte \cup {Unwritten}
    BY <1>1, <2>2, Codes DEF Byte
  <2> DEFINE twice == [once EXCEPT ![at + 1] = MaxCode]
  <2>5. \A n \in 1 .. Len(once) : twice[n] = IF n = at + 1 THEN MaxCode ELSE once[n]
    BY <1>1, <2>2, <2>4, Overwritten
  <2> QED BY <2>2, <2>3, <2>5
<1>4. Before' = read + 1
  BY <1>1 DEF Before
<1>5. Copied'
  BY DEF Copied
<1>6. ~Overflown'
  BY <1>1 DEF Overflown
<1>7. /\ SubSeq(src, 1, k) \o bytes = SubSeq(src, 1, read + 1)
      /\ SubSeq(src, 1, k) \in Seq(Byte) /\ bytes \in Seq(Byte)
      /\ Len(bytes) = search_len
      /\ \A j \in 1 .. search_len : bytes[j] = src[k + j]
  <2>1. k <= read + 1 /\ (read + 1) - k = search_len /\ read + 1 \in Nat
    BY <1>1
  <2> QED BY <1>1, <2>1, Joins
<1> HIDE DEF at, k, read, bytes
<1>8. bytes \o <<>> = bytes
  BY <1>7, ConcatEmptySeq
<1>9. /\ Stops(dst', at + MaxCode, SubSeq(src, 1, k) \o bytes)
      /\ Passes(dst', at + MaxCode, SubSeq(src, 1, k) \o bytes)
  <2>1. AgreeTo(dst', dst, at)
    <3> SUFFICES ASSUME NEW n \in 1 .. at PROVE dst'[n] = dst[n]
      BY DEF AgreeTo
    <3>1. n \in 1 .. Len(dst) /\ n # at + 1 /\ n # dst_write_ptr + 1
      BY <1>1
    <3> QED BY <1>3, <3>1
  <2>2. dst'[at + 1] = MaxCode
    <3>1. at + 1 \in 1 .. Len(dst)
      BY <1>1
    <3> QED BY <1>3, <3>1
  <2>3. ASSUME NEW n \in 1 .. MaxCode - 1 PROVE dst'[at + 1 + n] = bytes[n]
    <3>1. at + 1 + n \in 1 .. Len(dst) /\ at + 1 + n # at + 1 /\ n \in 1 .. search_len
      BY <1>1, <1>2
    <3>2. CASE n = search_len
      <4>1. at + 1 + n = dst_write_ptr + 1 /\ k + n = read + 1
        BY <1>1, <3>2
      <4> QED BY <1>1, <1>3, <1>7, <3>1, <4>1
    <3>3. CASE n # search_len
      <4>1. at + 1 + n # dst_write_ptr + 1 /\ n \in 1 .. search_len - 1
        BY <1>1, <3>1, <3>3
      <4>2. dst[at + 1 + n] = src[k + n]
        BY <1>1, <4>1 DEF Copied, at, k
      <4> QED BY <1>3, <1>7, <3>1, <4>1, <4>2
    <3> QED BY <3>2, <3>3
  <2>4. MaxCode = Len(bytes) + 1 /\ MaxCode \in 1 .. MaxCode
    BY <1>1, <1>2, <1>7
  <2>5. SubSeq(src, 1, k) \in Seq(Byte) /\ bytes \in Seq(Byte)
    BY <1>7
  <2>6. /\ Stops(dst', at + MaxCode, SubSeq(src, 1, k) \o bytes)
        /\ Passes(dst', at + MaxCode, SubSeq(src, 1, k) \o (bytes \o <<>>))
    BY <1>1, <2>1, <2>2, <2>3, <2>4, <2>5, OneMoreBlock
  <2> QED BY <1>8, <2>6
<1>10. read + 1 \in 0 .. read + 1
  BY <1>1
<1>11. MeansSoFar'
  <2>1. Before' \in Nat /\ src_read_ptr' = read + 1 /\ pc' = "loop"
        /\ dst_code_write_ptr' = at + MaxCode
    BY <1>1, <1>2, <1>4
  <2>2. Passes(dst', dst_code_write_ptr', SubSeq(src', 1, Before'))
    BY <1>4, <1>7, <1>9, <2>1
  <2>3. \E m \in 0 .. Before' : Stops(dst', dst_code_write_ptr', SubSeq(src', 1, m))
    BY <1>4, <1>7, <1>9, <1>10, <2>1
  <2> QED BY <1>1, <1>5, <1>6, <2>1, <2>2, <2>3 DEF MeansSoFar
<1> QED BY <1>1, <1>2, <1>11 DEF Means

\* A byte is copied; a full block is closed in the same iteration.
LEMMA EncodeNonZeroMeans == ASSUME IInv, Means, EncodeNonZero PROVE Means'
<1>1. PICK b \in Byte \ {0} :
        /\ Read(b)
        /\ dst' = IF BlockFull
                  THEN [dst EXCEPT ![dst_write_ptr + 1] = b,
                                   ![dst_code_write_ptr + 1] = search_len + 1]
                  ELSE [dst EXCEPT ![dst_write_ptr + 1] = b]
  BY DEF EncodeNonZero
<1>2. src' = src /\ status' = status
  BY DEF EncodeNonZero
<1>3. CASE BlockFull
  <2>1. dst_code_write_ptr' = dst_write_ptr + 1 /\ search_len' = 1
    BY <1>3 DEF EncodeNonZero, SearchLenAfterByte
  <2> QED BY <1>1, <1>2, <1>3, <2>1, FillBlockMeans
<1>4. CASE ~BlockFull
  <2>1. search_len \in 1 .. MaxCode /\ search_len < MaxCode /\ MaxCode \in Nat
    BY <1>1, Iteration
  <2>2. (search_len + 1) % (MaxCode + 1) = search_len + 1
    <3> DEFINE c == MaxCode + 1
               n == search_len + 1
    <3>1. c \in Nat /\ n \in Nat /\ n < c
      BY <2>1
    <3> HIDE DEF c, n
    <3>2. n % c = n
      BY <3>1, NoWrap
    <3> QED BY <3>2 DEF c, n
  <2>3. dst_code_write_ptr' = dst_code_write_ptr /\ search_len' = search_len + 1
    BY <1>4, <2>2 DEF EncodeNonZero, SearchLenAfterByte
  <2> QED BY <1>1, <1>2, <1>4, <2>3, CopyByteMeans
<1> QED BY <1>3, <1>4

-----------------------------------------------------------------------------
\* A beginning of the source.
LEMMA Beginning ==
  ASSUME NEW s \in Seq(Byte), NEW m \in 0 .. Len(s)
  PROVE  /\ StartsWith(s, SubSeq(s, 1, m))
         /\ m = Len(s) => SubSeq(s, 1, m) = s
         /\ m < Len(s) => SubSeq(s, 1, m) # s
<1>1. Len(SubSeq(s, 1, m)) = m
  BY Part
<1>2. m = Len(s) => SubSeq(s, 1, m) = s
  BY SubSeqFull
<1> QED BY <1>1, <1>2 DEF StartsWith

\* What the end of a call knows.
LEMMA Finishing ==
  ASSUME IInv, Means, pc = "finish", dst_code_write_ptr < Len(dst)
  PROVE  /\ src \in Seq(Byte) /\ Len(src) \in Nat
         /\ src_read_ptr \in Nat /\ src_read_ptr <= Len(src)
         /\ dst_code_write_ptr \in Nat /\ dst_write_ptr \in Nat
         /\ dst_write_ptr = dst_code_write_ptr + search_len /\ dst_write_ptr <= Len(dst)
         /\ dst \in Seq(Byte \cup {Unwritten}) /\ Len(dst) \in Nat
         /\ search_len \in 1 .. MaxCode /\ search_len \in Nat
         /\ Before \in Nat /\ Before + search_len = src_read_ptr + 1
         /\ Copied
         /\ Passes(dst, dst_code_write_ptr, SubSeq(src, 1, Before))
         /\ dst_code_write_ptr > 0 =>
              \E m \in 0 .. Before : Stops(dst, dst_code_write_ptr, SubSeq(src, 1, m))
         /\ search_len > 1 => src_byte = src[src_read_ptr]
         /\ Overflown => src_read_ptr < Len(src)
         /\ ~Overflown => src_read_ptr = Len(src)
         /\ ~Overflown /\ search_len = 1 => src_byte = 0
<1>1. /\ Len(src) \in Nat /\ src_read_ptr \in Nat /\ src_read_ptr <= Len(src)
      /\ dst_code_write_ptr \in Nat /\ dst_write_ptr \in Nat
      /\ dst_write_ptr = dst_code_write_ptr + search_len
      /\ dst_write_ptr <= Len(dst)
      /\ Len(dst) \in Nat
  BY Numbers DEF IInv, Pointers
<1>2. src \in Seq(Byte) /\ dst \in Seq(Byte \cup {Unwritten}) /\ search_len \in 1 .. MaxCode
  BY DEF IInv, TypeOK
<1>3. search_len \in Nat /\ Before + search_len = src_read_ptr + 1
  BY <1>1, <1>2, Numbers DEF Before
<1>4. MeansSoFar
  BY DEF Means
<1> QED BY <1>1, <1>2, <1>3, <1>4 DEF MeansSoFar

\* The bytes behind the place of the last code are those of the source.
LEMMA LastBytes ==
  ASSUME IInv, Means, pc = "finish", dst_code_write_ptr < Len(dst),
         NEW size \in Nat, size <= search_len, size > 0,
         NEW t \in Seq(Byte), Len(t) = dst_code_write_ptr + size,
         \A n \in dst_code_write_ptr + 2 .. Len(t) : t[n] = dst[n]
  PROVE  /\ SubSeq(src, 1, Before) \o SubSeq(t, dst_code_write_ptr + 2, Len(t))
              = SubSeq(src, 1, Before + size - 1)
         /\ SubSeq(src, 1, Before) \in Seq(Byte)
         /\ Before + size - 1 \in 0 .. src_read_ptr
<1> DEFINE at == dst_code_write_ptr
           u  == SubSeq(t, at + 2, Len(t))
           k  == Before
           m  == Before + size - 1
           v  == SubSeq(src, k + 1, m)
<1>1. /\ at \in Nat /\ search_len \in Nat /\ k \in Nat /\ k + search_len = src_read_ptr + 1
      /\ src_read_ptr \in Nat /\ src_read_ptr <= Len(src) /\ Len(src) \in Nat
      /\ src \in Seq(Byte) /\ Copied
  BY Finishing
<1>2. /\ u \in Seq(Byte)
      /\ Len(u) = IF at + 2 <= Len(t) THEN Len(t) - (at + 2) + 1 ELSE 0
      /\ \A j \in 1 .. Len(t) - (at + 2) + 1 : u[j] = t[at + 2 + j - 1]
  <2>1. at + 2 \in Nat /\ at + 2 > 0 /\ Len(t) \in Nat
    BY <1>1
  <2> QED BY <2>1, Part
<1>3. k <= m /\ m <= Len(src) /\ m \in Nat /\ m - k = size - 1 /\ m \in 0 .. src_read_ptr
  BY <1>1
<1>4. /\ SubSeq(src, 1, k) \o v = SubSeq(src, 1, m)
      /\ SubSeq(src, 1, k) \in Seq(Byte) /\ v \in Seq(Byte)
      /\ Len(v) = m - k
      /\ \A j \in 1 .. m - k : v[j] = src[k + j]
  <2> HIDE DEF m
  <2> QED BY <1>1, <1>3, Joins
<1> HIDE DEF u, v, m
<1>5. Len(u) = size - 1
  BY <1>1, <1>2
<1>6. ASSUME NEW j \in 1 .. size - 1 PROVE u[j] = v[j]
  <2>1. j \in 1 .. Len(t) - (at + 2) + 1 /\ at + 2 + j - 1 = at + 1 + j
        /\ at + 1 + j \in at + 2 .. Len(t) /\ j \in 1 .. search_len - 1
    BY <1>1
  <2>2. u[j] = dst[at + 1 + j]
    BY <1>2, <2>1
  <2>3. dst[at + 1 + j] = src[k + j]
    BY <1>1, <2>1 DEF Copied
  <2> QED BY <1>3, <1>4, <2>2, <2>3
<1>7. u = v
  <2>1. Len(u) = Len(v) /\ \A j \in 1 .. Len(u) : u[j] = v[j]
    BY <1>3, <1>4, <1>5, <1>6
  <2> QED BY <1>2, <1>4, <2>1, SeqEqual
<1> QED BY <1>3, <1>4, <1>7 DEF u, m

\* What the whole output means, if it has a last block.
LEMMA LastBlockMeans ==
  ASSUME IInv, Means, pc = "finish", dst_code_write_ptr < Len(dst),
         NEW size \in Nat, size <= search_len, size > 0,
         NEW t \in Seq(Byte), Len(t) = dst_code_write_ptr + size,
         \A n \in 1 .. Len(t) : n # dst_code_write_ptr + 1 => t[n] = dst[n],
         NEW code \in Nat, t[dst_code_write_ptr + 1] = code, code >= size
  PROVE  /\ Blocks(t).end = dst_code_write_ptr + code
         /\ Blocks(t).code = code
         /\ Blocks(t).data = SubSeq(src, 1, Before + size - 1)
         /\ Before + size - 1 \in 0 .. src_read_ptr
<1> DEFINE at == dst_code_write_ptr
<1>1. at \in Nat /\ Passes(dst, at, SubSeq(src, 1, Before)) /\ Len(t) > at
  BY Finishing
<1>2. \A n \in at + 2 .. Len(t) : t[n] = dst[n]
  <2>1. \A n \in at + 2 .. Len(t) : n \in 1 .. Len(t) /\ n # at + 1
    BY <1>1
  <2> QED BY <2>1
<1>3. /\ SubSeq(src, 1, Before) \o SubSeq(t, at + 2, Len(t))
           = SubSeq(src, 1, Before + size - 1)
      /\ SubSeq(src, 1, Before) \in Seq(Byte)
      /\ Before + size - 1 \in 0 .. src_read_ptr
  BY <1>2, LastBytes
<1>4. AgreeTo(t, dst, at)
  <2>1. \A n \in 1 .. at : n \in 1 .. Len(t) /\ n # at + 1
    BY <1>1
  <2> QED BY <2>1 DEF AgreeTo
<1>5. at + t[at + 1] >= Len(t)
  BY <1>1
<1>6. /\ Blocks(t).end = at + t[at + 1]
      /\ Blocks(t).code = t[at + 1]
      /\ Blocks(t).data = SubSeq(src, 1, Before) \o SubSeq(t, at + 2, Len(t))
  <2> HIDE DEF at
  <2> QED BY <1>1, <1>3, <1>4, <1>5, LastBlock
<1> QED BY <1>3, <1>6

\* The last code is written at its place.
LEMMA WriteLastCodeMeans == ASSUME IInv, Means, WriteLastCode PROVE Means'
<1> DEFINE at == dst_code_write_ptr
           t  == SubSeq(dst', 1, dst_write_ptr)
<1>1. /\ pc = "finish" /\ pc' = "done" /\ at < Len(dst)
      /\ dst' = [dst EXCEPT ![at + 1] = search_len]
      /\ out_len' = dst_write_ptr
      /\ reduced' = reduced /\ src' = src /\ status' = status
  BY DEF WriteLastCode
<1>2. /\ src \in Seq(Byte) /\ Len(src) \in Nat /\ src_read_ptr \in Nat
      /\ at \in Nat /\ dst_write_ptr \in Nat /\ dst_write_ptr = at + search_len
      /\ dst_write_ptr <= Len(dst)
      /\ dst \in Seq(Byte \cup {Unwritten}) /\ Len(dst) \in Nat
      /\ search_len \in 1 .. MaxCode /\ search_len \in Nat
      /\ Before \in Nat /\ Before + search_len = src_read_ptr + 1
      /\ Overflown => src_read_ptr < Len(src)
      /\ ~Overflown => src_read_ptr = Len(src)
  BY <1>1, Finishing
<1>3. /\ Len(dst') = Len(dst)
      /\ \A n \in 1 .. Len(dst) : dst'[n] = IF n = at + 1 THEN search_len ELSE dst[n]
  <2>1. search_len \in Byte \cup {Unwritten}
    BY <1>2, Codes
  <2> QED BY <1>1, <1>2, <2>1, Overwritten
<1>4. /\ t \in Seq(Byte) /\ Len(t) = dst_write_ptr
      /\ \A n \in 1 .. dst_write_ptr : t[n] = dst'[n] /\ t[n] # 0
  <2>1. \A n \in 1 .. dst_write_ptr : dst'[n] \in Byte \ {0}
    <3>1. NoZeroByte'
      BY WriteLastCodeStep DEF IInv
    <3> QED BY <1>1, <3>1 DEF NoZeroByte
  <2> QED BY <1>2, <1>3, <2>1, OutputBytes
<1> HIDE DEF t
<1>5. t[at + 1] = search_len
  <2>1. at + 1 \in 1 .. dst_write_ptr /\ at + 1 \in 1 .. Len(dst)
    BY <1>2
  <2> QED BY <1>3, <1>4, <2>1
<1>6. \A n \in 1 .. Len(t) : n # at + 1 => t[n] = dst[n]
  <2>1. \A n \in 1 .. dst_write_ptr : n \in 1 .. Len(dst)
    BY <1>2
  <2> QED BY <1>3, <1>4, <2>1
<1>7. /\ Blocks(t).end = at + search_len
      /\ Blocks(t).data = SubSeq(src, 1, Before + search_len - 1)
  <2>1. PICK c \in Nat : c = search_len
    BY <1>2
  <2>2. c <= search_len /\ c > 0 /\ c >= c /\ Len(t) = at + c /\ t[at + 1] = c
    BY <1>2, <1>4, <1>5, <2>1
  <2>3. Blocks(t).end = at + c /\ Blocks(t).data = SubSeq(src, 1, Before + c - 1)
    BY <1>1, <1>4, <1>6, <2>2, LastBlockMeans
  <2> QED BY <2>1, <2>3
<1>8. Before + search_len - 1 = src_read_ptr /\ src_read_ptr \in 0 .. Len(src)
  BY <1>2
<1>9. Output' = t
  BY <1>1 DEF Output, t
<1>10. Overflown' = Overflown
  BY <1>1 DEF Overflown
<1>11. Blocks(t).end = Len(t) /\ ~(Blocks(t).end > Len(t))
  BY <1>2, <1>4, <1>7
<1>12. WellFormed(t) /\ ReducedWellFormed(t)
  BY <1>4, <1>11 DEF WellFormed, ReducedWellFormed
<1>13. /\ Meaning(t) = SubSeq(src, 1, src_read_ptr)
       /\ ReducedMeaning(t) = SubSeq(src, 1, src_read_ptr)
  BY <1>7, <1>8, <1>11, Zenon DEF Meaning, ReducedMeaning
<1>14. IF Overflown
       THEN StartsWith(src, SubSeq(src, 1, src_read_ptr)) /\ SubSeq(src, 1, src_read_ptr) # src
       ELSE SubSeq(src, 1, src_read_ptr) = src
  BY <1>2, <1>8, Beginning
<1>15. ReadsBack'
  BY <1>1, <1>9, <1>10, <1>12, <1>13, <1>14 DEF ReadsBack
<1> QED BY <1>1, <1>15 DEF Means

\* cobsr_encode() puts the last byte at the place of the last code.
LEMMA WriteLastByteAsCodeMeans == ASSUME IInv, Means, WriteLastByteAsCode PROVE Means'
<1> DEFINE at   == dst_code_write_ptr
           size == dst_write_ptr - 1
           t    == SubSeq(dst', 1, size)
<1>1. /\ pc = "finish" /\ pc' = "done" /\ at < Len(dst)
      /\ dst' = [dst EXCEPT ![at + 1] = src_byte]
      /\ out_len' = size
      /\ reduced' = reduced /\ src' = src /\ status' = status
  BY DEF WriteLastByteAsCode
<1>2. /\ src \in Seq(Byte) /\ Len(src) \in Nat /\ src_read_ptr \in Nat
      /\ src_read_ptr <= Len(src)
      /\ at \in Nat /\ dst_write_ptr \in Nat /\ dst_write_ptr = at + search_len
      /\ dst_write_ptr <= Len(dst)
      /\ dst \in Seq(Byte \cup {Unwritten}) /\ Len(dst) \in Nat
      /\ search_len \in 1 .. MaxCode /\ search_len \in Nat
      /\ Before \in Nat /\ Before + search_len = src_read_ptr + 1
      /\ at > 0 => \E m \in 0 .. Before : Stops(dst, at, SubSeq(src, 1, m))
      /\ search_len > 1 => src_byte = src[src_read_ptr]
      /\ Overflown => src_read_ptr < Len(src)
      /\ ~Overflown => src_read_ptr = Len(src)
      /\ ~Overflown /\ search_len = 1 => src_byte = 0
  BY <1>1, Finishing
<1>3. reduced /\ src_byte \in Byte /\ src_byte \in Nat /\ src_byte >= search_len
  <2>1. reduced /\ ~(src_byte < search_len)
    BY Zenon DEF WriteLastByteAsCode, SameAsPlain
  <2>2. src_byte \in Byte /\ src_byte \in Nat
    BY Codes DEF IInv, TypeOK, Byte
  <2> QED BY <1>2, <2>1, <2>2
<1>4. /\ Len(dst') = Len(dst)
      /\ \A n \in 1 .. Len(dst) : dst'[n] = IF n = at + 1 THEN src_byte ELSE dst[n]
  BY <1>1, <1>2, <1>3, Overwritten
<1>5. size \in Nat /\ size <= Len(dst) /\ size = at + (search_len - 1)
  BY <1>2
<1>6. /\ t \in Seq(Byte) /\ Len(t) = size
      /\ \A n \in 1 .. size : t[n] = dst'[n] /\ t[n] # 0
  <2>1. \A n \in 1 .. size : dst'[n] \in Byte \ {0}
    <3>1. NoZeroByte'
      BY WriteLastByteAsCodeStep DEF IInv
    <3> QED BY <1>1, <3>1 DEF NoZeroByte
  <2> HIDE DEF size
  <2> QED BY <1>2, <1>4, <1>5, <2>1, OutputBytes
<1> HIDE DEF t, size
<1>7. \A n \in 1 .. Len(t) : n # at + 1 => t[n] = dst[n]
  <2>1. \A n \in 1 .. size : n \in 1 .. Len(dst)
    BY <1>2, <1>5
  <2> QED BY <1>4, <1>6, <2>1
<1>8. Output' = t
  BY <1>1 DEF Output, t
<1>9. Overflown' = Overflown
  BY <1>1 DEF Overflown
<1>10. ReducedWellFormed(t)
  BY <1>6 DEF ReducedWellFormed
<1>11. \E m \in 0 .. Len(src) :
         ReducedMeaning(t) = SubSeq(src, 1, m) /\ (~Overflown => m = Len(src))
  <2>1. CASE search_len = 1
    <3>1. Overflown
      BY <1>2, <1>3, <2>1
    <3>2. size = at
      BY <1>2, <1>5, <2>1
    <3>3. CASE at = 0
      <4>1. t = <<>>
        BY <1>6, <3>2, <3>3
      <4>2. Blocks(t).end = 0 /\ Blocks(t).data = <<>>
        BY <4>1 DEF Blocks
      <4>3. ~(Blocks(t).end > Len(t))
        BY <1>6, <3>2, <3>3, <4>2
      <4>4. ReducedMeaning(t) = SubSeq(src, 1, 0)
        BY <4>2, <4>3, SubSeqEmpty DEF ReducedMeaning
      <4> QED BY <1>2, <3>1, <4>4
    <3>4. CASE at # 0
      <4>1. PICK m \in 0 .. Before : Stops(dst, at, SubSeq(src, 1, m))
        BY <1>2, <3>4
      <4>2. AgreeTo(t, dst, at)
        <5>1. \A n \in 1 .. at : n \in 1 .. Len(t) /\ n # at + 1
          BY <1>2, <1>6, <3>2
        <5> QED BY <1>7, <5>1 DEF AgreeTo
      <4>3. Blocks(t).end = at /\ Blocks(t).data = SubSeq(src, 1, m)
        BY <1>6, <3>2, <4>1, <4>2 DEF Stops
      <4>4. ~(Blocks(t).end > Len(t))
        BY <1>2, <1>6, <3>2, <4>3
      <4>5. ReducedMeaning(t) = SubSeq(src, 1, m)
        BY <4>3, <4>4, Zenon DEF ReducedMeaning
      <4>6. m \in 0 .. Len(src)
        BY <1>2, <2>1
      <4> QED BY <3>1, <4>5, <4>6
    <3> QED BY <3>3, <3>4
  <2>2. CASE search_len # 1
    <3> DEFINE last == search_len - 1
    <3>1. /\ last \in Nat /\ last > 0 /\ last <= search_len /\ src_byte >= last
          /\ Len(t) = at + last
      BY <1>2, <1>3, <1>5, <1>6, <2>2
    <3>2. t[at + 1] = src_byte
      <4>1. at + 1 \in 1 .. size /\ at + 1 \in 1 .. Len(dst)
        BY <1>2, <1>5, <2>2
      <4> QED BY <1>4, <1>6, <4>1
    <3>3. /\ Blocks(t).end = at + src_byte /\ Blocks(t).code = src_byte
          /\ Blocks(t).data = SubSeq(src, 1, Before + last - 1)
      <4> HIDE DEF last, at
      <4> QED BY <1>1, <1>3, <1>6, <1>7, <3>1, <3>2, LastBlockMeans DEF at
    <3>4. Before + last - 1 = src_read_ptr - 1 /\ src_read_ptr \in 1 .. Len(src)
      BY <1>2, <2>2
    <3>5. Blocks(t).end > Len(t)
      BY <1>2, <1>3, <3>1, <3>3
    <3>6. ReducedMeaning(t) = Append(SubSeq(src, 1, src_read_ptr - 1), src[src_read_ptr])
      <4>1. src_byte = src[src_read_ptr]
        BY <1>2, <2>2
      <4> QED BY <3>3, <3>4, <3>5, <4>1 DEF ReducedMeaning
    <3>7. Append(SubSeq(src, 1, src_read_ptr - 1), src[src_read_ptr])
            = SubSeq(src, 1, src_read_ptr)
      <4> DEFINE init == SubSeq(src, 1, src_read_ptr - 1)
                 elt  == src[src_read_ptr]
      <4>1. /\ 1 \in 1 .. Len(src) /\ src_read_ptr \in 1 .. Len(src)
            /\ src_read_ptr - 1 \in Nat /\ src_read_ptr - 1 <= Len(src)
        BY <1>2, <3>4
      <4>2. SubSeq(src, 1, src_read_ptr) = init \o <<elt>>
        BY <1>2, <4>1, SubSeqRecursiveSecond
      <4>3. init \in Seq(Byte) /\ elt \in Byte
        <5>1. 1 \in Nat /\ 1 > 0
          OBVIOUS
        <5> QED BY <1>2, <4>1, <5>1, Part, ElementOfSeq
      <4> HIDE DEF init, elt
      <4>4. Append(init, elt) = init \o <<elt>>
        BY <4>3, AppendIsConcat
      <4> QED BY <4>2, <4>4 DEF init, elt
    <3>8. src_read_ptr \in 0 .. Len(src)
      BY <3>4
    <3> QED BY <1>2, <3>6, <3>7, <3>8
  <2> QED BY <2>1, <2>2
<1>12. ReadsBack'
  <2>1. PICK m \in 0 .. Len(src) :
          ReducedMeaning(t) = SubSeq(src, 1, m) /\ (~Overflown => m = Len(src))
    BY <1>11
  <2>2. IF Overflown THEN StartsWith(src, ReducedMeaning(t)) ELSE ReducedMeaning(t) = src
    BY <1>2, <2>1, Beginning
  <2> QED BY <1>1, <1>3, <1>8, <1>9, <1>10, <2>2 DEF ReadsBack
<1> QED BY <1>1, <1>12 DEF Means

\* No room for the last code: the output ends where its block would have begun.
LEMMA NoRoomForCodeMeans == ASSUME IInv, Means, NoRoomForCode PROVE Means'
<1> DEFINE size == Len(dst)
           t    == SubSeq(dst, 1, size)
<1>1. /\ pc = "finish" /\ pc' = "done" /\ dst_code_write_ptr >= Len(dst)
      /\ status' = status \cup {"OUT_BUFFER_OVERFLOW"}
      /\ out_len' = size
      /\ reduced' = reduced /\ src' = src /\ dst' = dst
  BY DEF NoRoomForCode
<1>2. /\ size \in Nat /\ dst_code_write_ptr = size /\ Len(src) \in Nat
      /\ src_read_ptr \in Nat /\ src_read_ptr <= Len(src)
      /\ search_len \in Nat /\ search_len >= 1
      /\ dst_write_ptr = src_read_ptr + FullBlocks + 1 /\ FullBlocks \in Nat
      /\ dst_write_ptr = dst_code_write_ptr + search_len
  BY <1>1, Numbers DEF IInv, Pointers
<1>3. src \in Seq(Byte)
  BY DEF IInv, TypeOK
<1>4. src # <<>> => Overflown
  <2>1. ~(dst_code_write_ptr < Len(dst))
    BY <1>2
  <2> QED BY <1>1, <2>1 DEF IInv, Stages
<1>5. /\ Before \in Nat
      /\ size > 0 => \E m \in 0 .. Before : Stops(dst, size, SubSeq(src, 1, m))
      /\ Overflown => src_read_ptr < Len(src)
  BY <1>1, <1>2 DEF Means, MeansSoFar
<1>6. /\ t \in Seq(Byte) /\ Len(t) = size
      /\ \A n \in 1 .. size : t[n] = dst[n] /\ t[n] # 0
  <2>1. \A n \in 1 .. size : dst[n] \in Byte \ {0}
    <3>1. NoZeroByte'
      BY NoRoomForCodeStep DEF IInv
    <3> QED BY <1>1, <3>1 DEF NoZeroByte
  <2>2. Len(dst) \in Nat /\ size <= Len(dst)
    BY <1>2
  <2> HIDE DEF size
  <2> QED BY <1>2, <2>1, <2>2, OutputBytes
<1> HIDE DEF t
<1>7. \E m \in 0 .. Len(src) :
        /\ Blocks(t).end = Len(t) /\ Blocks(t).data = SubSeq(src, 1, m)
        /\ src # <<>> => m < Len(src)
  <2>1. CASE size = 0
    <3>1. t = <<>>
      BY <1>6, <2>1
    <3>2. Blocks(t).end = 0 /\ Blocks(t).data = <<>>
      BY <3>1 DEF Blocks
    <3>3. SubSeq(src, 1, 0) = <<>>
      BY SubSeqEmpty
    <3>4. src # <<>> => 0 < Len(src)
      BY <1>3, EmptySeq
    <3> QED BY <1>2, <1>6, <2>1, <3>2, <3>3, <3>4
  <2>2. CASE size # 0
    <3>1. PICK m \in 0 .. Before : Stops(dst, size, SubSeq(src, 1, m))
      BY <1>2, <1>5, <2>2
    <3>2. AgreeTo(t, dst, size)
      BY <1>6 DEF AgreeTo
    <3>3. Blocks(t).end = size /\ Blocks(t).data = SubSeq(src, 1, m)
      BY <1>6, <3>1, <3>2 DEF Stops
    <3>4. Before <= src_read_ptr
      BY <1>2 DEF Before
    <3>5. m \in 0 .. Len(src) /\ (src # <<>> => m < Len(src))
      BY <1>2, <1>4, <1>5, <3>4
    <3> QED BY <1>6, <3>3, <3>5
  <2> QED BY <2>1, <2>2
<1>8. PICK m \in 0 .. Len(src) :
        /\ Blocks(t).end = Len(t) /\ Blocks(t).data = SubSeq(src, 1, m)
        /\ src # <<>> => m < Len(src)
  BY <1>7
<1>9. ~(Blocks(t).end > Len(t))
  BY <1>2, <1>6, <1>8
<1>10. Meaning(t) = SubSeq(src, 1, m) /\ ReducedMeaning(t) = SubSeq(src, 1, m)
  BY <1>8, <1>9, Zenon DEF Meaning, ReducedMeaning
<1>11. WellFormed(t) /\ ReducedWellFormed(t)
  BY <1>6, <1>8 DEF WellFormed, ReducedWellFormed
<1>12. /\ StartsWith(src, SubSeq(src, 1, m))
       /\ src # <<>> => SubSeq(src, 1, m) # src
  BY <1>3, <1>8, Beginning
<1>13. Overflown' /\ Output' = t
  BY <1>1 DEF Overflown, Output, t
<1>14. ReadsBack'
  BY <1>1, <1>10, <1>11, <1>12, <1>13 DEF ReadsBack
<1> QED BY <1>1, <1>14 DEF Means

-----------------------------------------------------------------------------
\* The output of every call means what was read of its source, in the reading of its
\* own variant: all of it, or, cut off by an overflow, a beginning.
THEOREM OutputReadsBack == Spec => []ReadsBack
<1>1. Init /\ IInv => Means
  BY InitMeans
<1>2. IInv /\ Means /\ [Next]_vars => Means'
  <2> SUFFICES ASSUME IInv, Means, [Next]_vars PROVE Means'
    OBVIOUS
  <2>1. CASE RejectNull BY <2>1, RejectNullMeans
  <2>2. CASE Start BY <2>2, StartMeans
  <2>3. CASE Loop
    BY <2>3, OverflowMeans, EncodeZeroMeans, EncodeNonZeroMeans DEF Loop
  <2>4. CASE Finish
    BY <2>4, NoRoomForCodeMeans, WriteLastCodeMeans, WriteLastByteAsCodeMeans DEF Finish
  <2>5. CASE UNCHANGED vars
    BY <2>5 DEF vars, Means, MeansSoFar, Before, Copied, Overflown, ReadsBack, Output
  <2> QED BY <2>1, <2>2, <2>3, <2>4, <2>5 DEF Next
<1>3. IInv /\ Means => ReadsBack
  BY DEF Means, ReadsBack
<1> QED BY InductiveInvariant, <1>1, <1>2, <1>3, PTL DEF Spec
=============================================================================
