-------------------------------- MODULE Cobs --------------------------------
(***************************************************************************)
(* lib/cobs-c-0.5.0: what its four functions have in common, and what a    *)
(* COBS string means.                                                      *)
(*                                                                         *)
(* A COBS string is a sequence of blocks: a code byte c and c - 1 bytes    *)
(* that are not zero.  A zero follows every block but the last one and the *)
(* blocks with the largest code.  In the reduced form (COBS/R) the last    *)
(* code may promise more bytes than there are: it is then itself the last  *)
(* byte of the data.                                                       *)
(***************************************************************************)
EXTENDS Integers, Sequences

CONSTANTS
  MaxCode,    \* the largest byte, which is also the largest code: 0xFF
  Unwritten   \* what the destination holds where nothing was written

ASSUME MaxCodeAssumption   == MaxCode \in Nat /\ MaxCode > 1
ASSUME UnwrittenAssumption == Unwritten \notin 0 .. MaxCode

Byte == 0 .. MaxCode

-----------------------------------------------------------------------------
\* Mutant of ENCODE_DST_BUF_LEN_MAX: the quotient is rounded down.
EncodeMaxRoundedDown(n) == n + n \div (MaxCode - 1)

\* COBS_ENCODE_DST_BUF_LEN_MAX and COBSR_ENCODE_DST_BUF_LEN_MAX
ENCODE_DST_BUF_LEN_MAX(n) == n + (n + MaxCode - 2) \div (MaxCode - 1)

\* COBS_DECODE_DST_BUF_LEN_MAX
DECODE_DST_BUF_LEN_MAX(n) == IF n = 0 THEN 0 ELSE n - 1

\* COBSR_DECODE_DST_BUF_LEN_MAX
REDUCED_DECODE_DST_BUF_LEN_MAX(n) == n

-----------------------------------------------------------------------------
\* For each place of a string, the blocks from there on one after the other: where the
\* last one ends by its code, that code, and the data of all.  There is no block behind
\* a zero code.
BlocksFrom(string) ==
  LET n == Len(string)
      from[k \in 0 .. n - 1] ==
        LET c == string[k + 1]
        IN  IF c = 0 \/ k + c >= n
            THEN [end |-> k + c, code |-> c, data |-> SubSeq(string, k + 2, n)]
            ELSE [ end  |-> from[k + c].end,
                   code |-> from[k + c].code,
                   data |-> SubSeq(string, k + 2, k + c)
                            \o (IF c = MaxCode THEN <<>> ELSE <<0>>) \o from[k + c].data ]
  IN  from

Blocks(string) ==
  IF string = <<>> THEN [end |-> 0, code |-> 0, data |-> <<>>] ELSE BlocksFrom(string)[0]

WellFormed(string) ==
  /\ \A n \in 1 .. Len(string) : string[n] # 0
  /\ Blocks(string).end = Len(string)

Meaning(string) == Blocks(string).data

ReducedWellFormed(string) == \A n \in 1 .. Len(string) : string[n] # 0

ReducedMeaning(string) ==
  LET blocks == Blocks(string)
  IN  IF blocks.end > Len(string) THEN Append(blocks.data, blocks.code) ELSE blocks.data

\* short is long cut off somewhere.
StartsWith(long, short) ==
  Len(short) <= Len(long) /\ SubSeq(long, 1, Len(short)) = short
=============================================================================
