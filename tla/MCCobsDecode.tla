---------------------------- MODULE MCCobsDecode ----------------------------
(***************************************************************************)
(* Instances of the two decoders for TLC.                                  *)
(***************************************************************************)
EXTENDS CobsDecode

\* Every string of at most five bytes, well-formed or not.
MCStrings == UNION { [1 .. n -> Byte] : n \in 0 .. 5 }
MCDstLens == 0 .. 5
=============================================================================
