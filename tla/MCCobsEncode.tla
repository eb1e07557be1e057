---------------------------- MODULE MCCobsEncode ----------------------------
(***************************************************************************)
(* Instances of the two encoders for TLC.                                  *)
(***************************************************************************)
EXTENDS CobsEncode

\* Every string of at most five bytes, and every size from no room to room to spare.
MCSources == UNION { [1 .. n -> Byte] : n \in 0 .. 5 }
MCDstLens == 0 .. 9

\* For the finding: the real code 0xFF, no source at all, and a full block.
MCMaxSources == { <<>>, [j \in 1 .. 254 |-> j] }
MCMaxDstLens == {0, 1, 255}
=============================================================================
