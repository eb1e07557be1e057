---------------------------- MODULE MCProtoBuff -----------------------------
(***************************************************************************)
(* Instances of ProtoBuff for TLC: fewer slots than types, so that the     *)
(* registry can be full; interrupts dispatch messages of any type.         *)
(***************************************************************************)
EXTENDS ProtoBuffMap

CONSTANTS t1, t2, t3, c1, c2

MCTypes == {t1, t2, t3}

MCCallbacks == {c1, c2}

\* An interrupt's message may also be of no known type.
MCInterruptTypes == MCTypes \cup {NULL}
=============================================================================
