------------------------------- MODULE PbField ------------------------------
(***************************************************************************)
(* The field descriptions of nanopb and the iterator over them:            *)
(* lib/nanopb-0.3.9.3/pb.h and pb_common.c.                                *)
(*                                                                         *)
(* A message type is a C struct.  Its description, an array of pb_field_t, *)
(* says of every member where it is relative to the end of the one before, *)
(* and the iterator finds the members by adding these distances up.        *)
(* Structs says where the members really are, as the compiler laid them    *)
(* out; fields is what the macros of pb.h make of it.                      *)
(*                                                                         *)
(* Addresses and sizes are bytes.  PB_SIZE_MAX is that of the build, which *)
(* has 16-bit field sizes (-DPB_FIELD_16BIT).                              *)
(***************************************************************************)
EXTENDS Integers, Sequences, FiniteSets

CONSTANTS
  Structs,   \* the members of each message type, in the order of their description
  NULL       \* no has_, _count or which_ member; no submessage and no default value

PB_SIZE_MAX == 65535

PointerSize == 4

HTypes == {"REQUIRED", "OPTIONAL", "REPEATED", "ONEOF"}
ATypes == {"STATIC", "POINTER", "CALLBACK"}
Packable == {"VARINT", "UVARINT", "SVARINT", "FIXED32", "FIXED64"}
LTypes == Packable \cup
  {"BYTES", "STRING", "SUBMESSAGE", "EXTENSION", "FIXED_LENGTH_BYTES"}

\* Of a field or of a member: the description of a submessage is that of a struct.
PointsToStruct(f) == f.ltype = "SUBMESSAGE" => f.ptr \in {NULL} \cup DOMAIN Structs

\* at: offsetof; item: the size of an entry of an array, or of what a pointer points
\* to; count: the entries of an array, else 1; size_at: offsetof the has_, _count or
\* which_ member; shared: it lies in the same union as the member before.
Member == [ tag : 1 .. PB_SIZE_MAX, ltype : LTypes, htype : HTypes, atype : ATypes,
            at : Nat, item : Nat, count : Nat, size_at : Nat \cup {NULL},
            shared : BOOLEAN, ptr : {NULL} \cup DOMAIN Structs \cup Int ]

pb_membersize(m) == IF m.atype = "POINTER" THEN PointerSize ELSE m.item * m.count

IsStaticArray(m) == m.atype = "STATIC" /\ m.htype = "REPEATED"

\* The size of a value, where it is not free; none is empty.
HasSize(ltype, size) ==
  size > 0 /\ (ltype = "FIXED32" => size = 4) /\ (ltype = "FIXED64" => size = 8)

\* What the compiler guarantees: members do not overlap, but those of a union begin
\* at one place; and structs are small enough for the offsets of the description.
WellLaidOut(members) ==
  /\ members \in Seq(Member)
  /\ \A k \in DOMAIN members :
       /\ HasSize(members[k].ltype, members[k].item) /\ members[k].count > 0
       /\ ~IsStaticArray(members[k]) => members[k].count = 1
       /\ members[k].at + pb_membersize(members[k]) < PB_SIZE_MAX
       /\ members[k].size_at # members[k].at
       /\ PointsToStruct(members[k])
  /\ \A k \in 2 .. Len(members) :
       IF members[k].shared
       THEN /\ members[k].htype = "ONEOF" /\ members[k - 1].htype = "ONEOF"
            /\ members[k].at = members[k - 1].at
            /\ members[k].size_at = members[k - 1].size_at
       ELSE members[k].at >= members[k - 1].at + pb_membersize(members[k - 1])

\* Of a field or of a member: it is, or its entries are, of a type that Structs describes.
HoldsStruct(f) == f.ltype = "SUBMESSAGE" /\ f.atype = "STATIC"

\* The addresses of a member and of its has_, _count or which_ member.
MemberCells(base, m) ==
  (base + m.at .. base + m.at + pb_membersize(m) - 1)
    \cup (IF m.size_at = NULL THEN {} ELSE {base + m.size_at})

\* sizeof: so many bytes are as much as the struct needs.
Holds(size, msg) ==
  \A k \in DOMAIN Structs[msg] : MemberCells(0, Structs[msg][k]) \subseteq 0 .. size - 1

ASSUME LayoutAssumption == \A msg \in DOMAIN Structs : WellLaidOut(Structs[msg])

\* A member of a type without a description can be no more than the entries of an array.
ASSUME ContainmentAssumption ==
  \A msg \in DOMAIN Structs : \A m \in { Structs[msg][k] : k \in DOMAIN Structs[msg] } :
    HoldsStruct(m) =>
      IF m.ptr = NULL THEN m.htype = "REPEATED" ELSE Holds(m.item, m.ptr)

pb_field_t == [ tag : 0 .. PB_SIZE_MAX, ltype : LTypes, htype : HTypes, atype : ATypes,
                data_offset : Int, size_offset : Int, data_size : Nat, array_size : Nat,
                ptr : {NULL} \cup DOMAIN Structs \cup Int ]

\* PB_DATAOFFSET_FIRST, _OTHER and _UNION.
PB_DATAOFFSET(members, k) ==
  IF k = 1 THEN members[k].at
  ELSE IF members[k].shared THEN PB_SIZE_MAX
  ELSE members[k].at - members[k - 1].at - pb_membersize(members[k - 1])

\* PB_FIELD, PB_ONEOF_FIELD and PB_REPEATED_FIXED_COUNT, for all their variants.
PB_FIELD(members, k) ==
  LET m == members[k] IN
    [ tag         |-> m.tag,
      ltype       |-> m.ltype,
      htype       |-> m.htype,
      atype       |-> m.atype,
      data_offset |-> PB_DATAOFFSET(members, k),
      size_offset |-> IF m.size_at = NULL THEN 0 ELSE m.size_at - m.at,
      data_size   |-> m.item,
      array_size  |-> IF IsStaticArray(m) THEN m.count ELSE 0,
      ptr         |-> m.ptr ]

\* The terminator.  Its type, zero, is that of a required varint.
PB_LAST_FIELD ==
  [ tag |-> 0, ltype |-> "VARINT", htype |-> "REQUIRED", atype |-> "STATIC",
    data_offset |-> 0, size_offset |-> 0, data_size |-> 0, array_size |-> 0, ptr |-> NULL ]

FieldCount(msg) == Len(Structs[msg])

fields == [msg \in DOMAIN Structs |->
            Append([k \in DOMAIN Structs[msg] |-> PB_FIELD(Structs[msg], k)], PB_LAST_FIELD)]

FieldAt(msg, pos) == fields[msg][pos]

-----------------------------------------------------------------------------
\* The iterator, over the struct at base.

Iter(pos, required, pData, field) ==
  [ pos |-> pos, required_field_index |-> required,
    pData |-> pData, pSize |-> pData + field.size_offset ]

BeginAt(field, base) == Iter(1, 0, base + field.data_offset, field)

pb_field_iter_begin(msg, base) == BeginAt(FieldAt(msg, 1), base)

\* Mutant of FieldExtent: a pointer is taken for as large as what it points to.
FieldExtentOfPointee(field) ==
  IF field.atype = "STATIC" /\ field.htype = "REPEATED"
  THEN field.data_size * field.array_size ELSE field.data_size

\* How far the next member's distance is counted from.
FieldExtent(field) ==
  IF field.atype = "STATIC" /\ field.htype = "REPEATED"
  THEN field.data_size * field.array_size
  ELSE IF field.atype = "POINTER" THEN PointerSize ELSE field.data_size

InSameUnion(prev, field) ==
  prev.htype = "ONEOF" /\ field.htype = "ONEOF" /\ field.data_offset = PB_SIZE_MAX

\* Whether there is a next field; behind the last one the iterator starts over.
HasNext(msg, it) == it.pos < FieldCount(msg)

\* Mutant of Advanced: the iterator stays within a union.
AdvancedNotInUnion(prev, field, it) ==
  IF InSameUnion(prev, field) THEN it
  ELSE Iter( it.pos + 1,
             it.required_field_index + (IF prev.htype = "REQUIRED" THEN 1 ELSE 0),
             it.pData + FieldExtent(prev) + field.data_offset,
             field )

\* From the field prev to the field after it.
Advanced(prev, field, it) ==
  IF InSameUnion(prev, field) THEN [it EXCEPT !.pos = @ + 1]
  ELSE Iter( it.pos + 1,
             it.required_field_index + (IF prev.htype = "REQUIRED" THEN 1 ELSE 0),
             it.pData + FieldExtent(prev) + field.data_offset,
             field )

\* Mutant of pb_field_iter_next: behind the last field the iterator stays.
IterNextStays(msg, base, it) ==
  IF HasNext(msg, it) THEN Advanced(FieldAt(msg, it.pos), FieldAt(msg, it.pos + 1), it) ELSE it

pb_field_iter_next(msg, base, it) ==
  IF FieldCount(msg) = 0 THEN it
  ELSE IF HasNext(msg, it) THEN Advanced(FieldAt(msg, it.pos), FieldAt(msg, it.pos + 1), it)
  ELSE pb_field_iter_begin(msg, base)

HasTag(field, tag) == field.tag = tag /\ field.ltype # "EXTENSION"

-----------------------------------------------------------------------------
\* The iterator has found the member that its position stands for, and has counted
\* the required fields before it.
RequiredBefore(msg, pos) ==
  { k \in 1 .. pos - 1 : Structs[msg][k].htype = "REQUIRED" }

IterConsistent(msg, base, it) ==
  LET members == Structs[msg] IN
    IF members = <<>> THEN it = Iter(1, 0, base, PB_LAST_FIELD)
    ELSE /\ it.pos \in DOMAIN members
         /\ it.pData = base + members[it.pos].at
         /\ members[it.pos].size_at # NULL => it.pSize = base + members[it.pos].size_at
         /\ members[it.pos].size_at = NULL => it.pSize = it.pData
         /\ it.required_field_index = Cardinality(RequiredBefore(msg, it.pos))
=============================================================================
