-------------------------- MODULE PbDecode_proofs ---------------------------
(***************************************************************************)
(* Five things about nanopb's decoder that hold for every message type.    *)
(*                                                                         *)
(* The iterator of pb_common.c finds the member that it stands for, for    *)
(* every struct that a compiler can lay out.  The macros of pb.h turn      *)
(* offsets into distances and the iterator adds the distances up; the      *)
(* proof is that the sum telescopes, which needs that the iterator counts  *)
(* each member as large as the macros did, and that it tells the members   *)
(* of one union, which have no distance, from two unions next to each      *)
(* other, by a distance that no struct has.                                *)
(*                                                                         *)
(* The streams of nested messages fit into one another for every buffer    *)
(* and whatever the callbacks do.  Each call in progress knows where its   *)
(* message ends, as a history; the invariant is that it reads up to there, *)
(* in its own stream or in a substream that has no frame of its own, and   *)
(* that the rest of the message around it begins there.                    *)
(*                                                                         *)
(* On both of them rests the third: every call in progress decodes to the  *)
(* members of its own struct.  Its iterator is where the compiler put a    *)
(* member, because its struct begins at the address of a member or of an   *)
(* entry of an array that was not full, and is of a type that a            *)
(* description of it names; and it marks the required fields in words of   *)
(* fields_seen that exist.                                                 *)
(*                                                                         *)
(* The fourth is about the memory: a step writes nothing outside the field *)
(* that it decodes.  The sizes of the values on the line are checked       *)
(* against that of the field; the field is the member that the iterator    *)
(* stands at or the extension that is being asked; and every struct in     *)
(* progress is in memory, because the compiler made the member that it is  *)
(* in large enough.  A struct is initialised with the structs in it, so    *)
(* what that writes follows by a descent: of the types that would write    *)
(* too much one has no part among them.                                    *)
(*                                                                         *)
(* The fifth is that a message is accepted if and only if its required     *)
(* fields were found.  The bits of fields_seen are the numbers of those    *)
(* that were; no two fields have one number, and the numbers of the last   *)
(* field and of the limit say how many there are.                          *)
(***************************************************************************)
EXTENDS PbDecode, PbStream_proofs, FiniteSetTheorems

-----------------------------------------------------------------------------
\* The iterator.

Iterators == [pos : Nat, required_field_index : Nat, pData : Int, pSize : Int]

\* What LayoutAssumption says of one member and of two neighbours.
LEMMA OneMember ==
  ASSUME NEW msg \in DOMAIN Structs, NEW k \in 1 .. FieldCount(msg)
  PROVE  LET m == Structs[msg][k] IN
           /\ m \in Member
           /\ m.at \in Nat /\ m.item \in Nat /\ m.count \in Nat
           /\ m.size_at # NULL => m.size_at \in Nat
           /\ m.atype \in ATypes
           /\ ~IsStaticArray(m) => m.count = 1
           /\ m.at + pb_membersize(m) < PB_SIZE_MAX
           /\ m.size_at # m.at
<1>1. WellLaidOut(Structs[msg])
  BY LayoutAssumption
<1>2. Structs[msg] \in Seq(Member)
  BY <1>1 DEF WellLaidOut
<1>3. k \in DOMAIN Structs[msg]
  BY <1>2 DEF FieldCount
<1>4. Structs[msg][k] \in Member
  BY <1>2, <1>3
<1>5. LET m == Structs[msg][k] IN
        /\ ~IsStaticArray(m) => m.count = 1
        /\ m.at + pb_membersize(m) < PB_SIZE_MAX
        /\ m.size_at # m.at
  BY <1>1, <1>3 DEF WellLaidOut
<1>6. LET m == Structs[msg][k] IN
        /\ m.at \in Nat /\ m.item \in Nat /\ m.count \in Nat
        /\ m.size_at # NULL => m.size_at \in Nat
        /\ m.atype \in ATypes
  BY <1>4 DEF Member
<1> QED BY <1>4, <1>5, <1>6

\* What the layout says of a member and the one behind it.
LEMMA TwoMembers ==
  ASSUME NEW msg \in DOMAIN Structs, NEW k \in 1 .. FieldCount(msg), k > 1
  PROVE  LET prev == Structs[msg][k - 1]
             m    == Structs[msg][k]
         IN  IF m.shared
             THEN /\ m.htype = "ONEOF" /\ prev.htype = "ONEOF"
                  /\ m.at = prev.at /\ m.size_at = prev.size_at
             ELSE m.at >= prev.at + pb_membersize(prev)
<1>1. WellLaidOut(Structs[msg])
  BY LayoutAssumption
<1>2. Len(Structs[msg]) \in Nat
  BY <1>1 DEF WellLaidOut
<1>3. k \in 2 .. Len(Structs[msg])
  BY <1>2 DEF FieldCount
<1> QED BY <1>1, <1>3 DEF WellLaidOut

\* The description of a member is its own, the terminator is behind the last one.
LEMMA FieldOfMember ==
  ASSUME NEW msg \in DOMAIN Structs, NEW k \in 1 .. FieldCount(msg)
  PROVE  FieldAt(msg, k) = PB_FIELD(Structs[msg], k)
<1>1. Structs[msg] \in Seq(Member)
  BY LayoutAssumption DEF WellLaidOut
<1> DEFINE described == [j \in DOMAIN Structs[msg] |-> PB_FIELD(Structs[msg], j)]
<1>2. DOMAIN described = 1 .. FieldCount(msg) /\ FieldCount(msg) \in Nat
  BY <1>1 DEF FieldCount
<1>3. Len(described) = FieldCount(msg)
  BY <1>2
<1>4. described \in Seq({ described[j] : j \in 1 .. FieldCount(msg) })
  BY <1>2
<1>5. described[k] = PB_FIELD(Structs[msg], k)
  BY <1>2
<1> HIDE DEF described
<1>6. Append(described, PB_LAST_FIELD)[k] = described[k]
  BY <1>2, <1>3, <1>4
<1>7. fields[msg] = Append(described, PB_LAST_FIELD)
  BY DEF fields, described
<1> QED BY <1>5, <1>6, <1>7 DEF FieldAt

\* Sizes of members are natural numbers.
LEMMA Sizes ==
  ASSUME NEW msg \in DOMAIN Structs, NEW k \in 1 .. FieldCount(msg)
  PROVE  /\ FieldExtent(PB_FIELD(Structs[msg], k)) = pb_membersize(Structs[msg][k])
         /\ pb_membersize(Structs[msg][k]) \in Nat
<1> DEFINE m == Structs[msg][k]
<1>1. /\ m.item \in Nat /\ m.count \in Nat /\ m.atype \in ATypes
      /\ ~IsStaticArray(m) => m.count = 1
  BY OneMember
<1>2. CASE IsStaticArray(m)
  BY <1>1, <1>2 DEF FieldExtent, PB_FIELD, IsStaticArray, pb_membersize
<1>3. CASE ~IsStaticArray(m) /\ m.atype = "POINTER"
  BY <1>1, <1>3 DEF FieldExtent, PB_FIELD, IsStaticArray, pb_membersize, PointerSize
<1>4. CASE ~IsStaticArray(m) /\ m.atype # "POINTER"
  <2>1. m.item * m.count = m.item
    BY <1>1, <1>4
  <2> QED BY <1>1, <1>4, <2>1 DEF FieldExtent, PB_FIELD, IsStaticArray, pb_membersize
<1> QED BY <1>2, <1>3, <1>4

\* A field lies in the union of the one before if and only if its distance says so.
LEMMA UnionByDistance ==
  ASSUME NEW msg \in DOMAIN Structs, NEW k \in 1 .. FieldCount(msg), k > 1
  PROVE  InSameUnion(PB_FIELD(Structs[msg], k - 1), PB_FIELD(Structs[msg], k))
           <=> Structs[msg][k].shared
<1> DEFINE prev == Structs[msg][k - 1]
           m    == Structs[msg][k]
<1>1. k - 1 \in 1 .. FieldCount(msg)
  <2>1. FieldCount(msg) \in Nat
    BY LayoutAssumption DEF WellLaidOut, FieldCount
  <2> QED BY <2>1
<1>2. /\ prev.at \in Nat /\ pb_membersize(prev) \in Nat
      /\ m.at \in Nat /\ pb_membersize(m) \in Nat
      /\ m.at + pb_membersize(m) < PB_SIZE_MAX
  BY <1>1, OneMember, Sizes
<1>3. CASE m.shared
  BY <1>3, TwoMembers DEF InSameUnion, PB_FIELD, PB_DATAOFFSET
<1>4. CASE ~m.shared
  <2>1. PB_DATAOFFSET(Structs[msg], k) = m.at - prev.at - pb_membersize(prev)
    BY <1>4 DEF PB_DATAOFFSET
  <2>2. PB_DATAOFFSET(Structs[msg], k) # PB_SIZE_MAX
    BY <1>2, <2>1 DEF PB_SIZE_MAX
  <2> QED BY <1>4, <2>2 DEF InSameUnion, PB_FIELD
<1> QED BY <1>3, <1>4

\* One more required field, or the same.
LEMMA RequiredCounted ==
  ASSUME NEW msg \in DOMAIN Structs, NEW pos \in Nat \ {0}
  PROVE  /\ Cardinality(RequiredBefore(msg, 1)) = 0
         /\ Cardinality(RequiredBefore(msg, pos)) \in Nat
         /\ Cardinality(RequiredBefore(msg, pos + 1)) = Cardinality(RequiredBefore(msg, pos)) +
              (IF Structs[msg][pos].htype = "REQUIRED" THEN 1 ELSE 0)
<1>1. RequiredBefore(msg, 1) = {}
  BY DEF RequiredBefore
<1>2. IsFiniteSet(RequiredBefore(msg, pos))
  <2>1. IsFiniteSet(1 .. pos - 1)
    BY FS_Interval
  <2>2. RequiredBefore(msg, pos) \subseteq 1 .. pos - 1
    BY DEF RequiredBefore
  <2> QED BY <2>1, <2>2, FS_Subset
<1>3. Cardinality(RequiredBefore(msg, pos)) \in Nat
  BY <1>2, FS_CardinalityType
<1>4. Cardinality(RequiredBefore(msg, 1)) = 0
  BY <1>1, FS_EmptySet
<1>5. CASE Structs[msg][pos].htype = "REQUIRED"
  <2>1. RequiredBefore(msg, pos + 1) = RequiredBefore(msg, pos) \cup {pos}
    BY <1>5 DEF RequiredBefore
  <2>2. pos \notin RequiredBefore(msg, pos)
    BY DEF RequiredBefore
  <2>3. Cardinality(RequiredBefore(msg, pos) \cup {pos}) =
          Cardinality(RequiredBefore(msg, pos)) + 1
    BY <1>2, <2>2, FS_AddElement
  <2> QED BY <1>3, <1>4, <1>5, <2>1, <2>3
<1>6. CASE Structs[msg][pos].htype # "REQUIRED"
  <2>1. RequiredBefore(msg, pos + 1) = RequiredBefore(msg, pos)
    BY <1>6 DEF RequiredBefore
  <2> QED BY <1>3, <1>4, <1>6, <2>1
<1> QED BY <1>5, <1>6

-----------------------------------------------------------------------------
\* pb_field_iter_begin() finds the first member of every struct and its has_, _count or
\* which_ member, wherever the compiler has put them.
THEOREM IteratorBegins ==
  ASSUME NEW msg \in DOMAIN Structs, NEW base \in Int, FieldCount(msg) > 0
  PROVE  /\ pb_field_iter_begin(msg, base) \in Iterators
         /\ IterConsistent(msg, base, pb_field_iter_begin(msg, base))
<1> DEFINE m     == Structs[msg][1]
           field == PB_FIELD(Structs[msg], 1)
           it    == pb_field_iter_begin(msg, base)
<1>1. /\ Structs[msg] \in Seq(Member) /\ FieldCount(msg) \in Nat
      /\ 1 \in 1 .. FieldCount(msg) /\ Structs[msg] # <<>> /\ 1 \in DOMAIN Structs[msg]
  BY LayoutAssumption DEF WellLaidOut, FieldCount
<1>2. m.at \in Nat /\ (m.size_at # NULL => m.size_at \in Nat)
  BY <1>1, OneMember
<1>3. it = Iter(1, 0, base + field.data_offset, field)
  BY <1>1, FieldOfMember DEF pb_field_iter_begin, BeginAt
<1>4. field.data_offset = m.at
  BY DEF PB_FIELD, PB_DATAOFFSET
<1>5. field.size_offset = IF m.size_at = NULL THEN 0 ELSE m.size_at - m.at
  BY DEF PB_FIELD
<1> HIDE DEF m, field, it
<1>6. /\ it.pos = 1 /\ it.required_field_index = 0 /\ it.pData = base + m.at
      /\ it.pSize = it.pData + field.size_offset
      /\ it \in Iterators
  BY <1>2, <1>3, <1>4, <1>5 DEF Iter, Iterators
<1>7. it.required_field_index = Cardinality(RequiredBefore(msg, it.pos))
  BY <1>6, RequiredCounted
<1>8. /\ m.size_at # NULL => it.pSize = base + m.size_at
      /\ m.size_at = NULL => it.pSize = it.pData
  BY <1>2, <1>5, <1>6
<1> QED BY <1>1, <1>6, <1>7, <1>8 DEF IterConsistent, m, it

\* pb_field_iter_next() finds the next member, and after the last one the first again,
\* and counts the required fields that it passes, for every layout: past arrays,
\* pointers, padding and unions.
THEOREM IteratorFindsNext ==
  ASSUME NEW msg \in DOMAIN Structs, NEW base \in Int, FieldCount(msg) > 0,
         NEW it \in Iterators, IterConsistent(msg, base, it)
  PROVE  /\ pb_field_iter_next(msg, base, it) \in Iterators
         /\ IterConsistent(msg, base, pb_field_iter_next(msg, base, it))
<1>1. CASE ~HasNext(msg, it)
  BY <1>1, IteratorBegins DEF pb_field_iter_next
<1>2. CASE HasNext(msg, it)
  <2> DEFINE k     == it.pos + 1
             prev  == Structs[msg][k - 1]
             m     == Structs[msg][k]
             field == PB_FIELD(Structs[msg], k)
             next  == pb_field_iter_next(msg, base, it)
  <2>1. /\ Structs[msg] \in Seq(Member) /\ FieldCount(msg) \in Nat /\ Structs[msg] # <<>>
        /\ DOMAIN Structs[msg] = 1 .. FieldCount(msg)
    BY LayoutAssumption DEF WellLaidOut, FieldCount
  <2>2. it.pos \in Nat /\ it.pos \in 1 .. FieldCount(msg) /\ it.pData \in Int
    BY <2>1 DEF IterConsistent, Iterators
  <2>3. k \in 1 .. FieldCount(msg) /\ k > 1 /\ k - 1 = it.pos
    BY <1>2, <2>1, <2>2 DEF HasNext
  <2>4. /\ it.pData = base + prev.at
        /\ prev.size_at # NULL => it.pSize = base + prev.size_at
        /\ prev.size_at = NULL => it.pSize = it.pData
        /\ it.required_field_index = Cardinality(RequiredBefore(msg, it.pos))
    BY <2>1, <2>3 DEF IterConsistent
  <2>5. next = Advanced(PB_FIELD(Structs[msg], k - 1), field, it)
    BY <1>2, <2>2, <2>3, FieldOfMember DEF pb_field_iter_next
  <2>6. m.at \in Nat /\ prev.at \in Nat /\ (m.size_at # NULL => m.size_at \in Nat)
    BY <2>2, <2>3, OneMember
  <2>7. /\ Cardinality(RequiredBefore(msg, it.pos)) \in Nat
        /\ Cardinality(RequiredBefore(msg, k)) = Cardinality(RequiredBefore(msg, it.pos)) +
             (IF prev.htype = "REQUIRED" THEN 1 ELSE 0)
    BY <2>2, <2>3, RequiredCounted
  <2>8. /\ next \in Iterators /\ next.pos = k
        /\ next.required_field_index = Cardinality(RequiredBefore(msg, k))
        /\ next.pData = base + m.at
        /\ m.size_at # NULL => next.pSize = base + m.size_at
        /\ m.size_at = NULL => next.pSize = next.pData
    <3>1. CASE m.shared
      <4>1. next = [it EXCEPT !.pos = @ + 1]
        BY <2>3, <2>5, <3>1, UnionByDistance DEF Advanced
      <4>2. /\ prev.htype = "ONEOF" /\ m.at = prev.at /\ m.size_at = prev.size_at
        BY <2>3, <3>1, TwoMembers
      <4> HIDE DEF next, m, prev
      <4>3. /\ next \in Iterators /\ next.pos = it.pos + 1 /\ next.pData = it.pData
            /\ next.pSize = it.pSize /\ next.required_field_index = it.required_field_index
        BY <4>1 DEF Iterators
      <4> QED BY <4>2, <4>3, <2>4, <2>7
    <3>2. CASE ~m.shared
      <4> DEFINE pData == it.pData + FieldExtent(PB_FIELD(Structs[msg], k - 1)) + field.data_offset
                 index == it.required_field_index + (IF prev.htype = "REQUIRED" THEN 1 ELSE 0)
      <4>1. PB_FIELD(Structs[msg], k - 1).htype = prev.htype
        BY DEF PB_FIELD
      <4>2. next = Iter(k, index, pData, field)
        BY <2>3, <2>5, <3>2, <4>1, UnionByDistance DEF Advanced
      <4>3. field.data_offset = m.at - prev.at - pb_membersize(prev)
        BY <2>3, <3>2 DEF PB_FIELD, PB_DATAOFFSET
      <4>4. /\ FieldExtent(PB_FIELD(Structs[msg], k - 1)) = pb_membersize(prev)
            /\ pb_membersize(prev) \in Nat
        BY <2>2, <2>3, Sizes
      <4>5. pData = base + m.at
        BY <2>4, <2>6, <4>3, <4>4
      <4>6. field.size_offset = IF m.size_at = NULL THEN 0 ELSE m.size_at - m.at
        BY DEF PB_FIELD
      <4>7. index = Cardinality(RequiredBefore(msg, k)) /\ index \in Nat
        BY <2>4, <2>7
      <4> HIDE DEF pData, index, field, m, prev, next
      <4>8. /\ next.pos = k /\ next.required_field_index = index /\ next.pData = base + m.at
            /\ next.pSize = base + m.at + field.size_offset
            /\ next \in Iterators
        BY <2>2, <2>6, <4>2, <4>5, <4>6, <4>7 DEF Iter, Iterators
      <4> QED BY <2>6, <4>6, <4>7, <4>8
    <3> QED BY <3>1, <3>2
  <2> QED BY <2>1, <2>3, <2>8 DEF IterConsistent
<1> QED BY <1>1, <1>2

-----------------------------------------------------------------------------
\* Frames and their streams.

FrameFields ==
  { "msg", "base", "s", "it", "fields_seen", "fixed_count_field", "fixed_count_size",
    "extension_range_start", "at", "tag", "wire_type", "start", "cur", "sub", "raw", "ext",
    "end", "found" }

\* A frame, as far as its streams are concerned.
IsFrame(f) ==
  /\ DOMAIN f = FrameFields
  /\ f.s \in Stream /\ f.sub \in Stream /\ f.raw \in BOOLEAN
  /\ f.end \in Nat /\ f.end <= Len(input.buffer)

\* The innermost call reads within its message, up to its end unless it has failed.
ReadsWithin(f) ==
  /\ EndOf(f.s) <= f.end
  /\ IF f.at = "failed" THEN Reach(f) <= f.end ELSE Reach(f) = f.end

IInv ==
  /\ input \in Inputs
  /\ stream \in Stream
  /\ calls \in Nat
  /\ result \in BOOLEAN
  /\ IsSeq(stack)
  /\ \A k \in DOMAIN stack : IsFrame(stack[k])
  /\ \A k \in 1 .. Len(stack) - 1 : stack[k + 1].end + stack[k].s.left = stack[k].end
  /\ stack # <<>> =>
       /\ stack[1].end + (IF input.delimited THEN stream.left ELSE 0) = Len(input.buffer)
       /\ ReadsWithin(Top)
       /\ calls # 0
  /\ stack = <<>> /\ (calls = 0 \/ result) => EndOf(stream) = Len(input.buffer)

\* A step of the innermost call that keeps its end.
LEMMA TopStep ==
  ASSUME IInv, stack # <<>>, NEW f, SetTop(f), IsFrame(f), f.end = Top.end, ReadsWithin(f),
         UNCHANGED <<input, stream, calls, first, result>>
  PROVE  IInv'
<1>1. IsSeq(stack) BY DEF IInv
<1>2. stack' = [stack EXCEPT ![Len(stack)] = f] BY DEF SetTop
<1>3. /\ IsSeq(stack')
      /\ Len(stack') = Len(stack) /\ Len(stack) \in Nat \ {0}
      /\ \A k \in 1 .. Len(stack) - 1 : stack'[k] = stack[k]
      /\ stack'[Len(stack)] = f
      /\ DOMAIN stack = 1 .. Len(stack) /\ DOMAIN stack' = 1 .. Len(stack)
  <2>1. stack # <<>> OBVIOUS
  <2>2. LET t == [stack EXCEPT ![Len(stack)] = f] IN
          /\ IsSeq(t)
          /\ Len(t) = Len(stack) /\ Len(stack) \in Nat \ {0}
          /\ \A k \in 1 .. Len(stack) - 1 : t[k] = stack[k]
          /\ t[Len(stack)] = f
          /\ DOMAIN stack = 1 .. Len(stack) /\ DOMAIN t = 1 .. Len(stack)
    BY ONLY <1>1, <2>1, Replaced, Zenon
  <2> QED BY ONLY <1>2, <2>2, Zenon
<1>4. \A k \in DOMAIN stack' : IsFrame(stack'[k])
  BY <1>3, <1>3 DEF IInv
<1>5. ASSUME NEW k \in 1 .. Len(stack') - 1
      PROVE  stack'[k + 1].end + stack'[k].s.left = stack'[k].end
  <2>1. stack[k + 1].end + stack[k].s.left = stack[k].end
    BY <1>3 DEF IInv
  <2>2. stack'[k] = stack[k] BY <1>3
  <2>3. stack'[k + 1].end = stack[k + 1].end
    BY <1>3, <1>5 DEF Top
  <2> QED BY <2>1, <2>2, <2>3
<1>6. Top' = f BY <1>3 DEF Top
<1>7. stack'[1].end = stack[1].end
  <2>1. CASE Len(stack) = 1 BY <2>1, <1>3 DEF Top
  <2>2. CASE Len(stack) # 1 BY <2>2, <1>3
  <2> QED BY <2>1, <2>2
<1>8. stack' # <<>> BY <1>3
<1>9. ReadsWithin(Top') BY <1>6
<1>10. (\A k \in DOMAIN stack : IsFrame(stack[k]))'
  BY <1>4 DEF IsFrame
<1>11. ReadsWithin(Top)' BY <1>6, <1>9 DEF ReadsWithin, Reach
<1> QED BY <1>3, <1>5, <1>7, <1>8, <1>10, <1>11 DEF IInv
-----------------------------------------------------------------------------
\* Steps that read from the stream of the message, or from nothing.

Plain == {"loop", "find", "find_extension", "extension", "skip", "field", "end", "count"}

\* What such a step makes of the innermost frame.
Reads(g) ==
  /\ SetTop(g)
  /\ DOMAIN g = DOMAIN Top
  /\ g.end = Top.end /\ g.sub = Top.sub /\ g.raw = Top.raw
  /\ ReadTo(Top.s, g.s)
  /\ g.at \in Plain \cup {"done", "failed"}

\* The innermost frame.
LEMMA TopFrame ==
  ASSUME IInv, stack # <<>>
  PROVE  /\ IsFrame(Top) /\ ReadsWithin(Top)
         /\ input.buffer \in Seq(Octet) /\ input.delimited \in BOOLEAN
         /\ Top.at \in Plain => Inside(input.buffer, Top.s)
<1>1. IsSeq(stack) BY DEF IInv
<1>2. PICK S : stack \in Seq(S) BY <1>1 DEF IsSeq
<1>3. Len(stack) \in DOMAIN stack BY <1>2
<1>4. IsFrame(Top) /\ ReadsWithin(Top) BY <1>3 DEF IInv, Top
<1>5. input.buffer \in Seq(Octet) /\ input.delimited \in BOOLEAN
  BY InputsAssumption DEF IInv
<1>6. Len(input.buffer) \in Nat BY <1>5
<1>7. Inside(input.buffer, Top.s)
  BY <1>4, <1>6 DEF Inside, IsFrame, ReadsWithin, Stream, EndOf
<1> QED BY <1>4, <1>5, <1>7

\* Such a step keeps the invariant.
LEMMA ReadsKeeps ==
  ASSUME IInv, stack # <<>>, Top.at \in Plain, NEW g, Reads(g),
         UNCHANGED <<input, stream, calls, first, result>>
  PROVE  IInv'
<1>1. IsFrame(Top) /\ ReadsWithin(Top) BY TopFrame
<1>2. EndOf(Top.s) = Top.end BY <1>1 DEF ReadsWithin, Reach, Plain
<1>3. IsFrame(g) BY <1>1 DEF IsFrame, Reads, ReadTo
<1>4. EndOf(g.s) = g.end BY <1>2 DEF Reads, ReadTo
<1>5. g.at # "packed" /\ g.at # "callback" BY DEF Reads, Plain
<1>6. ReadsWithin(g)
  <2>1. Reach(g) = g.end BY <1>4, <1>5 DEF Reach
  <2>2. g.end \in Nat BY <1>3 DEF IsFrame
  <2> QED BY <1>4, <2>1, <2>2 DEF ReadsWithin
<1>7. SetTop(g) /\ g.end = Top.end BY DEF Reads
<1> QED BY <1>3, <1>6, <1>7, TopStep

\* The next tag, or the end of the message.
LEMMA RoundKeeps ==
  ASSUME IInv, Round PROVE IInv'
<1>1. stack # <<>> /\ Top.at = "loop" BY DEF Round, At
<1>2. IsFrame(Top) /\ Inside(input.buffer, Top.s) /\ input.buffer \in Seq(Octet)
  BY <1>1, TopFrame DEF Plain
<1>3. ReadTo(Top.s, Top.s) BY <1>2 DEF Inside, ReadTo, Stream
<1>4. CASE Top.s.left > 0
  <2> DEFINE field == pb_decode_tag(input.buffer, Top.s)
             g == [Top EXCEPT !.s = field.stream, !.tag = field.tag,
                     !.wire_type = field.wire_type, !.start = Top.it.pos,
                     !.at = IF field.ok THEN "find" ELSE IF field.eof THEN "end" ELSE "failed"]
  <2>1. SetTop(g) BY <1>4 DEF Round, ReadTag
  <2>2. ReadTo(Top.s, field.stream) BY <1>2, TagReads
  <2>3. Reads(g)
    <3> HIDE DEF field
    <3> QED BY <1>2, <2>1, <2>2 DEF Reads, IsFrame, FrameFields, Plain
  <2> HIDE DEF g
  <2> QED BY <1>1, <2>3, ReadsKeeps DEF Round, Plain
<1>5. CASE ~(Top.s.left > 0)
  <2> DEFINE g == [Top EXCEPT !.at = "end"]
  <2>1. SetTop(g) BY <1>5 DEF Round
  <2>2. Reads(g) BY <1>2, <1>3, <2>1 DEF Reads, IsFrame, FrameFields, Plain
  <2> HIDE DEF g
  <2> QED BY <1>1, <2>2, ReadsKeeps DEF Round, Plain
<1> QED BY <1>4, <1>5

\* A frame whose streams are those of the innermost one.
LEMMA SameStreams ==
  ASSUME IInv, stack # <<>>, NEW g, SetTop(g), DOMAIN g = DOMAIN Top,
         g.s = Top.s, g.end = Top.end, g.sub = Top.sub, g.raw = Top.raw,
         g.at \in Plain \cup {"done", "failed"}
  PROVE  Reads(g)
<1>1. IsFrame(Top) BY TopFrame
<1> QED BY <1>1 DEF Reads, ReadTo, IsFrame, Stream

\* Searching for a field reads nothing.
LEMMA FindKeeps ==
  ASSUME IInv, Find PROVE IInv'
<1>1. stack # <<>> /\ Top.at = "find" BY DEF Find, At
<1>2. IsFrame(Top) BY <1>1, TopFrame
<1>3. PICK g : Reads(g)
  <2>1. CASE HasTag(FieldAt(Top.msg, Top.it.pos), Top.tag)
    <3>1. KnownField(Top) BY <2>1 DEF Find
    <3>2. CASE SetTop([Top EXCEPT !.at = "failed"])
      BY <1>1, <1>2, <3>2, SameStreams DEF IsFrame, FrameFields, Plain
    <3>3. CASE ~SetTop([Top EXCEPT !.at = "failed"])
      <4>1. PICK a, b, c, d, e : SetTop([Top EXCEPT !.fixed_count_field = a,
              !.fixed_count_size = b, !.fields_seen = c, !.found = e, !.at = "field", !.cur = d])
        BY <3>1, <3>3, Zenon DEF KnownField, Fail
      <4> QED BY <1>1, <1>2, <4>1, SameStreams DEF IsFrame, FrameFields, Plain
    <3> QED BY <3>2, <3>3
  <2>2. CASE ~HasTag(FieldAt(Top.msg, Top.it.pos), Top.tag)
    <3>1. \/ SetTop([Top EXCEPT !.it = pb_field_iter_next(Top.msg, Top.base, Top.it)])
          \/ \E at \in {"find_extension", "skip"} :
               SetTop([[Top EXCEPT !.at = at] EXCEPT
                         !.it = pb_field_iter_next(Top.msg, Top.base, Top.it)])
      BY <2>2 DEF Find, Step
    <3> QED BY <1>1, <1>2, <3>1, SameStreams DEF IsFrame, FrameFields, Plain
  <2> QED BY <2>1, <2>2
<1> QED BY <1>1, <1>3, ReadsKeeps DEF Find, Plain

\* Nor does searching for the range of the extensions.
LEMMA FindExtensionKeeps ==
  ASSUME IInv, FindExtension PROVE IInv'
<1>1. stack # <<>> /\ Top.at = "find_extension" BY DEF FindExtension, At
<1>2. IsFrame(Top) BY <1>1, TopFrame
<1>3. PICK g : Reads(g)
  <2> DEFINE field == FieldAt(Top.msg, Top.it.pos)
             next  == pb_field_iter_next(Top.msg, Top.base, Top.it)
  <2>1. \/ \E at \in {"extension", "skip"} :
             SetTop([Top EXCEPT !.extension_range_start = field.tag, !.ext = 1, !.at = at])
        \/ SetTop([Top EXCEPT !.it = next])
        \/ SetTop([[Top EXCEPT !.extension_range_start = NoExtensions, !.at = "skip"]
                     EXCEPT !.it = next])
    BY DEF FindExtension, Step
  <2> HIDE DEF field, next
  <2> QED BY <1>1, <1>2, <2>1, SameStreams DEF IsFrame, FrameFields, Plain
<1> QED BY <1>1, <1>3, ReadsKeeps DEF FindExtension, Plain

\* A field that nobody wants is skipped.
LEMMA SkipFieldKeeps ==
  ASSUME IInv, SkipField PROVE IInv'
<1>1. stack # <<>> /\ Top.at = "skip" BY DEF SkipField, At
<1>2. IsFrame(Top) /\ Inside(input.buffer, Top.s) /\ input.buffer \in Seq(Octet)
  BY <1>1, TopFrame DEF Plain
<1> DEFINE skip == pb_skip_field(input.buffer, Top.s, Top.wire_type)
           g == [Top EXCEPT !.s = skip.stream, !.at = After(skip.ok), !.ext = 0]
<1>3. SetTop(g) BY DEF SkipField, Skipped
<1>4. ReadTo(Top.s, skip.stream) BY <1>2, SkipReads
<1>5. Reads(g)
  <2> HIDE DEF skip
  <2> QED BY <1>2, <1>3, <1>4 DEF Reads, IsFrame, FrameFields, Plain, After
<1> HIDE DEF g
<1> QED BY <1>1, <1>5, ReadsKeeps DEF SkipField, Plain

\* The steps that read nothing.
LEMMA EndMessageKeeps ==
  ASSUME IInv, EndMessage PROVE IInv'
<1>1. stack # <<>> /\ Top.at = "end" BY DEF EndMessage, At
<1>2. IsFrame(Top) BY <1>1, TopFrame
<1>3. PICK at \in {"count", "failed"} : SetTop([Top EXCEPT !.at = at]) BY DEF EndMessage
<1>4. PICK g : Reads(g) BY <1>1, <1>2, <1>3, SameStreams DEF IsFrame, FrameFields, Plain
<1> QED BY <1>1, <1>4, ReadsKeeps DEF EndMessage, Plain

LEMMA CountRequiredKeeps ==
  ASSUME IInv, CountRequired PROVE IInv'
<1>1. stack # <<>> /\ Top.at = "count" BY DEF CountRequired, At
<1>2. IsFrame(Top) BY <1>1, TopFrame
<1>3. \/ SetTop([Top EXCEPT !.it = pb_field_iter_next(Top.msg, Top.base, Top.it)])
      \/ \E at \in {"done", "failed"} : SetTop([Top EXCEPT !.at = at])
  BY DEF CountRequired
<1>4. PICK g : Reads(g) BY <1>1, <1>2, <1>3, SameStreams DEF IsFrame, FrameFields, Plain
<1> QED BY <1>1, <1>4, ReadsKeeps DEF CountRequired, Plain

LEMMA PointerFieldKeeps ==
  ASSUME IInv, PointerField PROVE IInv'
<1>1. stack # <<>> /\ Top.at = "field" BY DEF PointerField, AtField, At
<1>2. IsFrame(Top) BY <1>1, TopFrame
<1>3. SetTop([Top EXCEPT !.at = "failed"]) BY DEF PointerField, Fail
<1>4. PICK g : Reads(g) BY <1>1, <1>2, <1>3, SameStreams DEF IsFrame, FrameFields, Plain
<1> QED BY <1>1, <1>4, ReadsKeeps DEF PointerField, Plain

LEMMA NotAnExtensionKeeps ==
  ASSUME IInv, NotAnExtension PROVE IInv'
<1>1. stack # <<>> /\ Top.at = "extension" BY DEF NotAnExtension, Asking, At
<1>2. IsFrame(Top) BY <1>1, TopFrame
<1>3. SetTop([Top EXCEPT !.at = "skip"]) BY DEF NotAnExtension
<1>4. PICK g : Reads(g) BY <1>1, <1>2, <1>3, SameStreams DEF IsFrame, FrameFields, Plain
<1> QED BY <1>1, <1>4, ReadsKeeps DEF NotAnExtension, Plain

LEMMA DefaultExtensionKeeps ==
  ASSUME IInv, DefaultExtension PROVE IInv'
<1>1. stack # <<>> /\ Top.at = "extension" BY DEF DefaultExtension, Asking, At
<1>2. IsFrame(Top) BY <1>1, TopFrame
<1> DEFINE iter == ExtensionIter(Chain[Top.ext])
           cur  == [field |-> Chain[Top.ext].field, pData |-> iter.pData, pSize |-> iter.pSize]
<1>3. SetTop([Top EXCEPT !.ext = @ + 1]) \/ SetTop([Top EXCEPT !.at = "field", !.cur = cur])
  BY DEF DefaultExtension
<1>4. PICK g : Reads(g)
  <2> HIDE DEF cur
  <2> QED BY <1>1, <1>2, <1>3, SameStreams DEF IsFrame, FrameFields, Plain
<1> QED BY <1>1, <1>4, ReadsKeeps DEF DefaultExtension, Plain

\* An extension of the application's reads what it likes, but with pb_read().
LEMMA ForeignExtensionKeeps ==
  ASSUME IInv, NEW count \in Nat, NEW ok \in BOOLEAN, ForeignExtension(count, ok) PROVE IInv'
<1>1. stack # <<>> /\ Top.at = "extension" BY DEF ForeignExtension, Asking, At
<1>2. IsFrame(Top) BY <1>1, TopFrame
<1>3. ReadTo(Top.s, Advance(Top.s, count))
  <2>1. Top.s \in Stream /\ count <= Top.s.left BY <1>2 DEF IsFrame, ForeignExtension
  <2> QED BY <2>1, AdvanceReads
<1> DEFINE g == [Top EXCEPT !.s = Advance(Top.s, count),
                            !.ext = IF ok /\ count = 0 THEN Top.ext + 1 ELSE 0,
                            !.at = IF ok /\ count = 0 THEN Top.at ELSE After(ok)]
<1>4. SetTop(g) BY DEF ForeignExtension
<1>5. Reads(g)
  BY <1>1, <1>2, <1>3, <1>4 DEF Reads, IsFrame, FrameFields, Plain, After
<1> HIDE DEF g
<1> QED BY <1>1, <1>5, ReadsKeeps DEF ForeignExtension, Plain
-----------------------------------------------------------------------------
\* Steps that decode a value.

\* A varint of 64 bits.
LEMMA Varint64Reads ==
  ASSUME NEW buf, NEW s \in Stream
  PROVE  ReadTo(s, pb_decode_varint(buf, s).stream)
<1> DEFINE most == IF s.left < 10 THEN s.left ELSE 10
           Stopping == { k \in 1 .. most : Ends(buf, s, k) }
           P(n) == /\ \A k \in 1 .. n - 1 : ~Ends(buf, s, k)
                   /\ n < most => n > 0 /\ Ends(buf, s, n)
<1>1. most \in Nat /\ most <= s.left BY DEF Stream
<1>2. PICK m \in 0 .. most : /\ \A k \in 1 .. m - 1 : k \notin Stopping
                             /\ m < most => m > 0 /\ m \in Stopping
  <2> HIDE DEF most
  <2> QED BY <1>1, StopExists
<1>3. P(m)
  <2> HIDE DEF most
  <2> QED BY <1>1, <1>2
<1>4. VarintLen64(buf, s) = CHOOSE n \in 0 .. most : P(n) BY DEF VarintLen64
<1>5. VarintLen64(buf, s) \in 0 .. most
  <2> HIDE DEF P, most
  <2> QED BY <1>3, <1>4
<1>6. VarintLen64(buf, s) \in Nat /\ VarintLen64(buf, s) <= s.left
  <2> HIDE DEF most
  <2> QED BY <1>1, <1>5 DEF Stream
<1>7. ReadTo(s, Advance(s, VarintLen64(buf, s))) BY <1>6, AdvanceReads
<1> QED BY <1>7 DEF pb_decode_varint

\* Two reads, one after the other.
LEMMA ReadTwice ==
  ASSUME NEW s \in Stream, NEW t, NEW u, ReadTo(s, t), ReadTo(t, u)
  PROVE  ReadTo(s, u)
  BY DEF ReadTo, Stream

\* A value of a scalar, of a string or of bytes, whether it fits or not.
LEMMA DecodeValueReads ==
  ASSUME IInv, NEW field, NEW s, Inside(input.buffer, s), NEW addr
  PROVE  ReadTo(s, DecodeValue(field, s, addr).stream)
<1>1. s \in Stream /\ input.buffer \in Seq(Octet)
  BY InputsAssumption DEF Inside, IInv
<1>2. ReadTo(s, DecodeVarint(field, s, addr).stream)
  <2>1. DecodeVarint(field, s, addr).stream = pb_decode_varint(input.buffer, s).stream
    BY DEF DecodeVarint, Outcome
  <2> QED BY <1>1, <2>1, Varint64Reads
<1>3. ReadTo(s, DecodeFixed(s, addr, 4).stream) /\ ReadTo(s, DecodeFixed(s, addr, 8).stream)
  <2>1. \A size : DecodeFixed(s, addr, size).stream = pb_read(s, size).stream
    BY DEF DecodeFixed, Outcome
  <2> QED BY <1>1, <2>1, ReadReads
<1>4. ReadTo(s, DecodeBytes(field, s, addr).stream)
  <2> DEFINE size == pb_decode_varint32(input.buffer, s)
             read == pb_read(size.stream, size.value)
  <2>1. ReadTo(s, size.stream) /\ size.value \in Nat BY <1>1, VarintReads
  <2>2. ReadTo(size.stream, read.stream)
    <3> HIDE DEF size
    <3> QED BY <2>1, ReadReads DEF ReadTo
  <2>3. ReadTo(s, read.stream)
    <3> HIDE DEF size, read
    <3> QED BY <1>1, <2>1, <2>2, ReadTwice
  <2>4. \/ DecodeBytes(field, s, addr).stream = size.stream
        \/ DecodeBytes(field, s, addr).stream = read.stream
    BY DEF DecodeBytes, Outcome
  <2> QED BY <2>1, <2>3, <2>4
<1>5. \/ DecodeValue(field, s, addr) = DecodeVarint(field, s, addr)
      \/ DecodeValue(field, s, addr) = DecodeFixed(s, addr, 4)
      \/ DecodeValue(field, s, addr) = DecodeFixed(s, addr, 8)
      \/ DecodeValue(field, s, addr) = DecodeBytes(field, s, addr)
  BY DEF DecodeValue
<1> QED BY <1>2, <1>3, <1>4, <1>5

\* The innermost frame with another count of a fixed count field.
SameAs(f) ==
  /\ DOMAIN f = FrameFields
  /\ f.s = Top.s /\ f.sub = Top.sub /\ f.raw = Top.raw /\ f.end = Top.end /\ f.at = Top.at

LEMMA CountedSame ==
  ASSUME IInv, stack # <<>>, NEW n
  PROVE  SameAs(Top) /\ SameAs(Counted(Top, n))
<1>1. DOMAIN Top = FrameFields BY TopFrame DEF IsFrame
<1> QED BY <1>1 DEF SameAs, Counted, FrameFields

\* A value goes to the struct.
LEMMA DecodeToKeeps ==
  ASSUME IInv, stack # <<>>, Top.at = "field", NEW f, SameAs(f), NEW addr, NEW writes,
         DecodeTo(f, addr, writes), UNCHANGED <<input, stream, calls, first, result>>
  PROVE  IInv'
<1>1. IsFrame(Top) /\ Inside(input.buffer, Top.s) BY TopFrame DEF Plain
<1> DEFINE value == DecodeValue(f.cur.field, f.s, addr)
           g == [f EXCEPT !.s = value.stream, !.at = After(value.ok), !.ext = 0]
<1>2. SetTop(g) BY DEF DecodeTo
<1>3. ReadTo(Top.s, value.stream) BY <1>1, DecodeValueReads DEF SameAs
<1>4. Reads(g)
  <2> HIDE DEF value
  <2> QED BY <1>1, <1>2, <1>3 DEF Reads, SameAs, IsFrame, FrameFields, Plain, After
<1> HIDE DEF g
<1> QED BY <1>4, ReadsKeeps DEF Plain

\* A call for a submessage: the frame below keeps what is behind the substream.
LEMMA PushKeeps ==
  ASSUME IInv, stack # <<>>, NEW g, IsFrame(g), g.end = Top.end, NEW h, IsFrame(h),
         ReadsWithin(h), h.end + g.s.left = g.end,
         stack' = Append([stack EXCEPT ![Len(stack)] = g], h),
         UNCHANGED <<input, stream, calls, first, result>>
  PROVE  IInv'
<1> DEFINE t == [stack EXCEPT ![Len(stack)] = g]
           n == Len(stack)
<1>1. IsSeq(stack) BY DEF IInv
<1>2. /\ IsSeq(t)
      /\ Len(t) = n /\ n \in Nat \ {0}
      /\ \A k \in 1 .. n - 1 : t[k] = stack[k]
      /\ t[n] = g
      /\ DOMAIN stack = 1 .. n /\ DOMAIN t = 1 .. n
  <2>1. stack # <<>> OBVIOUS
  <2> QED BY ONLY <1>1, <2>1, Replaced, Zenon
<1> HIDE DEF t
<1>3. stack' = Append(t, h) BY DEF t
<1>4. /\ IsSeq(stack')
      /\ Len(stack') = n + 1
      /\ \A k \in 1 .. n : stack'[k] = t[k]
      /\ stack'[n + 1] = h
      /\ DOMAIN stack' = 1 .. n + 1
  <2>1. LET u == Append(t, h) IN
          /\ IsSeq(u)
          /\ Len(u) = Len(t) + 1 /\ Len(t) \in Nat
          /\ \A k \in 1 .. Len(t) : u[k] = t[k]
          /\ u[Len(t) + 1] = h
          /\ DOMAIN t = 1 .. Len(t) /\ DOMAIN u = 1 .. Len(t) + 1
    BY ONLY <1>2, Pushed, Zenon
  <2>2. Len(t) = n BY <1>2
  <2> QED BY ONLY <1>3, <2>1, <2>2, Zenon
<1> HIDE DEF n
<1>5. Len(stack) = n BY DEF n
<1>6. stack[n].end = g.end BY <1>5 DEF Top
<1>7. \A k \in DOMAIN stack' : IsFrame(stack'[k])
  <2> TAKE k \in DOMAIN stack'
  <2>1. CASE k = n + 1 BY <2>1, <1>4
  <2>2. CASE k = n BY <2>2, <1>2, <1>4
  <2>3. CASE k \in 1 .. n - 1
    <3>1. k \in 1 .. n /\ k \in DOMAIN stack BY <2>3, <1>2
    <3>2. stack'[k] = stack[k] BY <3>1, <2>3, <1>2, <1>4
    <3> QED BY <3>1, <3>2 DEF IInv
  <2> QED BY <2>1, <2>2, <2>3, <1>2, <1>4
<1>8. ASSUME NEW k \in 1 .. Len(stack') - 1
      PROVE  stack'[k + 1].end + stack'[k].s.left = stack'[k].end
  <2>0. n \in Nat \ {0} /\ k \in 1 .. n BY <1>2, <1>4
  <2>1. CASE k = n BY <2>0, <2>1, <1>2, <1>4
  <2>2. CASE k # n
    <3>1. k \in 1 .. n - 1 /\ k + 1 \in 1 .. n BY <2>0, <2>2
    <3>2. stack[k + 1].end + stack[k].s.left = stack[k].end BY <3>1, <1>5 DEF IInv
    <3>3. stack'[k] = stack[k] BY <3>1, <2>0, <1>2, <1>4
    <3>4. stack'[k + 1].end = stack[k + 1].end
      <4>1. CASE k + 1 = n BY <4>1, <2>0, <3>1, <1>2, <1>4, <1>6
      <4>2. CASE k + 1 # n
        <5>1. k + 1 \in 1 .. n - 1 BY <4>2, <2>0, <3>1
        <5> QED BY <5>1, <3>1, <1>2, <1>4
      <4> QED BY <4>1, <4>2
    <3> QED BY <3>2, <3>3, <3>4
  <2> QED BY <2>1, <2>2
<1>9. stack'[1].end = stack[1].end
  <2>1. CASE n = 1 BY <2>1, <1>2, <1>4, <1>6
  <2>2. CASE n # 1 BY <2>2, <1>2, <1>4
  <2> QED BY <2>1, <2>2
<1>10. stack' # <<>> BY <1>2, <1>4
<1>11. Top' = h BY <1>2, <1>4 DEF Top
<1>12. (\A k \in DOMAIN stack : IsFrame(stack[k]))'
  BY <1>7 DEF IsFrame
<1>13. ReadsWithin(Top)' BY <1>11 DEF ReadsWithin, Reach
<1> QED BY <1>4, <1>8, <1>9, <1>10, <1>12, <1>13 DEF IInv

\* A submessage is opened, or cannot be.
LEMMA OpenSubmessageKeeps ==
  ASSUME IInv, stack # <<>>, Top.at = "field", NEW f, SameAs(f), NEW addr,
         NEW writes, OpenSubmessage(f, addr, writes),
         UNCHANGED <<input, stream, calls, first, result>>
  PROVE  IInv'
<1>1. /\ IsFrame(Top) /\ ReadsWithin(Top) /\ Inside(input.buffer, Top.s)
      /\ input.buffer \in Seq(Octet)
  BY TopFrame DEF Plain
<1>2. EndOf(Top.s) = Top.end BY <1>1 DEF ReadsWithin, Reach
<1> DEFINE open == pb_make_string_substream(input.buffer, f.s)
           g == [f EXCEPT !.s = open.stream]
           h == NewFrame(f.cur.field.ptr, addr, open.substream)
<1>3. /\ open.stream \in Stream /\ open.substream \in Stream
      /\ EndOf(open.stream) <= EndOf(Top.s)
      /\ open.ok => EndOf(open.substream) + open.stream.left = EndOf(Top.s)
  BY <1>1, MakeSubstream DEF SameAs
<1>4. \/ SetTop([g EXCEPT !.at = "failed"])
      \/ open.ok /\ stack' = Append([stack EXCEPT ![Len(stack)] = g], h)
  BY DEF OpenSubmessage, Fail
<1>5. IsFrame(g) /\ g.end = Top.end /\ g.s = open.stream
  <2> HIDE DEF open
  <2> QED BY <1>1, <1>3 DEF IsFrame, SameAs, FrameFields
<1>6. CASE SetTop([g EXCEPT !.at = "failed"])
  <2> DEFINE k == [g EXCEPT !.at = "failed"]
  <2>1. IsFrame(k) /\ k.end = Top.end /\ k.at = "failed" /\ k.s = g.s
    <3> HIDE DEF g
    <3> QED BY <1>5 DEF IsFrame, FrameFields
  <2>2. EndOf(k.s) <= k.end BY <1>2, <1>3, <1>5, <2>1
  <2>3. ReadsWithin(k)
    <3> HIDE DEF k
    <3> QED BY <2>1, <2>2 DEF ReadsWithin, Reach
  <2> HIDE DEF k
  <2> QED BY <1>6, <2>1, <2>3, TopStep DEF k
<1>7. CASE open.ok /\ stack' = Append([stack EXCEPT ![Len(stack)] = g], h)
  <2>1. /\ DOMAIN h = FrameFields
        /\ h.s = open.substream /\ h.sub = open.substream /\ h.raw = FALSE
        /\ h.end = EndOf(open.substream) /\ h.at = "loop"
    <3> HIDE DEF open
    <3> QED BY DEF NewFrame, FrameFields
  <2>2. IsFrame(h)
    <3> HIDE DEF open, h
    <3>1. Len(input.buffer) \in Nat BY <1>1
    <3>2. h.end \in Nat /\ h.end <= Top.end
      <4>1. h.end + open.stream.left = Top.end BY <1>2, <1>3, <1>7, <2>1
      <4> QED BY <4>1, <1>3, <2>1 DEF Stream, EndOf
    <3>3. h.end <= Len(input.buffer) BY <1>1, <3>1, <3>2 DEF IsFrame
    <3> QED BY <1>3, <2>1, <3>2, <3>3 DEF IsFrame
  <2>3. ReadsWithin(h)
    <3> HIDE DEF h
    <3> QED BY <2>1, <2>2 DEF IsFrame, ReadsWithin, Reach
  <2>4. h.end + g.s.left = g.end BY <1>2, <1>3, <1>5, <1>7, <2>1
  <2> HIDE DEF open, g, h
  <2> QED BY <1>5, <1>7, <2>2, <2>3, <2>4, PushKeeps
<1> QED BY <1>4, <1>6, <1>7

\* Either of them.
LEMMA DecodeKeeps ==
  ASSUME IInv, stack # <<>>, Top.at = "field", NEW f, SameAs(f), NEW addr,
         NEW writes, Decode(f, addr, writes),
         UNCHANGED <<input, stream, calls, first, result>>
  PROVE  IInv'
<1>1. OpenSubmessage(f, addr, writes) \/ DecodeTo(f, addr, writes) BY DEF Decode
<1> QED BY <1>1, OpenSubmessageKeeps, DecodeToKeeps

\* Fields that are no arrays, and entries of arrays.
LEMMA SingularFieldKeeps ==
  ASSUME IInv, SingularField PROVE IInv'
<1>1. stack # <<>> /\ Top.at = "field" BY DEF SingularField, AtField, At
<1>2. SameAs(Top) BY <1>1, CountedSame
<1> QED BY <1>1, <1>2, DecodeKeeps DEF SingularField

LEMMA RepeatedEntryKeeps ==
  ASSUME IInv, RepeatedEntry PROVE IInv'
<1>1. stack # <<>> /\ Top.at = "field" BY DEF RepeatedEntry, AtField, At
<1> DEFINE n == ArrayCount(Top) + 1
           g == Counted(Top, n)
<1>2. SameAs(g) BY <1>1, CountedSame
<1>3. SetTop([g EXCEPT !.at = "failed"]) \/ Decode(g, EntryAddress(Top), CountWrite(Top, n))
  BY DEF RepeatedEntry, Fail
<1>4. CASE SetTop([g EXCEPT !.at = "failed"])
  <2> DEFINE k == [g EXCEPT !.at = "failed"]
  <2>1. IsFrame(Top) BY <1>1, TopFrame
  <2>2. Reads(k)
    <3>1. /\ DOMAIN k = DOMAIN Top /\ k.s = Top.s /\ k.end = Top.end /\ k.sub = Top.sub
          /\ k.raw = Top.raw /\ k.at = "failed"
      <4> HIDE DEF g
      <4> QED BY <1>2, <2>1 DEF SameAs, IsFrame, FrameFields
    <3> HIDE DEF k
    <3> QED BY <1>1, <1>4, <3>1, SameStreams DEF k
  <2> HIDE DEF k
  <2> QED BY <1>1, <2>2, ReadsKeeps DEF RepeatedEntry, Plain
<1>5. CASE Decode(g, EntryAddress(Top), CountWrite(Top, n))
  <2> HIDE DEF g, n
  <2> QED BY <1>1, <1>2, <1>5, DecodeKeeps DEF RepeatedEntry
<1> QED BY <1>3, <1>4, <1>5

-----------------------------------------------------------------------------
\* Packed arrays and callbacks: a substream without a frame of its own.

\* A step of the innermost call on its stream and on the substream.
LEMMA WithSub ==
  ASSUME IInv, stack # <<>>, NEW g, SetTop(g), DOMAIN g = DOMAIN Top, g.end = Top.end,
         g.s \in Stream, g.sub \in Stream, g.raw \in BOOLEAN, EndOf(g.s) <= g.end,
         IF g.at = "failed" THEN EndOf(g.s) <= g.end ELSE Reach(g) = g.end,
         UNCHANGED <<input, stream, calls, first, result>>
  PROVE  IInv'
<1>1. IsFrame(Top) BY TopFrame
<1>2. IsFrame(g) BY <1>1 DEF IsFrame
<1>3. g.at = "failed" => Reach(g) = EndOf(g.s) BY DEF Reach
<1>4. ReadsWithin(g) BY <1>3 DEF ReadsWithin
<1> QED BY <1>2, <1>4, TopStep

\* A packed array is opened, its entries are read, and it is closed.
LEMMA PackedArrayKeeps ==
  ASSUME IInv, PackedArray PROVE IInv'
<1>1. stack # <<>> /\ Top.at = "field" BY DEF PackedArray, AtField, At
<1>2. /\ IsFrame(Top) /\ ReadsWithin(Top) /\ Inside(input.buffer, Top.s)
      /\ input.buffer \in Seq(Octet)
  BY <1>1, TopFrame DEF Plain
<1>3. EndOf(Top.s) = Top.end BY <1>1, <1>2 DEF ReadsWithin, Reach
<1> DEFINE open == pb_make_string_substream(input.buffer, Top.s)
           g == [Top EXCEPT !.s = open.stream, !.sub = open.substream,
                            !.at = IF open.ok THEN "packed" ELSE "failed"]
<1>4. SetTop(g) BY DEF PackedArray
<1>5. /\ open.stream \in Stream /\ open.substream \in Stream
      /\ EndOf(open.stream) <= EndOf(Top.s)
      /\ open.ok => EndOf(open.substream) + open.stream.left = EndOf(Top.s)
  BY <1>2, MakeSubstream
<1> HIDE DEF open
<1>6. /\ DOMAIN g = DOMAIN Top /\ g.end = Top.end /\ g.raw = Top.raw
      /\ g.s = open.stream /\ g.sub = open.substream
      /\ g.at = IF open.ok THEN "packed" ELSE "failed"
  BY <1>2 DEF IsFrame, FrameFields
<1> HIDE DEF g
<1>7. g.at = "packed" => Reach(g) = g.end BY <1>3, <1>5, <1>6 DEF Reach
<1> QED BY <1>1, <1>2, <1>3, <1>4, <1>5, <1>6, <1>7, WithSub DEF PackedArray, IsFrame

LEMMA PackedEntryKeeps ==
  ASSUME IInv, PackedEntry PROVE IInv'
<1>1. stack # <<>> /\ Top.at = "packed" BY DEF PackedEntry, At
<1>2. IsFrame(Top) /\ ReadsWithin(Top) /\ Len(input.buffer) \in Nat BY <1>1, TopFrame
<1>3. EndOf(Top.sub) + Top.s.left = Top.end BY <1>1, <1>2 DEF ReadsWithin, Reach
<1>4. Inside(input.buffer, Top.sub)
  BY <1>2, <1>3 DEF Inside, IsFrame, Stream, EndOf
<1> DEFINE value == DecodeValue(Top.cur.field, Top.sub, EntryAddress(Top))
           n == ArrayCount(Top) + 1
           t == IF value.stream.left # 0 THEN Top.s
                ELSE pb_close_string_substream(Top.s, value.stream)
           g == [Counted(Top, n) EXCEPT !.sub = value.stream]
           h == [[Top EXCEPT !.sub = value.stream, !.s = t] EXCEPT !.at = "failed"]
<1>5. ReadTo(Top.sub, value.stream) BY <1>4, DecodeValueReads
<1>6. SetTop(g) \/ SetTop(h) BY DEF PackedEntry, Fail
<1>7. SameAs(Counted(Top, n)) BY <1>1, CountedSame
<1>8. t \in Stream /\ EndOf(t) <= Top.end
  <2>1. value.stream \in Stream /\ EndOf(value.stream) = EndOf(Top.sub)
    BY <1>5 DEF ReadTo
  <2>2. /\ pb_close_string_substream(Top.s, value.stream) \in Stream
        /\ EndOf(pb_close_string_substream(Top.s, value.stream)) = Top.end
    BY <1>2, <1>3, <2>1, CloseSubstream DEF IsFrame
  <2>3. Top.s \in Stream /\ EndOf(Top.s) <= Top.end /\ Top.end <= Top.end
    BY <1>2 DEF IsFrame, ReadsWithin
  <2> QED BY <2>2, <2>3
<1> HIDE DEF value, n, t
<1>9. /\ DOMAIN g = DOMAIN Top /\ g.end = Top.end /\ g.raw = Top.raw /\ g.s = Top.s
      /\ g.sub = value.stream /\ g.at = "packed"
  BY <1>1, <1>2, <1>7 DEF SameAs, IsFrame, FrameFields
<1>10. /\ DOMAIN h = DOMAIN Top /\ h.end = Top.end /\ h.raw = Top.raw /\ h.s = t
      /\ h.sub = value.stream /\ h.at = "failed"
  BY <1>2 DEF IsFrame, FrameFields
<1> HIDE DEF g, h
<1>11. Reach(g) = g.end BY <1>3, <1>5, <1>9 DEF Reach, ReadTo
<1>12. EndOf(Top.s) <= Top.end BY <1>2 DEF ReadsWithin
<1>13. CASE SetTop(g)
  BY <1>1, <1>2, <1>5, <1>9, <1>11, <1>12, <1>13, WithSub DEF PackedEntry, IsFrame, ReadTo
<1>14. CASE SetTop(h)
  BY <1>1, <1>2, <1>5, <1>8, <1>10, <1>14, WithSub DEF PackedEntry, IsFrame, ReadTo
<1> QED BY <1>6, <1>13, <1>14

LEMMA PackedEndsKeeps ==
  ASSUME IInv, PackedEnds PROVE IInv'
<1>1. stack # <<>> /\ Top.at = "packed" BY DEF PackedEnds, At
<1>2. IsFrame(Top) /\ ReadsWithin(Top) BY <1>1, TopFrame
<1>3. EndOf(Top.sub) + Top.s.left = Top.end BY <1>1, <1>2 DEF ReadsWithin, Reach
<1> DEFINE s == pb_close_string_substream(Top.s, Top.sub)
           g == [Top EXCEPT !.s = s, !.at = "loop", !.ext = 0]
           h == [Top EXCEPT !.at = "failed"]
<1>4. SetTop(g) \/ SetTop(h) BY DEF PackedEnds, Fail
<1>5. s \in Stream /\ EndOf(s) = Top.end BY <1>2, <1>3, CloseSubstream DEF IsFrame
<1> HIDE DEF s
<1>6. /\ DOMAIN g = DOMAIN Top /\ g.end = Top.end /\ g.raw = Top.raw /\ g.s = s
      /\ g.sub = Top.sub /\ g.at = "loop"
  BY <1>2 DEF IsFrame, FrameFields
<1>7. /\ DOMAIN h = DOMAIN Top /\ h.end = Top.end /\ h.raw = Top.raw /\ h.s = Top.s
      /\ h.sub = Top.sub /\ h.at = "failed"
  BY <1>2 DEF IsFrame, FrameFields
<1> HIDE DEF g, h
<1>8. Reach(g) = g.end BY <1>5, <1>6 DEF Reach
<1>9. EndOf(Top.s) <= Top.end /\ Top.end <= Top.end BY <1>2 DEF ReadsWithin, IsFrame
<1>10. CASE SetTop(g)
  BY <1>1, <1>2, <1>5, <1>6, <1>8, <1>9, <1>10, WithSub DEF PackedEnds, IsFrame
<1>11. CASE SetTop(h)
  BY <1>1, <1>2, <1>7, <1>9, <1>11, WithSub DEF PackedEnds, IsFrame
<1> QED BY <1>4, <1>10, <1>11

\* A value that is copied for a callback.
LEMMA RawReads ==
  ASSUME NEW s \in Stream, NEW wire_type
  PROVE  ReadTo(s, read_raw_value(s, wire_type).stream)
<1>1. ReadTo(s, pb_decode_varint(input.buffer, s).stream) BY Varint64Reads
<1>2. ReadTo(s, pb_read(s, 8).stream) /\ ReadTo(s, pb_read(s, 4).stream) BY ReadReads
<1>3. ReadTo(s, s) BY DEF ReadTo, Stream
<1>4. read_raw_value(s, wire_type).stream \in
        {pb_decode_varint(input.buffer, s).stream, pb_read(s, 8).stream, pb_read(s, 4).stream, s}
  BY DEF read_raw_value
<1> QED BY <1>1, <1>2, <1>3, <1>4

\* A callback gets a substream of the field, or a copy of its value.
LEMMA CallbackFieldKeeps ==
  ASSUME IInv, CallbackField PROVE IInv'
<1>1. stack # <<>> /\ Top.at = "field" BY DEF CallbackField, AtField, At
<1>2. /\ IsFrame(Top) /\ ReadsWithin(Top) /\ Inside(input.buffer, Top.s)
      /\ input.buffer \in Seq(Octet)
  BY <1>1, TopFrame DEF Plain
<1>3. EndOf(Top.s) = Top.end BY <1>1, <1>2 DEF ReadsWithin, Reach
<1> DEFINE open == pb_make_string_substream(input.buffer, Top.s)
           raw  == read_raw_value(Top.s, Top.wire_type)
           copy == [Top.s EXCEPT !.left = raw.stream.pos - Top.s.pos]
           f == [Top EXCEPT !.at = "skip"]
           g == [Top EXCEPT !.s = open.stream, !.sub = open.substream, !.raw = FALSE,
                            !.at = IF open.ok THEN "callback" ELSE "failed"]
           h == [Top EXCEPT !.s = raw.stream, !.sub = copy, !.raw = TRUE,
                            !.at = IF raw.ok THEN "callback" ELSE "failed"]
<1>4. SetTop(f) \/ SetTop(g) \/ SetTop(h) BY DEF CallbackField, ForCallback
<1>5. /\ open.stream \in Stream /\ open.substream \in Stream
      /\ EndOf(open.stream) <= EndOf(Top.s)
      /\ open.ok => EndOf(open.substream) + open.stream.left = EndOf(Top.s)
  BY <1>2, MakeSubstream
<1>6. ReadTo(Top.s, raw.stream) BY <1>2, RawReads DEF IsFrame
<1> HIDE DEF open, raw
<1>7. copy \in Stream BY <1>2, <1>6 DEF IsFrame, ReadTo, Stream, EndOf
<1> HIDE DEF copy
<1>8. /\ DOMAIN g = DOMAIN Top /\ g.end = Top.end /\ g.raw = FALSE
      /\ g.s = open.stream /\ g.sub = open.substream
      /\ g.at = IF open.ok THEN "callback" ELSE "failed"
  BY <1>2 DEF IsFrame, FrameFields
<1>9. /\ DOMAIN h = DOMAIN Top /\ h.end = Top.end /\ h.raw = TRUE
      /\ h.s = raw.stream /\ h.sub = copy
      /\ h.at = IF raw.ok THEN "callback" ELSE "failed"
  BY <1>2 DEF IsFrame, FrameFields
<1>10. CASE SetTop(f)
  <2>1. Reads(f) BY <1>1, <1>2, <1>10, SameStreams DEF IsFrame, FrameFields, Plain
  <2> HIDE DEF f
  <2> QED BY <1>1, <2>1, ReadsKeeps DEF CallbackField, Plain
<1> HIDE DEF g, h
<1>11. CASE SetTop(g)
  <2>1. g.at = "callback" => Reach(g) = g.end BY <1>3, <1>5, <1>8 DEF Reach
  <2> QED BY <1>1, <1>2, <1>3, <1>5, <1>8, <1>11, <2>1, WithSub DEF CallbackField, IsFrame
<1>12. CASE SetTop(h)
  <2>1. Reach(h) = h.end BY <1>3, <1>6, <1>9 DEF Reach, ReadTo
  <2>2. EndOf(h.s) <= h.end
    <3>1. EndOf(h.s) = h.end /\ h.end \in Nat BY <1>2, <1>3, <1>6, <1>9 DEF ReadTo, IsFrame
    <3> QED BY <3>1
  <2>3. h.s \in Stream /\ h.sub \in Stream /\ h.raw \in BOOLEAN
    BY <1>6, <1>7, <1>9 DEF ReadTo
  <2>4. UNCHANGED <<input, stream, calls, first, result>> BY DEF CallbackField
  <2> QED BY <1>1, <1>9, <1>12, <2>1, <2>2, <2>3, <2>4, WithSub
<1> QED BY <1>4, <1>10, <1>11, <1>12

\* However much of it the callback reads, the field is skipped as a whole.
LEMMA CallbackReturnsKeeps ==
  ASSUME IInv, NEW count \in Nat, NEW ok \in BOOLEAN, CallbackReturns(count, ok) PROVE IInv'
<1>1. stack # <<>> /\ Top.at = "callback" BY DEF CallbackReturns, At
<1>2. IsFrame(Top) /\ ReadsWithin(Top) BY <1>1, TopFrame
<1>3. Reach(Top) = Top.end /\ EndOf(Top.s) <= Top.end BY <1>1, <1>2 DEF ReadsWithin
<1> DEFINE sub == Advance(Top.sub, count)
           s == pb_close_string_substream(Top.s, sub)
           f == [Top EXCEPT !.sub = sub, !.at = After(ok), !.ext = 0]
           g == [Top EXCEPT !.sub = sub]
           h == [Top EXCEPT !.s = s, !.sub = sub, !.at = "loop", !.ext = 0]
<1>4. \/ (~ok \/ Top.raw) /\ SetTop(f)
      \/ ~Top.raw /\ SetTop(g)
      \/ ~Top.raw /\ SetTop(h)
  BY DEF CallbackReturns
<1>5. ReadTo(Top.sub, sub) BY <1>2, AdvanceReads DEF CallbackReturns, IsFrame
<1>6. s \in Stream /\ EndOf(s) = EndOf(Top.sub) + Top.s.left
  <2>1. sub \in Stream BY <1>5 DEF ReadTo
  <2> HIDE DEF sub
  <2> QED BY <1>2, <1>5, <2>1, CloseSubstream DEF IsFrame, ReadTo
<1> HIDE DEF s, sub
<1>7. /\ DOMAIN f = DOMAIN Top /\ f.end = Top.end /\ f.raw = Top.raw /\ f.s = Top.s
      /\ f.sub = sub /\ f.at = After(ok)
  BY <1>2 DEF IsFrame, FrameFields
<1>8. /\ DOMAIN g = DOMAIN Top /\ g.end = Top.end /\ g.raw = Top.raw /\ g.s = Top.s
      /\ g.sub = sub /\ g.at = "callback"
  BY <1>1, <1>2 DEF IsFrame, FrameFields
<1>9. /\ DOMAIN h = DOMAIN Top /\ h.end = Top.end /\ h.raw = Top.raw /\ h.s = s
      /\ h.sub = sub /\ h.at = "loop"
  BY <1>2 DEF IsFrame, FrameFields
<1> HIDE DEF f, g, h
<1>10. CASE (~ok \/ Top.raw) /\ SetTop(f)
  <2>1. Top.raw => EndOf(Top.s) = Top.end BY <1>1, <1>3 DEF Reach
  <2>2. IF f.at = "failed" THEN EndOf(f.s) <= f.end ELSE Reach(f) = f.end
    BY <1>3, <1>7, <1>10, <2>1 DEF Reach, After
  <2> QED BY <1>1, <1>2, <1>3, <1>5, <1>7, <1>10, <2>2, WithSub
          DEF CallbackReturns, IsFrame, ReadTo
<1>11. CASE ~Top.raw /\ SetTop(g)
  <2>1. Reach(g) = g.end BY <1>1, <1>3, <1>5, <1>8, <1>11 DEF Reach, ReadTo
  <2> QED BY <1>1, <1>2, <1>3, <1>5, <1>8, <1>11, <2>1, WithSub
          DEF CallbackReturns, IsFrame, ReadTo
<1>12. CASE ~Top.raw /\ SetTop(h)
  <2>1. EndOf(s) = Top.end BY <1>1, <1>3, <1>6, <1>12 DEF Reach
  <2>2. Reach(h) = h.end /\ EndOf(h.s) <= h.end
    BY <1>2, <1>9, <2>1 DEF Reach, IsFrame
  <2> QED BY <1>1, <1>2, <1>5, <1>6, <1>9, <1>12, <2>2, WithSub
          DEF CallbackReturns, IsFrame, ReadTo
<1> QED BY <1>4, <1>10, <1>11, <1>12
-----------------------------------------------------------------------------
\* Calls and returns.

\* A submessage returns: what it did not read is skipped.
LEMMA ReturnKeeps ==
  ASSUME IInv, Return PROVE IInv'
<1>1. stack # <<>> /\ Top.at \in {"done", "failed"} BY DEF Return
<1>2. IsFrame(Top) /\ ReadsWithin(Top) BY <1>1, TopFrame
<1>3. EndOf(Top.s) <= Top.end /\ (Top.at = "done" => EndOf(Top.s) = Top.end)
  BY <1>1, <1>2 DEF ReadsWithin, Reach
<1>4. IsSeq(stack) BY DEF IInv
<1>5. PICK S : stack \in Seq(S) BY <1>4 DEF IsSeq
<1>6. Len(stack) \in Nat \ {0} /\ DOMAIN stack = 1 .. Len(stack) BY <1>1, <1>5, LenProperties
<1>7. CASE Len(stack) > 1
  <2> DEFINE n == Len(stack) - 1
             below == stack[n]
             s == pb_close_string_substream(below.s, Top.s)
             g == [below EXCEPT !.s = s, !.at = After(Top.at = "done"), !.ext = 0]
  <2>1. stack' = Append(SubSeq(stack, 1, Len(stack) - 2), g) /\ stream' = stream
          /\ UNCHANGED <<input, calls, first, result>>
    <3>1. ~(Len(stack) = 1) BY ONLY <1>6, <1>7
    <3> QED BY ONLY Return, <3>1, Zenon DEF Return, n, below, s, g
  <2>2. /\ IsSeq(stack')
        /\ Len(stack') = n /\ n \in Nat \ {0} /\ Len(stack) = n + 1
        /\ \A k \in 1 .. n - 1 : stack'[k] = stack[k]
        /\ stack'[n] = g
        /\ DOMAIN stack = 1 .. n + 1 /\ DOMAIN stack' = 1 .. n
    <3>1. LET t == Append(SubSeq(stack, 1, Len(stack) - 2), g)
              m == Len(stack) - 1
          IN  /\ IsSeq(t)
              /\ Len(t) = m /\ m \in Nat \ {0} /\ Len(stack) = m + 1
              /\ \A k \in 1 .. m - 1 : t[k] = stack[k]
              /\ t[m] = g
              /\ DOMAIN stack = 1 .. m + 1 /\ DOMAIN t = 1 .. m
      <4> HIDE DEF g
      <4> QED BY ONLY <1>4, <1>7, Popped, Zenon
    <3> HIDE DEF g
    <3> QED BY ONLY <2>1, <3>1, Zenon DEF n
  <2> HIDE DEF n
  <2>3. IsFrame(below) BY <2>2 DEF IInv
  <2>4. Top.end + below.s.left = below.end
    <3>1. stack[n + 1].end + stack[n].s.left = stack[n].end BY <2>2 DEF IInv
    <3> QED BY <2>2, <3>1 DEF Top
  <2>5. s \in Stream /\ EndOf(s) = EndOf(Top.s) + below.s.left
    BY <1>2, <2>3, CloseSubstream DEF IsFrame
  <2> HIDE DEF below, s
  <2>6. /\ DOMAIN g = FrameFields /\ g.end = below.end /\ g.s = s /\ g.sub = below.sub
        /\ g.raw = below.raw /\ g.at = After(Top.at = "done")
    BY <2>3 DEF IsFrame, FrameFields
  <2> HIDE DEF g
  <2>7. IsFrame(g) BY <2>3, <2>5, <2>6 DEF IsFrame
  <2>8. EndOf(s) <= below.end /\ (Top.at = "done" => EndOf(s) = below.end)
    <3>1. below.s.left \in Nat BY <2>3 DEF IsFrame, Stream
    <3>2. EndOf(Top.s) \in Nat /\ Top.end \in Nat BY <1>2 DEF IsFrame, Stream, EndOf
    <3> QED BY <1>3, <2>4, <2>5, <3>1, <3>2
  <2>9. ReadsWithin(g) BY <2>6, <2>8 DEF ReadsWithin, Reach, After
  <2>10. \A k \in DOMAIN stack' : IsFrame(stack'[k])
    <3> TAKE k \in DOMAIN stack'
    <3>1. CASE k = n BY <3>1, <2>2, <2>7
    <3>2. CASE k # n
      <4>1. k \in 1 .. n - 1 /\ k \in DOMAIN stack BY <3>2, <2>2
      <4> QED BY <4>1, <2>2 DEF IInv
    <3> QED BY <3>1, <3>2
  <2>11. \A k \in 1 .. n : stack'[k].end = stack[k].end
    <3> TAKE k \in 1 .. n
    <3>1. CASE k = n BY <3>1, <2>2, <2>6 DEF below
    <3>2. CASE k # n BY <3>2, <2>2
    <3> QED BY <3>1, <3>2
  <2>12. ASSUME NEW k \in 1 .. Len(stack') - 1
         PROVE  stack'[k + 1].end + stack'[k].s.left = stack'[k].end
    <3>1. k \in 1 .. n - 1 /\ k \in 1 .. n /\ k + 1 \in 1 .. n BY <2>2
    <3>2. stack[k + 1].end + stack[k].s.left = stack[k].end BY <3>1, <2>2 DEF IInv
    <3> QED BY <3>1, <3>2, <2>2, <2>11
  <2>13. stack'[1].end = stack[1].end BY <2>2, <2>11
  <2>14. stack' # <<>> /\ Top' = g BY <2>2 DEF Top
  <2>15. (\A k \in DOMAIN stack : IsFrame(stack[k]))' BY <2>1, <2>10 DEF IsFrame
  <2>16. ReadsWithin(Top)' BY <2>9, <2>14 DEF ReadsWithin, Reach
  <2> QED BY <2>1, <2>2, <2>12, <2>13, <2>14, <2>15, <2>16 DEF IInv
<1>8. CASE Len(stack) = 1
  <2>1. /\ stack' = <<>> /\ UNCHANGED <<input, calls, first>>
        /\ stream' = IF input.delimited THEN pb_close_string_substream(stream, Top.s) ELSE Top.s
        /\ result' = (Top.at = "done")
    BY <1>8 DEF Return
  <2>2. Top.end + (IF input.delimited THEN stream.left ELSE 0) = Len(input.buffer)
    BY <1>1, <1>8 DEF IInv, Top
  <2>3. /\ pb_close_string_substream(stream, Top.s) \in Stream
        /\ EndOf(pb_close_string_substream(stream, Top.s)) = EndOf(Top.s) + stream.left
    BY <1>2, CloseSubstream DEF IsFrame, IInv
  <2>4. stream' \in Stream BY <1>2, <2>1, <2>3 DEF IsFrame
  <2>5. ASSUME result' PROVE EndOf(stream') = Len(input.buffer)
    <3>1. Top.at = "done" BY ONLY <2>1, <2>5, Zenon
    <3>2. EndOf(Top.s) = Top.end /\ Top.end \in Nat BY <1>2, <1>3, <3>1 DEF IsFrame
    <3>3. CASE input.delimited BY <3>2, <3>3, <2>1, <2>2, <2>3
    <3>4. CASE ~input.delimited
      <4>1. stream' = Top.s BY ONLY <3>4, <2>1, Zenon
      <4>2. Top.end = Len(input.buffer) BY <3>2, <3>4, <2>2
      <4> QED BY ONLY <3>2, <4>1, <4>2, Zenon
    <3> QED BY ONLY <3>3, <3>4, Zenon
  <2>6. IsSeq(stack') BY <2>1 DEF IsSeq
  <2>7. calls # 0
    BY <1>1 DEF IInv
  <2> QED BY <2>1, <2>4, <2>5, <2>6, <2>7 DEF IInv
<1> QED BY <1>6, <1>7, <1>8

\* With no call in progress, little is to be shown.
LEMMA EmptyStack ==
  ASSUME input \in Inputs, stream \in Stream, calls \in Nat, result \in BOOLEAN, stack = <<>>,
         calls = 0 \/ result => EndOf(stream) = Len(input.buffer)
  PROVE  IInv
<1>1. stack \in Seq({}) BY EmptySeq
<1>2. Len(stack) = 0 /\ DOMAIN stack = {} BY EmptySeq
<1>3. \A k \in 1 .. Len(stack) - 1 : FALSE BY <1>2
<1>4. IsSeq(stack) BY <1>1 DEF IsSeq
<1>5. \A k \in DOMAIN stack : FALSE BY <1>2
<1> QED BY <1>3, <1>4, <1>5, Zenon DEF IInv

\* A call begins at the rest of the buffer.
LEMMA CallKeeps ==
  ASSUME IInv, NEW init \in BOOLEAN, Call(init) PROVE IInv'
<1>1. stack = <<>> /\ UNCHANGED input /\ calls' = calls + 1 BY DEF Call
<1>2. /\ stream \in Stream /\ EndOf(stream) = Len(input.buffer)
      /\ calls \in Nat /\ calls' \in Nat /\ calls' # 0
  <2>1. calls = 0 \/ result BY DEF Call
  <2> QED BY <1>1, <2>1 DEF IInv
<1>3. /\ input.buffer \in Seq(Octet) /\ input.delimited \in BOOLEAN
      /\ Len(input.buffer) \in Nat
  BY InputsAssumption DEF IInv
<1>4. Inside(input.buffer, stream) BY <1>2, <1>3 DEF Inside
<1> DEFINE open == pb_make_string_substream(input.buffer, stream)
           s == IF input.delimited THEN open.substream ELSE stream
           h == NewFrame(input.msg, 0, s)
<1>5. stream' = IF input.delimited THEN open.stream ELSE stream BY DEF Call
<1>6. \/ /\ input.delimited /\ ~open.ok
         /\ result' = FALSE /\ stack' = stack
      \/ /\ ~(input.delimited /\ ~open.ok)
         /\ result' = result /\ stack' = <<h>>
  BY DEF Call
<1>7. /\ open.stream \in Stream /\ open.substream \in Stream
      /\ open.ok => EndOf(open.substream) + open.stream.left = EndOf(stream)
  BY <1>3, <1>4, MakeSubstream
<1>8. /\ DOMAIN h = FrameFields
      /\ h.s = s /\ h.sub = s /\ h.raw = FALSE /\ h.end = EndOf(s) /\ h.at = "loop"
  <2> HIDE DEF s
  <2> QED BY DEF NewFrame, FrameFields
<1> HIDE DEF open, h
<1>9. stream' \in Stream BY <1>2, <1>5, <1>7
<1>10. CASE input.delimited /\ ~open.ok
  <2>1. result' = FALSE /\ stack' = <<>> BY <1>1, <1>6, <1>10
  <2>2. IsSeq(stack') BY <2>1, EmptySeq DEF IsSeq
  <2>3. Len(stack') = 0 /\ DOMAIN stack' = {} BY <2>1, EmptySeq
  <2>4. \A k \in 1 .. Len(stack') - 1 : FALSE BY <2>3
  <2> QED BY <1>1, <1>2, <1>9, <2>1, <2>2, <2>3, <2>4 DEF IInv
<1>11. CASE ~(input.delimited /\ ~open.ok)
  <2>1. result' = result /\ stack' = <<h>> BY <1>6, <1>11
  <2>2. s \in Stream /\ EndOf(s) \in Nat BY <1>2, <1>7 DEF Stream, EndOf
  <2>3. EndOf(s) + (IF input.delimited THEN stream'.left ELSE 0) = Len(input.buffer)
    BY <1>2, <1>3, <1>5, <1>7, <1>11, <2>2
  <2>4. stream'.left \in Nat BY <1>9 DEF Stream
  <2> HIDE DEF s
  <2>5. EndOf(s) <= Len(input.buffer) BY <1>3, <2>2, <2>3, <2>4
  <2>6. IsFrame(h) BY <1>8, <2>2, <2>5 DEF IsFrame
  <2>7. ReadsWithin(h) BY <1>8, <2>2 DEF ReadsWithin, Reach
  <2>8. /\ Len(stack') = 1 /\ DOMAIN stack' = {1} /\ stack'[1] = h /\ stack' # <<>>
        /\ IsSeq(stack')
    <3>1. stack' \in Seq({h}) BY <2>1
    <3>2. IsSeq(stack') BY <3>1 DEF IsSeq
    <3>3. Len(stack') = 1 /\ stack'[1] = h /\ stack' # <<>> BY <2>1
    <3>4. DOMAIN stack' = 1 .. 1 BY <3>1, <3>3, LenProperties
    <3> QED BY <3>2, <3>3, <3>4
  <2>9. Top' = h BY <2>8 DEF Top
  <2>10. (\A k \in DOMAIN stack : IsFrame(stack[k]))' BY <1>1, <2>6, <2>8 DEF IsFrame
  <2>11. ReadsWithin(Top)' BY <2>7, <2>9 DEF ReadsWithin, Reach
  <2>12. \A k \in 1 .. Len(stack') - 1 : FALSE BY <2>8
  <2> QED BY <1>1, <1>2, <1>8, <1>9, <2>1, <2>3, <2>8, <2>10, <2>11, <2>12 DEF IInv
<1> QED BY <1>10, <1>11
-----------------------------------------------------------------------------
\* Before the first call the stream is the whole buffer.
LEMMA InitIInv ==
  Init => IInv
<1> SUFFICES ASSUME Init PROVE IInv
  OBVIOUS
<1>1. input.buffer \in Seq(Octet) BY InputsAssumption DEF Init
<1>2. stream \in Stream /\ EndOf(stream) = Len(input.buffer)
  BY <1>1 DEF Init, FromBuffer, Stream, EndOf
<1> QED BY <1>2, EmptyStack DEF Init

\* Each step keeps the invariant.
LEMMA StepIInv ==
  IInv /\ [Next]_vars => IInv'
<1> SUFFICES ASSUME IInv, [Next]_vars PROVE IInv'
  OBVIOUS
<1>1. CASE UNCHANGED vars
  BY <1>1 DEF vars, IInv, IsFrame, ReadsWithin, Reach, Top
<1>2. ASSUME NEW init \in BOOLEAN, Call(init) PROVE IInv'
  BY <1>2, CallKeeps
<1>3. CASE Fields
  BY <1>3, SingularFieldKeeps, RepeatedEntryKeeps, PackedArrayKeeps, PackedEntryKeeps,
     PackedEndsKeeps, PointerFieldKeeps, CallbackFieldKeeps DEF Fields
<1>4. CASE Decoder
  BY <1>3, <1>4, RoundKeeps, FindKeeps, FindExtensionKeeps, SkipFieldKeeps, EndMessageKeeps,
     CountRequiredKeeps, ReturnKeeps, NotAnExtensionKeeps, DefaultExtensionKeeps DEF Decoder
<1>5. ASSUME NEW count \in 0 .. Len(input.buffer), NEW ok \in BOOLEAN, Foreign(count, ok)
      PROVE  IInv'
  <2>1. count \in Nat OBVIOUS
  <2> QED BY <1>5, <2>1, CallbackReturnsKeeps, ForeignExtensionKeeps DEF Foreign
<1> QED BY <1>1, <1>2, <1>4, <1>5 DEF Next

\* The invariant says more than the property: every stack it allows fits.
LEMMA IInvFits ==
  IInv => StreamsFit
<1> SUFFICES ASSUME IInv PROVE StreamsFit
  OBVIOUS
<1> QED BY DEF IInv, StreamsFit, ReadsWithin

\* Each call in progress reads within its message, of which the rest is its callers'.
THEOREM DecoderInvariance ==
  Spec => []IInv
BY InitIInv, StepIInv, PTL DEF Spec

\* The streams of messages within messages fit into one another without gap or overlap,
\* for every description of messages, every buffer and every behaviour of the callbacks:
\* pb_make_string_substream() and pb_close_string_substream() between them neither lose
\* nor invent a byte of the caller's, and a failure leaves nothing behind its message
\* read.
THEOREM DecoderStreamsFit ==
  Spec => []StreamsFit
BY DecoderInvariance, IInvFits, PTL

-----------------------------------------------------------------------------
\* The iterator of any message type, also of one without members.

\* A description of no members has nothing but the terminator.
LEMMA NoMembers ==
  ASSUME NEW msg \in DOMAIN Structs, FieldCount(msg) = 0
  PROVE  Structs[msg] = <<>> /\ FieldAt(msg, 1) = PB_LAST_FIELD
<1>1. Structs[msg] \in Seq(Member)
  BY LayoutAssumption DEF WellLaidOut
<1>2. Structs[msg] = <<>> /\ DOMAIN Structs[msg] = {}
  BY <1>1, EmptySeq DEF FieldCount
<1> DEFINE described == [j \in DOMAIN Structs[msg] |-> PB_FIELD(Structs[msg], j)]
<1>3. described = <<>>
  BY <1>2
<1> HIDE DEF described
<1>4. Append(described, PB_LAST_FIELD)[1] = PB_LAST_FIELD
  BY <1>3
<1>5. fields[msg] = Append(described, PB_LAST_FIELD)
  BY DEF fields, described
<1> QED BY <1>2, <1>4, <1>5 DEF FieldAt

\* The iterator of the struct at base stands for one of its members.
Stands(msg, base, it) == it \in Iterators /\ IterConsistent(msg, base, it)

LEMMA Begins ==
  ASSUME NEW msg \in DOMAIN Structs, NEW base \in Int
  PROVE  Stands(msg, base, pb_field_iter_begin(msg, base))
<1>1. FieldCount(msg) \in Nat
  BY LayoutAssumption DEF WellLaidOut, FieldCount
<1>2. CASE FieldCount(msg) > 0
  BY <1>2, IteratorBegins DEF Stands
<1>3. CASE FieldCount(msg) = 0
  <2>1. Structs[msg] = <<>> /\ FieldAt(msg, 1) = PB_LAST_FIELD
    BY <1>3, NoMembers
  <2>2. base + 0 = base
    OBVIOUS
  <2>3. pb_field_iter_begin(msg, base) = Iter(1, 0, base, PB_LAST_FIELD)
    BY <2>1, <2>2 DEF pb_field_iter_begin, BeginAt, PB_LAST_FIELD
  <2>4. Iter(1, 0, base, PB_LAST_FIELD) \in Iterators
    BY DEF Iter, PB_LAST_FIELD, Iterators
  <2> QED BY <2>1, <2>3, <2>4 DEF Stands, IterConsistent
<1> QED BY <1>1, <1>2, <1>3

LEMMA FindsNext ==
  ASSUME NEW msg \in DOMAIN Structs, NEW base \in Int, NEW it, Stands(msg, base, it)
  PROVE  Stands(msg, base, pb_field_iter_next(msg, base, it))
<1>1. FieldCount(msg) \in Nat
  BY LayoutAssumption DEF WellLaidOut, FieldCount
<1>2. CASE FieldCount(msg) > 0
  BY <1>2, IteratorFindsNext DEF Stands
<1>3. CASE FieldCount(msg) = 0
  BY <1>3 DEF pb_field_iter_next
<1> QED BY <1>1, <1>2, <1>3

\* What decode_field() needs to know of a field.
Describes(field) ==
  field.data_size \in Nat /\ field.array_size \in Nat /\ PointsToStruct(field)

\* The field that the iterator stands at.
LEMMA FieldDescribes ==
  ASSUME NEW msg \in DOMAIN Structs, NEW base \in Int, NEW it, Stands(msg, base, it)
  PROVE  Describes(FieldAt(msg, it.pos)) /\ it.pData \in Int /\ it.required_field_index \in Nat
<1>1. it.pData \in Int /\ it.required_field_index \in Nat
  BY DEF Stands, Iterators
<1>2. /\ WellLaidOut(Structs[msg]) /\ Structs[msg] \in Seq(Member)
      /\ FieldCount(msg) \in Nat /\ DOMAIN Structs[msg] = 1 .. FieldCount(msg)
  BY LayoutAssumption DEF WellLaidOut, FieldCount
<1>3. CASE FieldCount(msg) = 0
  <2>1. Structs[msg] = <<>> /\ FieldAt(msg, 1) = PB_LAST_FIELD
    BY <1>3, NoMembers
  <2>2. it.pos = 1
    BY <2>1 DEF Stands, IterConsistent, Iter
  <2> QED BY <1>1, <2>1, <2>2 DEF Describes, PB_LAST_FIELD, PointsToStruct
<1>4. CASE FieldCount(msg) # 0
  <2> DEFINE k == it.pos
             m == Structs[msg][k]
  <2>1. Structs[msg] # <<>>
    BY <1>4 DEF FieldCount
  <2>2. k \in DOMAIN Structs[msg] /\ k \in 1 .. FieldCount(msg)
    BY <1>2, <2>1 DEF Stands, IterConsistent
  <2>3. m.item \in Nat /\ m.count \in Nat
    BY <2>2, OneMember
  <2>4. PointsToStruct(m)
    BY <1>2, <2>2 DEF WellLaidOut
  <2>5. FieldAt(msg, k) = PB_FIELD(Structs[msg], k)
    BY <2>2, FieldOfMember
  <2> QED BY <1>1, <2>3, <2>4, <2>5 DEF Describes, PB_FIELD, PointsToStruct
<1> QED BY <1>3, <1>4
-----------------------------------------------------------------------------
\* What the frames hold besides their streams.

Seen == [Words -> SUBSET (0 .. WordBits - 1)]

\* How many required fields there are before this one.
Index(msg, pos) == Cardinality(RequiredBefore(msg, pos))

\* The bits of fields_seen are those of the required fields that were found.
Marked(msg, seen, found) ==
  FieldCount(msg) > 0 =>
    /\ found \subseteq 1 .. FieldCount(msg)
    /\ \A w \in Words, b \in 0 .. WordBits - 1 :
         b \in seen[w] <=>
           \E pos \in found : IsChecked(msg, pos) /\ Index(msg, pos) = WordBits * w + b

Typed(f) ==
  /\ f.at \in Ats
  /\ f.fields_seen \in Seen /\ Marked(f.msg, f.fields_seen, f.found)
  /\ f.msg \in DOMAIN Structs /\ f.base \in Int /\ Stands(f.msg, f.base, f.it)
  /\ Describes(f.cur.field) /\ f.cur.pData \in Int

TInv ==
  /\ calls \in 0 .. MaxCalls /\ first \in 0 .. calls
  /\ \A k \in DOMAIN stack : Typed(stack[k])

\* Words come before bits.
LEMMA WordsThenBits ==
  ASSUME NEW c \in Nat, NEW w \in Nat, NEW q \in Nat, NEW b \in Nat, NEW r \in Nat,
         b < c, r < c
  PROVE  (c * w + b < c * q + r) <=> (w < q \/ (w = q /\ b < r))
<1>1. ASSUME NEW x \in Nat, NEW y \in Nat, x < y PROVE c * x + c <= c * y
  <2>1. PICK d \in Nat : y = x + 1 + d
    <3>1. y - x - 1 \in Nat /\ y = x + 1 + (y - x - 1)
      BY <1>1
    <3> QED BY <3>1
  <2>2. c * y = c * x + c + c * d
    BY <2>1
  <2>3. c * d \in Nat /\ c * x \in Nat
    OBVIOUS
  <2> QED BY <2>2, <2>3
<1>2. c * w \in Nat /\ c * q \in Nat
  OBVIOUS
<1>3. CASE w < q
  BY <1>1, <1>2, <1>3
<1>4. CASE w = q
  BY <1>2, <1>4
<1>5. CASE w > q
  BY <1>1, <1>2, <1>5
<1> QED BY <1>3, <1>4, <1>5

\* A number is that of one bit of one word.
LEMMA OneBit ==
  ASSUME NEW c \in Nat, NEW w \in Nat, NEW q \in Nat, NEW b \in Nat, NEW r \in Nat,
         b < c, r < c, c * w + b = c * q + r
  PROVE  w = q /\ b = r
<1>1. c * w \in Nat /\ c * q \in Nat
  OBVIOUS
<1>2. ~(w < q \/ (w = q /\ b < r)) /\ ~(q < w \/ (q = w /\ r < b))
  BY <1>1, WordsThenBits
<1> QED BY <1>2

\* The bit of a required field is in a word that exists.
LEMMA WordOf ==
  ASSUME NEW index \in Nat, index < PB_MAX_REQUIRED_FIELDS
  PROVE  /\ index \div WordBits \in Words
         /\ index % WordBits \in 0 .. WordBits - 1
         /\ index = WordBits * (index \div WordBits) + (index % WordBits)
<1> DEFINE word == index \div WordBits
           bit  == index % WordBits
           last == (PB_MAX_REQUIRED_FIELDS - 1) \div WordBits
           rest == (PB_MAX_REQUIRED_FIELDS - 1) % WordBits
<1>1. PB_MAX_REQUIRED_FIELDS \in Nat /\ WordBits \in Nat /\ WordBits > 0
  BY RequiredAssumption
<1>2. PB_MAX_REQUIRED_FIELDS - 1 \in Nat /\ index <= PB_MAX_REQUIRED_FIELDS - 1
  BY <1>1
<1>3. /\ word \in Nat /\ bit \in 0 .. WordBits - 1 /\ index = WordBits * word + bit
      /\ last \in Nat /\ rest \in 0 .. WordBits - 1
      /\ PB_MAX_REQUIRED_FIELDS - 1 = WordBits * last + rest
  BY <1>1, <1>2, DivMod
<1> HIDE DEF word, bit, last, rest
<1>4. ~(WordBits * last + rest < WordBits * word + bit)
  BY <1>1, <1>2, <1>3
<1>5. ~(last < word)
  BY <1>1, <1>3, <1>4, WordsThenBits
<1> QED BY <1>3, <1>5 DEF Words, word, bit, last

LEMMA Marks ==
  ASSUME NEW f, f.fields_seen \in Seen, NEW it, it.required_field_index \in Nat
  PROVE  MarkSeen(f, it) \in Seen
<1> DEFINE index == it.required_field_index
           word  == index \div WordBits
           bit   == index % WordBits
<1>1. CASE index < PB_MAX_REQUIRED_FIELDS
  <2>1. word \in Words /\ bit \in 0 .. WordBits - 1
    BY <1>1, WordOf
  <2> HIDE DEF word, bit
  <2>2. [f.fields_seen EXCEPT ![word] = @ \cup {bit}] \in Seen
    BY <2>1 DEF Seen
  <2> QED BY <2>2 DEF MarkSeen, word, bit
<1>2. CASE ~(index < PB_MAX_REQUIRED_FIELDS)
  BY <1>2 DEF MarkSeen
<1> QED BY <1>1, <1>2

\* The bit of a field that is found is that of no other field.
LEMMA FoundMarked ==
  ASSUME NEW f, f.fields_seen \in Seen, f.msg \in DOMAIN Structs, f.base \in Int,
         Stands(f.msg, f.base, f.it), Marked(f.msg, f.fields_seen, f.found)
  PROVE  Marked(f.msg, MarkSeen(f, f.it), f.found \cup {f.it.pos})
<1> DEFINE pos   == f.it.pos
           index == f.it.required_field_index
           word  == index \div WordBits
           bit   == index % WordBits
           seen  == MarkSeen(f, f.it)
<1> SUFFICES ASSUME FieldCount(f.msg) > 0 PROVE Marked(f.msg, seen, f.found \cup {pos})
  BY DEF Marked
<1>1. pos \in 1 .. FieldCount(f.msg) /\ index = Index(f.msg, pos) /\ index \in Nat
  <2>1. Structs[f.msg] # <<>> /\ DOMAIN Structs[f.msg] = 1 .. FieldCount(f.msg)
    BY LayoutAssumption DEF WellLaidOut, FieldCount
  <2> QED BY <2>1 DEF Stands, IterConsistent, Iterators, Index
<1>2. FieldAt(f.msg, pos).htype = Structs[f.msg][pos].htype
  BY <1>1, FieldOfMember DEF PB_FIELD
<1>3. WordBits \in Nat
  BY RequiredAssumption
<1>4. CASE IsChecked(f.msg, pos)
  <2>1. index < PB_MAX_REQUIRED_FIELDS
    BY <1>1, <1>4 DEF IsChecked, Index
  <2>2. /\ word \in Words /\ bit \in 0 .. WordBits - 1
        /\ index = WordBits * word + bit
    BY <1>1, <2>1, WordOf
  <2>3. seen = [f.fields_seen EXCEPT ![word] = @ \cup {bit}]
    BY <1>2, <1>4, <2>1 DEF MarkSeen, IsChecked
  <2> HIDE DEF seen, word, bit, index, pos
  <2>4. ASSUME NEW w \in Words, NEW b \in 0 .. WordBits - 1
        PROVE  b \in seen[w] <=> b \in f.fields_seen[w] \/ Index(f.msg, pos) = WordBits * w + b
    <3>1. b \in seen[w] <=> b \in f.fields_seen[w] \/ (w = word /\ b = bit)
      BY <2>2, <2>3 DEF Seen
    <3>2. w \in Nat /\ word \in Nat
      BY <2>2 DEF Words
    <3>3. index = WordBits * w + b <=> w = word /\ b = bit
      BY <1>3, <2>2, <3>2, OneBit
    <3> QED BY <1>1, <3>1, <3>3
  <2> QED BY <1>1, <1>4, <2>4 DEF Marked
<1>5. CASE ~IsChecked(f.msg, pos)
  <2>1. seen = f.fields_seen
    BY <1>1, <1>2, <1>5 DEF MarkSeen, IsChecked, Index
  <2> QED BY <1>1, <1>5, <2>1 DEF Marked
<1> QED BY <1>4, <1>5

\* A new frame.
LEMMA NewTyped ==
  ASSUME NEW msg \in DOMAIN Structs, NEW base \in Int, NEW s
  PROVE  Typed(NewFrame(msg, base, s))
<1> DEFINE f  == NewFrame(msg, base, s)
           it == pb_field_iter_begin(msg, base)
<1>1. Stands(msg, base, it)
  BY Begins
<1> HIDE DEF it
<1>2. /\ f.msg = msg /\ f.base = base /\ f.it = it /\ f.at = "loop" /\ f.cur = NoField
      /\ f.fields_seen = [w \in Words |-> {}] /\ f.found = {}
  BY DEF NewFrame, it
<1> HIDE DEF f
<1>3. f.fields_seen \in Seen /\ Marked(msg, f.fields_seen, f.found)
  BY <1>2 DEF Seen, Marked
<1>4. Describes(NoField.field) /\ NoField.pData \in Int
  BY DEF Describes, NoField, PB_LAST_FIELD, PointsToStruct
<1> QED BY <1>1, <1>2, <1>3, <1>4 DEF Typed, Ats, f

\* The innermost frame.
LEMMA TopTyped ==
  ASSUME IInv, TInv, stack # <<>>
  PROVE  Typed(Top) /\ DOMAIN Top = FrameFields
<1>1. IsSeq(stack) BY DEF IInv
<1>2. PICK S : stack \in Seq(S) BY <1>1 DEF IsSeq
<1>3. Len(stack) \in DOMAIN stack BY <1>2
<1> QED BY <1>3 DEF IInv, TInv, Top, IsFrame

\* A frame that differs in nothing but its streams and what it is doing.
LEMMA SameTyped ==
  ASSUME NEW f, Typed(f), NEW g, g.at \in Ats, g.msg = f.msg, g.base = f.base, g.it = f.it,
         g.fields_seen = f.fields_seen, g.found = f.found, g.cur = f.cur
  PROVE  Typed(g)
  BY DEF Typed

\* Such a step of the innermost call.
LEMMA TopStays ==
  ASSUME IInv, TInv, stack # <<>>, NEW g, SetTop(g), Typed(g), UNCHANGED <<calls, first>>
  PROVE  TInv'
<1>1. IsSeq(stack) BY DEF IInv
<1>2. stack' = [stack EXCEPT ![Len(stack)] = g] BY DEF SetTop
<1>3. DOMAIN stack' = DOMAIN stack /\ \A k \in DOMAIN stack' : stack'[k] \in {stack[k], g}
  BY <1>2
<1>4. \A k \in DOMAIN stack' : Typed(stack'[k])
  BY <1>3 DEF TInv
<1> QED BY <1>4 DEF TInv

\* The steps that search nothing and decode nothing.
LEMMA PlainTyped ==
  ASSUME IInv, TInv,
         \/ Round \/ SkipField \/ EndMessage \/ PointerField \/ NotAnExtension \/ PackedEnds
         \/ PackedArray \/ CallbackField
  PROVE  TInv'
<1>1. stack # <<>> /\ UNCHANGED <<calls, first>>
  BY DEF Round, SkipField, EndMessage, PointerField, NotAnExtension, PackedEnds, PackedArray,
         CallbackField, Asking, AtField, At
<1>2. Typed(Top) /\ DOMAIN Top = FrameFields
  BY <1>1, TopTyped
<1> SUFFICES \E g : SetTop(g) /\ Typed(g)
  BY <1>1, TopStays
<1>3. CASE Round
  <2>1. \/ \E s, tag, wire_type, start : \E at \in Ats :
             SetTop([Top EXCEPT !.s = s, !.tag = tag, !.wire_type = wire_type,
                                !.start = start, !.at = at])
        \/ \E at \in Ats : SetTop([Top EXCEPT !.at = at])
    BY <1>3 DEF Round, ReadTag, Ats
  <2>2. ASSUME NEW s, NEW tag, NEW wire_type, NEW start, NEW at \in Ats,
               SetTop([Top EXCEPT !.s = s, !.tag = tag, !.wire_type = wire_type,
                                   !.start = start, !.at = at])
        PROVE  \E g : SetTop(g) /\ Typed(g)
    <3>1. Typed([Top EXCEPT !.s = s, !.tag = tag, !.wire_type = wire_type, !.start = start,
                               !.at = at])
      BY <1>2, SameTyped DEF FrameFields
    <3> QED BY <2>2, <3>1
  <2>3. ASSUME NEW at \in Ats,
               SetTop([Top EXCEPT !.at = at])
        PROVE  \E g : SetTop(g) /\ Typed(g)
    <3>1. Typed([Top EXCEPT !.at = at])
      BY <1>2, SameTyped DEF FrameFields
    <3> QED BY <2>3, <3>1
  <2> QED BY ONLY <2>1, <2>2, <2>3, Zenon
<1>4. CASE SkipField
  <2>1. \E s : \E at \in Ats :
          SetTop([Top EXCEPT !.s = s, !.at = at, !.ext = 0])
    BY <1>4 DEF SkipField, Skipped, After, Ats
  <2>2. ASSUME NEW s, NEW at \in Ats,
               SetTop([Top EXCEPT !.s = s, !.at = at, !.ext = 0])
        PROVE  \E g : SetTop(g) /\ Typed(g)
    <3>1. Typed([Top EXCEPT !.s = s, !.at = at, !.ext = 0])
      BY <1>2, SameTyped DEF FrameFields
    <3> QED BY <2>2, <3>1
  <2> QED BY ONLY <2>1, <2>2, Zenon
<1>5. CASE EndMessage \/ PointerField \/ NotAnExtension
  <2>1. \E at \in Ats : SetTop([Top EXCEPT !.at = at])
    BY <1>5 DEF EndMessage, PointerField, NotAnExtension, Fail, Ats
  <2>2. ASSUME NEW at \in Ats,
               SetTop([Top EXCEPT !.at = at])
        PROVE  \E g : SetTop(g) /\ Typed(g)
    <3>1. Typed([Top EXCEPT !.at = at])
      BY <1>2, SameTyped DEF FrameFields
    <3> QED BY <2>2, <3>1
  <2> QED BY ONLY <2>1, <2>2, Zenon
<1>6. CASE PackedEnds
  <2>1. \/ \E at \in Ats : SetTop([Top EXCEPT !.at = at])
        \/ \E s : \E at \in Ats : SetTop([Top EXCEPT !.s = s, !.at = at, !.ext = 0])
    BY <1>6 DEF PackedEnds, Fail, Ats
  <2>2. ASSUME NEW at \in Ats,
               SetTop([Top EXCEPT !.at = at])
        PROVE  \E g : SetTop(g) /\ Typed(g)
    <3>1. Typed([Top EXCEPT !.at = at])
      BY <1>2, SameTyped DEF FrameFields
    <3> QED BY <2>2, <3>1
  <2>3. ASSUME NEW s, NEW at \in Ats,
               SetTop([Top EXCEPT !.s = s, !.at = at, !.ext = 0])
        PROVE  \E g : SetTop(g) /\ Typed(g)
    <3>1. Typed([Top EXCEPT !.s = s, !.at = at, !.ext = 0])
      BY <1>2, SameTyped DEF FrameFields
    <3> QED BY <2>3, <3>1
  <2> QED BY ONLY <2>1, <2>2, <2>3, Zenon
<1>7. CASE PackedArray
  <2>1. \E s, sub : \E at \in Ats :
          SetTop([Top EXCEPT !.s = s, !.sub = sub, !.at = at])
    BY <1>7 DEF PackedArray, Ats
  <2>2. ASSUME NEW s, NEW sub, NEW at \in Ats,
               SetTop([Top EXCEPT !.s = s, !.sub = sub, !.at = at])
        PROVE  \E g : SetTop(g) /\ Typed(g)
    <3>1. Typed([Top EXCEPT !.s = s, !.sub = sub, !.at = at])
      BY <1>2, SameTyped DEF FrameFields
    <3> QED BY <2>2, <3>1
  <2> QED BY ONLY <2>1, <2>2, Zenon
<1>8. CASE CallbackField
  <2>1. \/ \E at \in Ats : SetTop([Top EXCEPT !.at = at])
        \/ \E s, sub, raw : \E at \in Ats :
             SetTop([Top EXCEPT !.s = s, !.sub = sub, !.raw = raw, !.at = at])
    BY <1>8 DEF CallbackField, ForCallback, Ats
  <2>2. ASSUME NEW at \in Ats,
               SetTop([Top EXCEPT !.at = at])
        PROVE  \E g : SetTop(g) /\ Typed(g)
    <3>1. Typed([Top EXCEPT !.at = at])
      BY <1>2, SameTyped DEF FrameFields
    <3> QED BY <2>2, <3>1
  <2>3. ASSUME NEW s, NEW sub, NEW raw, NEW at \in Ats,
               SetTop([Top EXCEPT !.s = s, !.sub = sub, !.raw = raw, !.at = at])
        PROVE  \E g : SetTop(g) /\ Typed(g)
    <3>1. Typed([Top EXCEPT !.s = s, !.sub = sub, !.raw = raw, !.at = at])
      BY <1>2, SameTyped DEF FrameFields
    <3> QED BY <2>3, <3>1
  <2> QED BY ONLY <2>1, <2>2, <2>3, Zenon
<1> QED BY <1>3, <1>4, <1>5, <1>6, <1>7, <1>8

\* The functions of the application.
LEMMA ForeignTyped ==
  ASSUME IInv, TInv, NEW count, NEW ok, Foreign(count, ok)
  PROVE  TInv'
<1>1. stack # <<>> /\ UNCHANGED <<calls, first>>
  BY DEF Foreign, CallbackReturns, ForeignExtension, Asking, At
<1>2. Typed(Top) /\ DOMAIN Top = FrameFields
  BY <1>1, TopTyped
<1> SUFFICES \E g : SetTop(g) /\ Typed(g)
  BY <1>1, TopStays
<1>3. CASE CallbackReturns(count, ok)
  <2>1. \/ \E sub : \E at \in Ats :
             SetTop([Top EXCEPT !.sub = sub, !.at = at, !.ext = 0])
        \/ \E sub : SetTop([Top EXCEPT !.sub = sub])
        \/ \E s, sub : \E at \in Ats :
             SetTop([Top EXCEPT !.s = s, !.sub = sub, !.at = at, !.ext = 0])
    BY <1>3 DEF CallbackReturns, After, Ats
  <2>2. ASSUME NEW sub, NEW at \in Ats,
               SetTop([Top EXCEPT !.sub = sub, !.at = at, !.ext = 0])
        PROVE  \E g : SetTop(g) /\ Typed(g)
    <3>1. Typed([Top EXCEPT !.sub = sub, !.at = at, !.ext = 0])
      BY <1>2, SameTyped DEF FrameFields
    <3> QED BY <2>2, <3>1
  <2>3. ASSUME NEW sub,
               SetTop([Top EXCEPT !.sub = sub])
        PROVE  \E g : SetTop(g) /\ Typed(g)
    <3>1. Typed([Top EXCEPT !.sub = sub])
      BY <1>2, SameTyped DEF FrameFields, Typed
    <3> QED BY <2>3, <3>1
  <2>4. ASSUME NEW s, NEW sub, NEW at \in Ats,
               SetTop([Top EXCEPT !.s = s, !.sub = sub, !.at = at, !.ext = 0])
        PROVE  \E g : SetTop(g) /\ Typed(g)
    <3>1. Typed([Top EXCEPT !.s = s, !.sub = sub, !.at = at, !.ext = 0])
      BY <1>2, SameTyped DEF FrameFields
    <3> QED BY <2>4, <3>1
  <2> QED BY ONLY <2>1, <2>2, <2>3, <2>4, Zenon
<1>4. CASE ForeignExtension(count, ok)
  <2>1. \E s, ext : \E at \in Ats :
          SetTop([Top EXCEPT !.s = s, !.ext = ext, !.at = at])
    BY <1>4 DEF ForeignExtension, After, Asking, At, Ats
  <2>2. ASSUME NEW s, NEW ext, NEW at \in Ats,
               SetTop([Top EXCEPT !.s = s, !.ext = ext, !.at = at])
        PROVE  \E g : SetTop(g) /\ Typed(g)
    <3>1. Typed([Top EXCEPT !.s = s, !.ext = ext, !.at = at])
      BY <1>2, SameTyped DEF FrameFields
    <3> QED BY <2>2, <3>1
  <2> QED BY ONLY <2>1, <2>2, Zenon
<1> QED BY <1>3, <1>4 DEF Foreign

\* A frame whose iterator has moved on.
LEMMA MovedTyped ==
  ASSUME NEW f, Typed(f), DOMAIN f = FrameFields, NEW at \in Ats, NEW start
  PROVE  LET next == pb_field_iter_next(f.msg, f.base, f.it) IN
           /\ Typed([[f EXCEPT !.at = at] EXCEPT !.it = next])
           /\ Typed([f EXCEPT !.it = next])
           /\ Typed([[f EXCEPT !.extension_range_start = start, !.at = at] EXCEPT !.it = next])
<1> DEFINE next == pb_field_iter_next(f.msg, f.base, f.it)
<1>1. Stands(f.msg, f.base, next)
  BY FindsNext DEF Typed
<1> HIDE DEF next
<1> QED BY <1>1 DEF Typed, FrameFields, next

\* pb_field_iter_find() stops at a member of the message.
LEMMA FindTyped ==
  ASSUME IInv, TInv, Find PROVE TInv'
<1>1. stack # <<>> /\ UNCHANGED <<calls, first>>
  BY DEF Find, At
<1>2. Typed(Top) /\ DOMAIN Top = FrameFields
  BY <1>1, TopTyped
<1> SUFFICES \E g : SetTop(g) /\ Typed(g)
  BY <1>1, TopStays
<1> DEFINE field == FieldAt(Top.msg, Top.it.pos)
           next  == pb_field_iter_next(Top.msg, Top.base, Top.it)
           seen  == MarkSeen(Top, Top.it)
           found == Top.found \cup {Top.it.pos}
<1>3. CASE HasTag(field, Top.tag)
  <2>1. Describes(field) /\ Top.it.pData \in Int /\ Top.it.required_field_index \in Nat
    BY <1>2, FieldDescribes DEF Typed
  <2>2. seen \in Seen /\ Marked(Top.msg, seen, found)
    BY <1>2, <2>1, Marks, FoundMarked DEF Typed
  <2>3. KnownField(Top)
    BY <1>3 DEF Find
  <2> HIDE DEF field, seen, found
  <2>4. CASE SetTop([Top EXCEPT !.at = "failed"])
    <3>1. Typed([Top EXCEPT !.at = "failed"])
      BY <1>2, SameTyped DEF FrameFields, Ats
    <3> QED BY <2>4, <3>1
  <2>5. CASE ~SetTop([Top EXCEPT !.at = "failed"])
    <3>1. PICK a, b, size :
            SetTop([Top EXCEPT !.fixed_count_field = a, !.fixed_count_size = b,
                               !.fields_seen = seen, !.found = found, !.at = "field",
                               !.cur = [field |-> field, pData |-> Top.it.pData, pSize |-> size]])
      BY <2>3, <2>5, Zenon DEF KnownField, Fail, field, seen, found
    <3>2. Typed([Top EXCEPT !.fixed_count_field = a, !.fixed_count_size = b,
                               !.fields_seen = seen, !.found = found, !.at = "field",
                               !.cur = [field |-> field, pData |-> Top.it.pData, pSize |-> size]])
      BY <1>2, <2>1, <2>2 DEF Typed, FrameFields, Ats
    <3> QED BY <3>1, <3>2
  <2> QED BY <2>4, <2>5
<1>4. CASE ~HasTag(field, Top.tag)
  <2>1. \/ SetTop([Top EXCEPT !.it = next])
        \/ \E at \in Ats : SetTop([[Top EXCEPT !.at = at] EXCEPT !.it = next])
    BY <1>4 DEF Find, Step, Ats
  <2>2. /\ Typed([Top EXCEPT !.it = next])
        /\ \A at \in Ats : Typed([[Top EXCEPT !.at = at] EXCEPT !.it = next])
    BY <1>2, MovedTyped DEF Ats
  <2> QED BY ONLY <2>1, <2>2, Zenon
<1> QED BY <1>3, <1>4

\* find_extension_field() and the counting of the required fields move on like it.
LEMMA FindExtensionTyped ==
  ASSUME IInv, TInv, FindExtension PROVE TInv'
<1>1. stack # <<>> /\ UNCHANGED <<calls, first>>
  BY DEF FindExtension, At
<1>2. Typed(Top) /\ DOMAIN Top = FrameFields
  BY <1>1, TopTyped
<1> SUFFICES \E g : SetTop(g) /\ Typed(g)
  BY <1>1, TopStays
<1> DEFINE field == FieldAt(Top.msg, Top.it.pos)
           next  == pb_field_iter_next(Top.msg, Top.base, Top.it)
<1>3. \/ \E at \in {"extension", "skip"} :
             SetTop([Top EXCEPT !.extension_range_start = field.tag, !.ext = 1, !.at = at])
      \/ SetTop([Top EXCEPT !.it = next])
      \/ SetTop([[Top EXCEPT !.extension_range_start = NoExtensions, !.at = "skip"]
                   EXCEPT !.it = next])
  BY DEF FindExtension, Step
<1>4. /\ Typed([Top EXCEPT !.it = next])
      /\ Typed([[Top EXCEPT !.extension_range_start = NoExtensions, !.at = "skip"]
                  EXCEPT !.it = next])
  BY <1>2, MovedTyped DEF Ats
<1> HIDE DEF field
<1>5. ASSUME NEW at \in {"extension", "skip"}
      PROVE  Typed([Top EXCEPT !.extension_range_start = field.tag, !.ext = 1, !.at = at])
  <2> DEFINE g == [Top EXCEPT !.extension_range_start = field.tag, !.ext = 1, !.at = at]
  <2>1. /\ g.at \in Ats /\ g.msg = Top.msg /\ g.base = Top.base /\ g.it = Top.it
        /\ g.fields_seen = Top.fields_seen /\ g.found = Top.found /\ g.cur = Top.cur
    BY <1>2 DEF FrameFields, Ats
  <2> HIDE DEF g
  <2>2. Typed(g)
    BY <1>2, <2>1, SameTyped
  <2> QED BY <2>2 DEF g
<1> QED BY ONLY <1>3, <1>4, <1>5, Zenon

LEMMA CountRequiredTyped ==
  ASSUME IInv, TInv, CountRequired PROVE TInv'
<1>1. stack # <<>> /\ UNCHANGED <<calls, first>>
  BY DEF CountRequired, At
<1>2. Typed(Top) /\ DOMAIN Top = FrameFields
  BY <1>1, TopTyped
<1> SUFFICES \E g : SetTop(g) /\ Typed(g)
  BY <1>1, TopStays
<1> DEFINE next == pb_field_iter_next(Top.msg, Top.base, Top.it)
<1>3. \/ SetTop([Top EXCEPT !.it = next])
      \/ \E at \in {"done", "failed"} : SetTop([Top EXCEPT !.at = at])
  BY DEF CountRequired
<1>4. Typed([Top EXCEPT !.it = next])
  BY <1>2, MovedTyped DEF Ats
<1>5. \A at \in {"done", "failed"} : Typed([Top EXCEPT !.at = at])
  BY <1>2, SameTyped DEF FrameFields, Ats
<1> QED BY ONLY <1>3, <1>4, <1>5, Zenon

\* The field of an extension takes the place of one of the message.
LEMMA DefaultExtensionTyped ==
  ASSUME IInv, TInv, DefaultExtension PROVE TInv'
<1>1. stack # <<>> /\ UNCHANGED <<calls, first>>
  BY DEF DefaultExtension, Asking, At
<1>2. Typed(Top) /\ DOMAIN Top = FrameFields
  BY <1>1, TopTyped
<1> SUFFICES \E g : SetTop(g) /\ Typed(g)
  BY <1>1, TopStays
<1> DEFINE e   == Chain[Top.ext]
           cur == [field |-> e.field, pData |-> e.dest, pSize |-> e.found]
<1>3. e \in Extension
  <2>1. Extensions[Top.msg] \in Seq(Extension)
    BY <1>2, ExtensionsAssumption DEF Typed
  <2>2. Top.ext \in DOMAIN Chain
    BY DEF DefaultExtension
  <2>3. Chain = <<>> \/ Chain = Extensions[Top.msg]
    BY DEF Chain, Linked
  <2>4. Chain # <<>>
    BY <2>2
  <2> QED BY <2>1, <2>2, <2>3, <2>4
<1>4. Describes(e.field) /\ e.dest \in Int
  BY <1>3 DEF Extension, IsExtensionField, Describes, pb_field_t
<1>5. SetTop([Top EXCEPT !.ext = @ + 1]) \/ SetTop([Top EXCEPT !.at = "field", !.cur = cur])
  BY DEF DefaultExtension, ExtensionIter
<1> HIDE DEF e
<1>6. Typed([Top EXCEPT !.ext = @ + 1])
  BY <1>2, SameTyped DEF FrameFields, Typed
<1>7. Typed([Top EXCEPT !.at = "field", !.cur = cur])
  BY <1>2, <1>4 DEF FrameFields, Typed, Ats
<1> QED BY ONLY <1>5, <1>6, <1>7, Zenon

\* The innermost frame with another count of a fixed count field.
LEMMA CountedTyped ==
  ASSUME IInv, TInv, stack # <<>>, NEW n
  PROVE  Typed(Counted(Top, n)) /\ Counted(Top, n).cur = Top.cur
<1>1. Typed(Top) /\ DOMAIN Top = FrameFields
  BY TopTyped
<1>2. /\ Typed([Top EXCEPT !.fixed_count_size = n])
      /\ [Top EXCEPT !.fixed_count_size = n].cur = Top.cur
  BY <1>1, SameTyped DEF FrameFields, Typed
<1> QED BY <1>1, <1>2 DEF Counted

\* A value, or a submessage, at an address.
LEMMA DecodeTyped ==
  ASSUME IInv, TInv, stack # <<>>, NEW f, SameAs(f), Typed(f), NEW addr \in Int, NEW writes,
         Decode(f, addr, writes), UNCHANGED <<calls, first>>
  PROVE  TInv'
<1>1. DOMAIN f = FrameFields
  BY DEF SameAs
<1>2. ASSUME f.cur.field.ltype = "SUBMESSAGE", OpenSubmessage(f, addr, writes)
      PROVE  TInv'
  <2> DEFINE open == pb_make_string_substream(input.buffer, f.s)
             g == [f EXCEPT !.s = open.stream]
             h == NewFrame(f.cur.field.ptr, addr, open.substream)
             t == [stack EXCEPT ![Len(stack)] = g]
  <2>1. \/ SetTop([g EXCEPT !.at = "failed"])
        \/ f.cur.field.ptr # NULL /\ stack' = Append(t, h)
    BY <1>2 DEF OpenSubmessage, Fail
  <2> HIDE DEF open
  <2>2. Typed(g) /\ DOMAIN g = FrameFields
    BY <1>1, SameTyped DEF FrameFields, Typed
  <2>3. CASE SetTop([g EXCEPT !.at = "failed"])
    <3> HIDE DEF g
    <3>1. Typed([g EXCEPT !.at = "failed"])
      BY <2>2, SameTyped DEF FrameFields, Ats
    <3> QED BY <2>3, <3>1, TopStays
  <2>4. CASE f.cur.field.ptr # NULL /\ stack' = Append(t, h)
    <3>1. f.cur.field.ptr \in DOMAIN Structs
      BY <1>2, <2>4 DEF Typed, Describes, PointsToStruct
    <3>2. Typed(h)
      BY <3>1, NewTyped
    <3> HIDE DEF g, h
    <3>3. IsSeq(stack) BY DEF IInv
    <3>4. IsSeq(t)
      <4>1. stack # <<>> OBVIOUS
      <4> QED BY ONLY <3>3, <4>1, Replaced, Zenon DEF t
    <3>5. DOMAIN t = DOMAIN stack /\ \A k \in DOMAIN t : t[k] \in {stack[k], g}
      OBVIOUS
    <3>6. \A k \in DOMAIN t : Typed(t[k])
      BY <2>2, <3>5 DEF TInv
    <3> HIDE DEF t
    <3>7. LET u == Append(t, h) IN
            /\ IsSeq(u)
            /\ Len(u) = Len(t) + 1 /\ Len(t) \in Nat
            /\ \A k \in 1 .. Len(t) : u[k] = t[k]
            /\ u[Len(t) + 1] = h
            /\ DOMAIN t = 1 .. Len(t) /\ DOMAIN u = 1 .. Len(t) + 1
      BY ONLY <3>4, Pushed, Zenon
    <3>8. \A k \in DOMAIN stack' : Typed(stack'[k])
      <4> TAKE k \in DOMAIN stack'
      <4> DEFINE n == Len(t)
                 u == Append(t, h)
      <4>1. /\ \A j \in 1 .. n : u[j] = t[j]
            /\ u[n + 1] = h
            /\ DOMAIN t = 1 .. n /\ DOMAIN u = 1 .. n + 1 /\ n \in Nat
            /\ stack' = u
        BY ONLY <2>4, <3>7, Zenon DEF n, u
      <4> HIDE DEF n, u
      <4>2. k \in 1 .. n \/ k = n + 1
        BY <4>1
      <4> QED BY <3>2, <3>6, <4>1, <4>2
    <3> QED BY <3>8 DEF TInv
  <2> QED BY <2>1, <2>3, <2>4
<1>3. ASSUME DecodeTo(f, addr, writes)
      PROVE  TInv'
  <2>1. PICK value : SetTop([f EXCEPT !.s = value.stream, !.at = After(value.ok), !.ext = 0])
    BY <1>3 DEF DecodeTo
  <2>2. After(value.ok) \in Ats
    BY DEF After, Ats
  <2>3. Typed([f EXCEPT !.s = value.stream, !.at = After(value.ok), !.ext = 0])
    BY <1>1, <2>2, SameTyped DEF FrameFields
  <2> QED BY <2>1, <2>3, TopStays
<1> QED BY <1>2, <1>3 DEF Decode

LEMMA SingularFieldTyped ==
  ASSUME IInv, TInv, SingularField PROVE TInv'
<1>1. stack # <<>> /\ UNCHANGED <<calls, first>>
  BY DEF SingularField, AtField, At
<1>2. Typed(Top) /\ Top.cur.pData \in Int
  BY <1>1, TopTyped DEF Typed
<1>3. SameAs(Top)
  BY <1>1, CountedSame
<1>4. PICK writes : Decode(Top, Top.cur.pData, writes)
  BY DEF SingularField
<1> QED BY <1>1, <1>2, <1>3, <1>4, DecodeTyped

\* The entry of an array that is not full.
LEMMA EntryInt ==
  ASSUME IInv, TInv, stack # <<>>, ~ArrayFull(Top)
  PROVE  EntryAddress(Top) \in Int
<1>1. Top.cur.pData \in Int /\ Top.cur.field.data_size \in Nat /\ Top.cur.field.array_size \in Nat
  BY TopTyped DEF Typed, Describes
<1>2. ArrayCount(Top) \in Nat
  BY <1>1 DEF ArrayFull
<1> QED BY <1>1, <1>2 DEF EntryAddress

LEMMA RepeatedEntryTyped ==
  ASSUME IInv, TInv, RepeatedEntry PROVE TInv'
<1>1. stack # <<>> /\ UNCHANGED <<calls, first>>
  BY DEF RepeatedEntry, AtField, At
<1> DEFINE n == ArrayCount(Top) + 1
           g == Counted(Top, n)
<1>2. Typed(g) /\ SameAs(g)
  BY <1>1, CountedSame, CountedTyped
<1>3. \/ SetTop([g EXCEPT !.at = "failed"])
      \/ ~ArrayFull(Top) /\ Decode(g, EntryAddress(Top), CountWrite(Top, n))
  BY DEF RepeatedEntry, Fail
<1> HIDE DEF g, n
<1>4. CASE SetTop([g EXCEPT !.at = "failed"])
  <2>1. Typed([g EXCEPT !.at = "failed"])
    BY <1>2, SameTyped DEF FrameFields, Ats, SameAs
  <2> QED BY <1>1, <1>4, <2>1, TopStays
<1>5. CASE ~ArrayFull(Top) /\ Decode(g, EntryAddress(Top), CountWrite(Top, n))
  <2>1. EntryAddress(Top) \in Int
    BY <1>1, <1>5, EntryInt
  <2> QED BY <1>1, <1>2, <1>5, <2>1, DecodeTyped
<1> QED BY <1>3, <1>4, <1>5

LEMMA PackedEntryTyped ==
  ASSUME IInv, TInv, PackedEntry PROVE TInv'
<1>1. stack # <<>> /\ UNCHANGED <<calls, first>>
  BY DEF PackedEntry, At
<1> DEFINE g == Counted(Top, ArrayCount(Top) + 1)
<1>2. Typed(Top) /\ DOMAIN Top = FrameFields /\ Typed(g) /\ SameAs(g)
  BY <1>1, TopTyped, CountedSame, CountedTyped
<1>3. PICK s, t : \/ SetTop([g EXCEPT !.sub = s])
                  \/ SetTop([[Top EXCEPT !.sub = s, !.s = t] EXCEPT !.at = "failed"])
  BY DEF PackedEntry, Fail
<1> HIDE DEF g
<1>4. Typed([g EXCEPT !.sub = s])
  BY <1>2, SameTyped DEF FrameFields, SameAs, Typed
<1>5. Typed([[Top EXCEPT !.sub = s, !.s = t] EXCEPT !.at = "failed"])
  <2> DEFINE f == [Top EXCEPT !.sub = s, !.s = t]
  <2>1. Typed(f) /\ DOMAIN f = FrameFields
    BY <1>2, SameTyped DEF FrameFields, Typed
  <2> HIDE DEF f
  <2>2. Typed([f EXCEPT !.at = "failed"])
    BY <2>1, SameTyped DEF FrameFields, Ats
  <2> QED BY <2>2 DEF f
<1> QED BY <1>1, <1>3, <1>4, <1>5, TopStays

\* The frame below goes on with another stream.
LEMMA ReturnTyped ==
  ASSUME IInv, TInv, Return PROVE TInv'
<1>1. stack # <<>> /\ UNCHANGED <<calls, first>>
  BY DEF Return
<1>2. CASE stack' = <<>>
  BY <1>1, <1>2 DEF TInv
<1>3. CASE Len(stack) > 1 /\ stack' # <<>>
  <2> DEFINE below == stack[Len(stack) - 1]
             ok    == Top.at = "done"
             s     == pb_close_string_substream(below.s, Top.s)
             g     == [below EXCEPT !.s = s, !.at = After(ok), !.ext = 0]
  <2>1. stack' = Append(SubSeq(stack, 1, Len(stack) - 2), g)
    BY <1>3 DEF Return
  <2>2. IsSeq(stack) BY DEF IInv
  <2>3. LET t == Append(SubSeq(stack, 1, Len(stack) - 2), g)
            m == Len(stack) - 1
        IN  /\ IsSeq(t)
            /\ Len(t) = m /\ m \in Nat \ {0} /\ Len(stack) = m + 1
            /\ \A k \in 1 .. m - 1 : t[k] = stack[k]
            /\ t[m] = g
            /\ DOMAIN stack = 1 .. m + 1 /\ DOMAIN t = 1 .. m
    <3> HIDE DEF g
    <3> QED BY ONLY <1>3, <2>2, Popped, Zenon
  <2> DEFINE m == Len(stack) - 1
  <2>4. /\ m \in Nat \ {0}
        /\ \A k \in 1 .. m - 1 : stack'[k] = stack[k]
        /\ stack'[m] = g
        /\ DOMAIN stack = 1 .. m + 1 /\ DOMAIN stack' = 1 .. m
    <3> HIDE DEF g
    <3> QED BY ONLY <2>1, <2>3, Zenon DEF m
  <2>5. below = stack[m]
    OBVIOUS
  <2> HIDE DEF m, below, s
  <2>6. Typed(below) /\ DOMAIN below = FrameFields
    BY <2>4, <2>5 DEF TInv, IInv, IsFrame
  <2>7. After(ok) \in Ats
    BY DEF After, Ats
  <2> HIDE DEF ok
  <2>8. Typed(g)
    BY <2>6, <2>7, SameTyped DEF FrameFields
  <2> HIDE DEF g
  <2>9. \A k \in DOMAIN stack' : Typed(stack'[k])
    <3> TAKE k \in DOMAIN stack'
    <3>1. k = m \/ (k \in 1 .. m - 1 /\ k \in DOMAIN stack)
      BY <2>4
    <3> QED BY <2>4, <2>8, <3>1 DEF TInv
  <2> QED BY <1>1, <2>9 DEF TInv
<1> QED BY <1>2, <1>3 DEF Return

\* The first frame is that of the caller's message.
LEMMA CallTyped ==
  ASSUME IInv, TInv, NEW init \in BOOLEAN, Call(init) PROVE TInv'
<1>1. calls' \in 0 .. MaxCalls /\ first' \in 0 .. calls'
  <2>1. calls < MaxCalls /\ calls' = calls + 1 /\ first' \in {calls + 1, first}
    BY DEF Call
  <2> QED BY <2>1, CallsAssumption DEF TInv
<1>2. stack' = <<>> \/ \E s : stack' = <<NewFrame(input.msg, 0, s)>>
  BY DEF Call
<1>3. input.msg \in DOMAIN Structs
  BY InputsAssumption DEF IInv
<1>4. \A s : Typed(NewFrame(input.msg, 0, s))
  BY <1>3, NewTyped
<1>5. \A f : DOMAIN <<f>> = {1} /\ <<f>>[1] = f
  OBVIOUS
<1>6. \A k \in DOMAIN stack' : Typed(stack'[k])
  BY <1>2, <1>4, <1>5
<1> QED BY <1>1, <1>6 DEF TInv

LEMMA StepTInv ==
  IInv /\ TInv /\ [Next]_vars => TInv'
<1> SUFFICES ASSUME IInv, TInv, [Next]_vars PROVE TInv'
  OBVIOUS
<1>1. CASE UNCHANGED vars
  BY <1>1 DEF vars, TInv
<1>2. ASSUME NEW init \in BOOLEAN, Call(init) PROVE TInv'
  BY <1>2, CallTyped
<1>3. CASE Decoder
  BY <1>3, PlainTyped, FindTyped, FindExtensionTyped, CountRequiredTyped, ReturnTyped,
     SingularFieldTyped, RepeatedEntryTyped, PackedEntryTyped, DefaultExtensionTyped
     DEF Decoder, Fields
<1>4. ASSUME NEW count \in 0 .. Len(input.buffer), NEW ok \in BOOLEAN, Foreign(count, ok)
      PROVE  TInv'
  BY <1>4, ForeignTyped
<1> QED BY <1>1, <1>2, <1>3, <1>4 DEF Next

LEMMA TInvTypes ==
  IInv /\ TInv => TypeOK
BY DEF IInv, IsFrame, TInv, Typed, Seen, Stands, TypeOK

LEMMA InitTInv ==
  Init => TInv
BY CallsAssumption DEF Init, TInv

\* Whatever comes over the line, every call in progress has an iterator that stands for
\* the member where the compiler put it, bits that are in the words of fields_seen, and
\* a stream that counts no negative number of bytes.
THEOREM DecoderTypeOK ==
  Spec => []TypeOK
<1>1. Spec => []TInv
  BY DecoderInvariance, InitTInv, StepTInv, PTL DEF Spec
<1> QED BY <1>1, DecoderInvariance, TInvTypes, PTL

-----------------------------------------------------------------------------
\* Writes, one after the other.

\* f is computed step by step.
Stepwise(f, n, V, start, step) ==
  /\ f \in [1 .. n -> V]
  /\ \A k \in 1 .. n : f[k] = IF k = 1 THEN start ELSE step[<<k, f[k - 1]>>]

\* Such a function exists.
LEMMA StepwiseFunction ==
  ASSUME NEW n \in Nat, NEW V, NEW start \in V, NEW step \in [(1 .. n) \X V -> V]
  PROVE  \E f : Stepwise(f, n, V, start, step)
<1> DEFINE Computes(f, m) ==
             /\ f \in [1 .. m -> V]
             /\ \A k \in 1 .. m : f[k] = IF k = 1 THEN start ELSE step[<<k, f[k - 1]>>]
           S == { m \in Nat : m <= n => \E f : Computes(f, m) }
<1>1. 0 \in S
  <2>1. Computes([k \in 1 .. 0 |-> start], 0)
    OBVIOUS
  <2> QED BY <2>1
<1>2. ASSUME NEW m \in Nat, m \in S PROVE m + 1 \in S
  <2> SUFFICES ASSUME m + 1 <= n PROVE \E f : Computes(f, m + 1)
    OBVIOUS
  <2>1. PICK f : Computes(f, m)
    BY <1>2
  <2> DEFINE g == [k \in 1 .. m + 1 |->
                     IF k \in 1 .. m THEN f[k] ELSE IF m = 0 THEN start ELSE step[<<m + 1, f[m]>>]]
  <2>2. m + 1 \in 1 .. m + 1 /\ m + 1 \notin 1 .. m
    OBVIOUS
  <2>3. g[m + 1] = IF m = 0 THEN start ELSE step[<<m + 1, f[m]>>]
    BY <2>2
  <2>4. \A k \in 1 .. m : g[k] = f[k]
    OBVIOUS
  <2>5. g[m + 1] \in V
    <3>1. m # 0 => f[m] \in V
      BY <2>1
    <3>2. m + 1 \in 1 .. n
      OBVIOUS
    <3> QED BY <2>3, <3>1, <3>2
  <2>6. g \in [1 .. m + 1 -> V]
    <3>1. \A k \in 1 .. m + 1 : g[k] \in V
      <4> TAKE k \in 1 .. m + 1
      <4>1. k \in 1 .. m \/ k = m + 1
        OBVIOUS
      <4> QED BY <2>1, <2>4, <2>5, <4>1
    <3> QED BY <3>1
  <2>7. ASSUME NEW k \in 1 .. m + 1
        PROVE  g[k] = IF k = 1 THEN start ELSE step[<<k, g[k - 1]>>]
    <3>1. CASE k \in 1 .. m
      <4>1. k # 1 => k - 1 \in 1 .. m
        BY <3>1
      <4>2. f[k] = IF k = 1 THEN start ELSE step[<<k, f[k - 1]>>]
        BY <2>1, <3>1
      <4> QED BY <2>4, <3>1, <4>1, <4>2
    <3>2. CASE k = m + 1
      <4>1. m # 0 => m \in 1 .. m
        OBVIOUS
      <4>2. (m + 1) - 1 = m /\ (m + 1 = 1 <=> m = 0)
        OBVIOUS
      <4> QED BY <2>3, <2>4, <3>2, <4>1, <4>2
    <3>3. k \in 1 .. m \/ k = m + 1
      OBVIOUS
    <3> QED BY <3>1, <3>2, <3>3
  <2> QED BY <2>6, <2>7
<1> HIDE DEF S
<1>3. n \in S
  BY <1>1, <1>2, SetInduction
<1>4. PICK f : Computes(f, n)
  BY <1>3 DEF S
<1> QED BY <1>4 DEF Stepwise

\* A sequence of writes to these addresses.
OnlyTo(w, T) == IsSeq(w) /\ \A k \in DOMAIN w : w[k].addr \in T

LEMMA NoWrite ==
  ASSUME NEW T PROVE OnlyTo(<<>>, T)
<1>1. <<>> \in Seq({}) /\ DOMAIN <<>> = {}
  OBVIOUS
<1> QED BY <1>1 DEF OnlyTo, IsSeq

LEMMA OneWrite ==
  ASSUME NEW T, NEW addr \in T, NEW value PROVE OnlyTo(<<Write(addr, value)>>, T)
<1> DEFINE w == Write(addr, value)
<1>1. w.addr = addr
  BY DEF Write
<1> HIDE DEF w
<1>2. <<w>> \in Seq({w}) /\ DOMAIN <<w>> = {1} /\ <<w>>[1] = w
  OBVIOUS
<1>3. OnlyTo(<<w>>, T)
  BY <1>1, <1>2 DEF OnlyTo, IsSeq
<1> QED BY <1>3 DEF w

LEMMA BothWrite ==
  ASSUME NEW T, NEW u, OnlyTo(u, T), NEW w, OnlyTo(w, T)
  PROVE  OnlyTo(u \o w, T)
<1>1. PICK A : u \in Seq(A)
  BY DEF OnlyTo, IsSeq
<1>2. PICK B : w \in Seq(B)
  BY DEF OnlyTo, IsSeq
<1>3. u \in Seq(A \cup B) /\ w \in Seq(A \cup B)
  BY <1>1, <1>2
<1>4. /\ u \o w \in Seq(A \cup B)
      /\ Len(u \o w) = Len(u) + Len(w)
      /\ \A k \in 1 .. Len(u) + Len(w) : (u \o w)[k] = IF k <= Len(u) THEN u[k] ELSE w[k - Len(u)]
  BY <1>3, ConcatProperties
<1>5. /\ Len(u) \in Nat /\ Len(w) \in Nat /\ DOMAIN u = 1 .. Len(u) /\ DOMAIN w = 1 .. Len(w)
      /\ DOMAIN (u \o w) = 1 .. Len(u \o w)
  BY <1>1, <1>2, <1>4
<1>6. ASSUME NEW k \in DOMAIN (u \o w) PROVE (u \o w)[k].addr \in T
  <2>1. k \in 1 .. Len(u) + Len(w)
    BY <1>4, <1>5
  <2>2. CASE k <= Len(u)
    BY <1>4, <1>5, <2>1, <2>2 DEF OnlyTo
  <2>3. CASE ~(k <= Len(u))
    <3>1. k - Len(u) \in DOMAIN w
      BY <1>5, <2>1, <2>3
    <3> QED BY <1>4, <2>1, <2>3, <3>1 DEF OnlyTo
  <2> QED BY <2>2, <2>3
<1>7. IsSeq(u \o w)
  BY <1>4 DEF IsSeq
<1> QED BY <1>6, <1>7 DEF OnlyTo

LEMMA MoreAddresses ==
  ASSUME NEW S, NEW T, S \subseteq T, NEW w, OnlyTo(w, S) PROVE OnlyTo(w, T)
  BY DEF OnlyTo

\* size writes one after the other.
LEMMA RowOfWrites ==
  ASSUME NEW T, NEW addr \in Int, NEW size \in Nat, addr .. addr + size - 1 \subseteq T,
         NEW w, DOMAIN w = 1 .. size, w = [k \in 1 .. size |-> w[k]],
         \A k \in 1 .. size : w[k].addr = addr + k - 1
  PROVE  OnlyTo(w, T)
<1>1. w \in Seq({ w[k] : k \in 1 .. size })
  OBVIOUS
<1>2. \A k \in 1 .. size : addr + k - 1 \in addr .. addr + size - 1
  OBVIOUS
<1> QED BY <1>1, <1>2 DEF OnlyTo, IsSeq

LEMMA ZerosWrite ==
  ASSUME NEW T, NEW addr \in Int, NEW size \in Nat, addr .. addr + size - 1 \subseteq T
  PROVE  OnlyTo(Zeros(addr, size), T)
<1>1. /\ DOMAIN Zeros(addr, size) = 1 .. size
      /\ Zeros(addr, size) = [k \in 1 .. size |-> Zeros(addr, size)[k]]
      /\ \A k \in 1 .. size : Zeros(addr, size)[k].addr = addr + k - 1
  BY DEF Zeros, Write
<1> QED BY <1>1, RowOfWrites

LEMMA CopyWrites ==
  ASSUME NEW T, NEW s, NEW addr \in Int, NEW size \in Nat, addr .. addr + size - 1 \subseteq T
  PROVE  OnlyTo(Copy(s, addr, size), T)
<1>1. /\ DOMAIN Copy(s, addr, size) = 1 .. size
      /\ Copy(s, addr, size) = [k \in 1 .. size |-> Copy(s, addr, size)[k]]
      /\ \A k \in 1 .. size : Copy(s, addr, size)[k].addr = addr + k - 1
  BY DEF Copy, Write
<1> QED BY <1>1, RowOfWrites

\* The writes of several sequences, one after the other.
LEMMA AllWrite ==
  ASSUME NEW T, NEW n \in Nat, NEW s, DOMAIN s = 1 .. n, s = [k \in 1 .. n |-> s[k]],
         \A k \in 1 .. n : OnlyTo(s[k], T)
  PROVE  OnlyTo(FlattenSeq(s), T)
<1> DEFINE A    == { s[k] : k \in 1 .. n }
           U    == UNION { { w[j] : j \in DOMAIN w } : w \in A }
           V    == Seq(U)
           step == [p \in (1 .. n) \X V |-> p[2] \o s[p[1]]]
           flatten == CHOOSE f : f = [k \in 1 .. n |-> IF k = 1 THEN s[k] ELSE f[k - 1] \o s[k]]
<1>1. s \in Seq(A) /\ Len(s) = n
  OBVIOUS
<1>2. CASE n = 0
  <2>1. FlattenSeq(s) = <<>>
    BY <1>1, <1>2, EmptySeq DEF FlattenSeq
  <2> QED BY <2>1, NoWrite
<1>3. CASE n # 0
  <2>1. ASSUME NEW k \in 1 .. n PROVE s[k] \in V
    <3>1. PICK B : s[k] \in Seq(B)
      BY DEF OnlyTo, IsSeq
    <3>2. \A j \in DOMAIN s[k] : s[k][j] \in U
      OBVIOUS
    <3> HIDE DEF U
    <3> QED BY <3>1, <3>2
  <2>2. 1 \in 1 .. n
    BY <1>3
  <2>3. step \in [(1 .. n) \X V -> V]
    <3> HIDE DEF U
    <3>1. \A u, w \in V : u \o w \in V
      BY ConcatProperties
    <3> HIDE DEF V
    <3> QED BY <2>1, <3>1
  <2>4. PICK f : Stepwise(f, n, V, s[1], step)
    <3>1. s[1] \in V BY <2>1, <2>2
    <3> HIDE DEF V, step
    <3> QED BY <2>3, <3>1, StepwiseFunction
  <2>5. ASSUME NEW k \in 1 .. n
        PROVE  f[k] = IF k = 1 THEN s[k] ELSE f[k - 1] \o s[k]
    <3>1. k # 1 => k - 1 \in 1 .. n
      OBVIOUS
    <3>2. k # 1 => <<k, f[k - 1]>> \in (1 .. n) \X V
      <4> HIDE DEF V
      <4> QED BY <2>4, <3>1 DEF Stepwise
    <3>3. k # 1 => step[<<k, f[k - 1]>>] = f[k - 1] \o s[k]
      <4> HIDE DEF V
      <4> QED BY <3>2
    <3>4. f[k] = IF k = 1 THEN s[1] ELSE step[<<k, f[k - 1]>>]
      <4> HIDE DEF step
      <4> QED BY <2>4 DEF Stepwise
    <3> HIDE DEF step
    <3> QED BY <3>3, <3>4
  <2>6. f = [k \in 1 .. n |-> IF k = 1 THEN s[k] ELSE f[k - 1] \o s[k]]
    <3> HIDE DEF V
    <3>1. f = [k \in 1 .. n |-> f[k]]
      BY <2>4 DEF Stepwise
    <3> QED BY <2>5, <3>1
  <2>7. flatten = [k \in 1 .. n |-> IF k = 1 THEN s[k] ELSE flatten[k - 1] \o s[k]]
    BY <2>6
  <2>8. FlattenSeq(s) = flatten[n]
    BY <1>1, <1>3 DEF FlattenSeq
  <2> HIDE DEF flatten
  <2> DEFINE Done == { k \in Nat : k \in 1 .. n => OnlyTo(flatten[k], T) }
  <2>9. 0 \in Done
    OBVIOUS
  <2>10. ASSUME NEW k \in Nat, k \in Done PROVE k + 1 \in Done
    <3> SUFFICES ASSUME k + 1 \in 1 .. n PROVE OnlyTo(flatten[k + 1], T)
      OBVIOUS
    <3>1. flatten[k + 1] = IF k + 1 = 1 THEN s[k + 1] ELSE flatten[(k + 1) - 1] \o s[k + 1]
      BY <2>7
    <3>2. CASE k = 0
      BY <3>1, <3>2
    <3>3. CASE k # 0
      <4>1. k \in 1 .. n /\ (k + 1) - 1 = k /\ k + 1 # 1
        BY <3>3
      <4>2. OnlyTo(flatten[k], T)
        BY <2>10, <4>1
      <4>3. OnlyTo(flatten[k] \o s[k + 1], T)
        BY <4>2, BothWrite
      <4> QED BY <3>1, <4>1, <4>3
    <3> QED BY <3>2, <3>3
  <2> HIDE DEF Done
  <2>11. n \in Done
    BY <2>9, <2>10, SetInduction
  <2> QED BY <1>3, <2>8, <2>11 DEF Done
<1> QED BY <1>2, <1>3

\* What a step writes, and the memory has, is all that changes.
LEMMA Stored ==
  ASSUME NEW w, NEW T, OnlyTo(w, T), T \subseteq DOMAIN mem, Store(w)
  PROVE  DOMAIN mem' = DOMAIN mem /\ \A a \in DOMAIN mem : mem'[a] # mem[a] => a \in T
<1>1. Targets(w) \subseteq T
  BY DEF Targets, OnlyTo
<1>2. mem' = [ a \in DOMAIN mem \cup Targets(w) |->
                 LET to == { k \in DOMAIN w : w[k].addr = a } IN
                   IF to = {} THEN mem[a] ELSE w[Max(to)].value ]
  BY DEF Store
<1>3. DOMAIN mem' = DOMAIN mem
  BY <1>1, <1>2
<1>4. ASSUME NEW a \in DOMAIN mem, a \notin T PROVE mem'[a] = mem[a]
  <2>1. { k \in DOMAIN w : w[k].addr = a } = {}
    BY <1>4 DEF OnlyTo
  <2> QED BY <1>2, <2>1
<1> QED BY <1>3, <1>4

-----------------------------------------------------------------------------
\* The iterator at each member in turn.

\* The iterator moves on by one.
LEMMA NextPosition ==
  ASSUME NEW msg \in DOMAIN Structs, NEW base \in Int, NEW it, Stands(msg, base, it),
         it.pos < FieldCount(msg)
  PROVE  pb_field_iter_next(msg, base, it).pos = it.pos + 1
<1>1. FieldCount(msg) \in Nat /\ it.pos \in Nat
  BY LayoutAssumption DEF WellLaidOut, FieldCount, Stands, Iterators
<1>2. pb_field_iter_next(msg, base, it)
        = Advanced(FieldAt(msg, it.pos), FieldAt(msg, it.pos + 1), it)
  BY <1>1 DEF pb_field_iter_next, HasNext
<1>3. [it EXCEPT !.pos = @ + 1].pos = it.pos + 1
  BY DEF Stands, Iterators
<1> QED BY <1>2, <1>3 DEF Advanced, Iter

\* The iterator at each member in turn.
LEMMA ItersStand ==
  ASSUME NEW msg \in DOMAIN Structs, NEW base \in Int, NEW k \in 1 .. FieldCount(msg)
  PROVE  Stands(msg, base, Iters(msg, base)[k]) /\ Iters(msg, base)[k].pos = k
<1> DEFINE n     == FieldCount(msg)
           start == pb_field_iter_begin(msg, base)
           V     == { it \in Iterators : Stands(msg, base, it) }
           step  == [p \in (1 .. n) \X V |-> pb_field_iter_next(msg, base, p[2])]
           I     == Iters(msg, base)
<1>1. n \in Nat
  BY LayoutAssumption DEF WellLaidOut, FieldCount
<1>2. start \in V
  BY Begins DEF Stands
<1>3. \A it \in V : pb_field_iter_next(msg, base, it) \in V
  BY FindsNext DEF Stands
<1>4. step \in [(1 .. n) \X V -> V]
  <2> HIDE DEF V
  <2> QED BY <1>3
<1>5. PICK f : Stepwise(f, n, V, start, step)
  <2> HIDE DEF n, V, step, start
  <2> QED BY <1>1, <1>2, <1>4, StepwiseFunction
<1>6. ASSUME NEW j \in 1 .. n
      PROVE  f[j] = IF j = 1 THEN start ELSE pb_field_iter_next(msg, base, f[j - 1])
  <2>1. j # 1 => j - 1 \in 1 .. n
    BY <1>1
  <2>2. j # 1 => <<j, f[j - 1]>> \in (1 .. n) \X V
    <3> HIDE DEF V
    <3> QED BY <1>5, <2>1 DEF Stepwise
  <2>3. j # 1 => step[<<j, f[j - 1]>>] = pb_field_iter_next(msg, base, f[j - 1])
    <3> HIDE DEF V
    <3> QED BY <2>2
  <2> HIDE DEF step, V, start
  <2> QED BY <1>5, <2>3 DEF Stepwise
<1>7. f = [j \in 1 .. n |->
             IF j = 1 THEN start ELSE pb_field_iter_next(msg, base, f[j - 1])]
  <2>1. f = [j \in 1 .. n |-> f[j]]
    <3> HIDE DEF V, step, start
    <3> QED BY <1>5 DEF Stepwise
  <2> HIDE DEF V, step, start
  <2> QED BY <1>6, <2>1
<1>8. I = [j \in 1 .. n |->
             IF j = 1 THEN start ELSE pb_field_iter_next(msg, base, I[j - 1])]
  <2> DEFINE iter == CHOOSE g : g = [j \in 1 .. n |->
                       IF j = 1 THEN start ELSE pb_field_iter_next(msg, base, g[j - 1])]
  <2>1. I = iter
    BY DEF Iters
  <2>2. iter = [j \in 1 .. n |->
                  IF j = 1 THEN start ELSE pb_field_iter_next(msg, base, iter[j - 1])]
    <3> HIDE DEF n, start, I
    <3> QED BY <1>7
  <2> HIDE DEF iter, I
  <2> QED BY <2>1, <2>2
<1> HIDE DEF I
<1> DEFINE Right(j) == Stands(msg, base, I[j]) /\ I[j].pos = j
           Done     == { j \in Nat : j \in 1 .. n => Right(j) }
<1>9. 0 \in Done
  OBVIOUS
<1>10. ASSUME NEW j \in Nat, j \in Done PROVE j + 1 \in Done
  <2> SUFFICES ASSUME j + 1 \in 1 .. n PROVE Right(j + 1)
    OBVIOUS
  <2>1. I[j + 1] = IF j + 1 = 1 THEN start ELSE pb_field_iter_next(msg, base, I[(j + 1) - 1])
    <3> HIDE DEF start
    <3> QED BY <1>8
  <2>2. CASE j = 0
    <3>1. I[1] = start /\ j + 1 = 1
      BY <2>1, <2>2
    <3>2. start.pos = 1
      BY DEF pb_field_iter_begin, BeginAt, Iter
    <3> HIDE DEF start
    <3> QED BY <1>2, <3>1, <3>2
  <2>3. CASE j # 0
    <3>1. j \in 1 .. n /\ (j + 1) - 1 = j /\ j + 1 # 1 /\ j < n
      BY <1>1, <2>3
    <3>2. Right(j)
      BY <1>10, <3>1
    <3>3. I[j + 1] = pb_field_iter_next(msg, base, I[j])
      BY <2>1, <3>1
    <3>4. pb_field_iter_next(msg, base, I[j]).pos = j + 1
      BY <3>1, <3>2, NextPosition
    <3> QED BY <3>2, <3>3, <3>4, FindsNext
  <2> QED BY <2>2, <2>3
<1> HIDE DEF Done
<1>11. k \in Nat /\ k \in Done
  BY <1>1, <1>9, <1>10, SetInduction
<1> QED BY <1>11 DEF Done, I

-----------------------------------------------------------------------------
\* Where the members and the structs in them are.

\* A member is where the iterator finds it, with its has_, _count or which_ member.
LEMMA MemberPlaced ==
  ASSUME NEW msg \in DOMAIN Structs, NEW base \in Int, NEW it, Stands(msg, base, it),
         FieldCount(msg) # 0
  PROVE  LET m == Structs[msg][it.pos] IN
           /\ it.pos \in 1 .. FieldCount(msg) /\ it.pos \in DOMAIN Structs[msg]
           /\ m \in ToSet(Structs[msg])
           /\ m \in Member /\ HasSize(m.ltype, m.item) /\ m.count > 0
           /\ FieldAt(msg, it.pos) = PB_FIELD(Structs[msg], it.pos)
           /\ it.pData \in Int
           /\ it.pData = base + m.at
           /\ it.pData .. it.pData + pb_membersize(m) - 1 \subseteq MemberCells(base, m)
           /\ pb_membersize(m) > 0 /\ pb_membersize(m) \in Nat
           /\ it.pData \in MemberCells(base, m) /\ it.pSize \in MemberCells(base, m)
           /\ PointsToStruct(m)
           /\ ~IsStaticArray(m) => m.count = 1
<1> DEFINE k == it.pos
           m == Structs[msg][k]
           cells == MemberCells(base, m)
           size == pb_membersize(m)
<1>1. /\ WellLaidOut(Structs[msg]) /\ Structs[msg] \in Seq(Member)
      /\ FieldCount(msg) \in Nat /\ DOMAIN Structs[msg] = 1 .. FieldCount(msg)
      /\ Structs[msg] # <<>>
  BY LayoutAssumption DEF WellLaidOut, FieldCount
<1>2. k \in DOMAIN Structs[msg] /\ k \in 1 .. FieldCount(msg)
  BY <1>1 DEF Stands, IterConsistent
<1>3. m \in ToSet(Structs[msg])
  BY <1>2 DEF ToSet
<1>4. /\ m \in Member /\ m.at \in Nat /\ m.item \in Nat /\ m.count \in Nat
      /\ m.size_at # NULL => m.size_at \in Nat
      /\ m.atype \in ATypes
      /\ ~IsStaticArray(m) => m.count = 1
  BY <1>2, OneMember
<1>5. HasSize(m.ltype, m.item) /\ m.count > 0 /\ PointsToStruct(m)
  BY <1>1, <1>2 DEF WellLaidOut
<1>6. FieldAt(msg, k) = PB_FIELD(Structs[msg], k)
  BY <1>2, FieldOfMember
<1>7. /\ it.pData \in Int /\ it.pData = base + m.at
      /\ m.size_at # NULL => it.pSize = base + m.size_at
      /\ m.size_at = NULL => it.pSize = it.pData
  BY <1>1 DEF Stands, IterConsistent, Iterators
<1>8. size \in Nat
  BY <1>2, Sizes
<1>9. size > 0
  <2>1. \A a, b \in Nat : a > 0 /\ b > 0 => a * b > 0
    OBVIOUS
  <2>2. m.item > 0
    BY <1>5 DEF HasSize
  <2> QED BY <1>4, <1>5, <2>1, <2>2 DEF pb_membersize, PointerSize
<1>10. cells = (base + m.at .. base + m.at + size - 1)
                 \cup (IF m.size_at = NULL THEN {} ELSE {base + m.size_at})
  BY DEF MemberCells
<1> HIDE DEF m, cells, size
<1>11. it.pData .. it.pData + size - 1 \subseteq cells
  BY <1>7, <1>10
<1>12. it.pData \in cells
  BY <1>7, <1>8, <1>9, <1>11
<1>13. it.pSize \in cells
  BY <1>7, <1>10, <1>12
<1> QED BY <1>2, <1>3, <1>4, <1>5, <1>6, <1>7, <1>8, <1>9, <1>11, <1>12, <1>13 DEF k, m, cells, size

\* The struct of a member lies in the member, and one of an extension in its value.
LEMMA StructWithin ==
  ASSUME NEW msg \in DOMAIN Structs, NEW size \in Nat, Holds(size, msg), NEW base \in Int
  PROVE  \A k \in 1 .. FieldCount(msg) :
           MemberCells(base, Structs[msg][k]) \subseteq base .. base + size - 1
<1> SUFFICES ASSUME NEW k \in 1 .. FieldCount(msg)
             PROVE  MemberCells(base, Structs[msg][k]) \subseteq base .. base + size - 1
  OBVIOUS
<1> DEFINE m == Structs[msg][k]
<1>1. k \in DOMAIN Structs[msg]
  BY LayoutAssumption DEF WellLaidOut, FieldCount
<1>2. MemberCells(0, m) \subseteq 0 .. size - 1
  BY <1>1 DEF Holds
<1>3. m.at \in Nat /\ (m.size_at # NULL => m.size_at \in Nat) /\ pb_membersize(m) \in Nat
  BY OneMember, Sizes
<1> HIDE DEF m
<1>4. ASSUME NEW a \in MemberCells(base, m) PROVE a \in base .. base + size - 1
  <2>1. a \in Int /\ a - base \in MemberCells(0, m)
    BY <1>3, <1>4 DEF MemberCells
  <2>2. a - base \in 0 .. size - 1
    BY <1>2, <2>1
  <2> QED BY <2>1, <2>2
<1> QED BY <1>4 DEF m

LEMMA StructCellsWithin ==
  ASSUME NEW msg \in DOMAIN Structs, NEW size \in Nat, Holds(size, msg), NEW base \in Int
  PROVE  StructCells(base, msg) \subseteq base .. base + size - 1
<1>1. DOMAIN Structs[msg] = 1 .. FieldCount(msg)
  BY LayoutAssumption DEF WellLaidOut, FieldCount
<1>2. \A m \in ToSet(Structs[msg]) : MemberCells(base, m) \subseteq base .. base + size - 1
  BY <1>1, StructWithin DEF ToSet
<1> QED BY <1>2 DEF StructCells

\* A struct in a member has a description, unless the member is an array.
LEMMA NestedStruct ==
  ASSUME NEW msg \in DOMAIN Structs, NEW m \in ToSet(Structs[msg]), HoldsStruct(m),
         PointsToStruct(m), m.htype # "REPEATED" \/ m.ptr # NULL
  PROVE  m.ptr \in DOMAIN Structs /\ Holds(m.item, m.ptr) /\ m.ptr \in Parts(msg)
<1>1. m \in { Structs[msg][k] : k \in DOMAIN Structs[msg] }
  BY DEF ToSet
<1>2. m.ptr # NULL /\ Holds(m.item, m.ptr)
  BY <1>1, ContainmentAssumption
<1>3. m.ptr \in DOMAIN Structs
  BY <1>2 DEF HoldsStruct, PointsToStruct
<1>4. m.ptr \in Parts(msg)
  BY DEF Parts
<1> QED BY <1>2, <1>3, <1>4

\* pb_field_set_to_default() writes the field.
LEMMA FieldDefaultWrites ==
  ASSUME NEW field, NEW it, NEW sub, NEW ext, NEW T,
         field.atype \in ATypes, field.htype \in HTypes,
         field.ltype = "EXTENSION" => OnlyTo(ext, T),
         field.ltype # "EXTENSION" /\ field.atype # "CALLBACK" => it.pData \in T /\ it.pSize \in T,
         field.ltype # "EXTENSION" /\ field.atype = "STATIC"
           /\ field.htype \in {"REQUIRED", "OPTIONAL"} =>
             IF field.ltype = "SUBMESSAGE" THEN OnlyTo(sub, T)
             ELSE /\ it.pData \in Int /\ field.data_size \in Nat
                  /\ it.pData .. it.pData + field.data_size - 1 \subseteq T
  PROVE  OnlyTo(FieldDefault(field, it, sub, ext), T)
<1> DEFINE size  == <<Write(it.pSize, 0)>>
           array == field.htype \in {"REPEATED", "ONEOF"}
           value == IF field.ltype = "SUBMESSAGE" THEN sub
                    ELSE IF field.ptr # NULL THEN <<Write(it.pData, field.ptr)>>
                    ELSE Zeros(it.pData, field.data_size)
           d     == FieldDefault(field, it, sub, ext)
<1>0. OnlyTo(<<>>, T)
  BY NoWrite
<1>1. CASE field.ltype = "EXTENSION"
  BY <1>1 DEF FieldDefault
<1>2. CASE field.ltype # "EXTENSION" /\ field.atype = "CALLBACK"
  <2>1. d = <<>>
    BY <1>2 DEF FieldDefault
  <2> QED BY <1>0, <2>1
<1>3. CASE field.ltype # "EXTENSION" /\ field.atype = "POINTER"
  <2>1. OnlyTo(size, T) /\ OnlyTo(<<Write(it.pData, 0)>>, T)
    BY <1>3, OneWrite
  <2>2. d = <<Write(it.pData, 0)>> \o (IF array THEN size ELSE <<>>)
    BY <1>3 DEF FieldDefault
  <2>3. OnlyTo(IF array THEN size ELSE <<>>, T)
    BY <1>0, <2>1
  <2> QED BY <2>1, <2>2, <2>3, BothWrite
<1>4. CASE field.ltype # "EXTENSION" /\ field.atype = "STATIC" /\ array
  <2>1. OnlyTo(size, T)
    BY <1>4, OneWrite
  <2>2. d = size
    BY <1>4 DEF FieldDefault
  <2> QED BY <2>1, <2>2
<1>5. CASE field.ltype # "EXTENSION" /\ field.atype = "STATIC" /\ ~array
  <2>1. OnlyTo(size, T)
    BY <1>5, OneWrite
  <2>2. field.htype \in {"REQUIRED", "OPTIONAL"}
    BY <1>5 DEF HTypes
  <2>3. OnlyTo(value, T)
    <3>1. CASE field.ltype = "SUBMESSAGE"
      BY <1>5, <2>2, <3>1
    <3>2. CASE field.ltype # "SUBMESSAGE" /\ field.ptr # NULL
      <4>1. OnlyTo(<<Write(it.pData, field.ptr)>>, T)
        BY <1>5, OneWrite
      <4> QED BY <3>2, <4>1
    <3>3. CASE field.ltype # "SUBMESSAGE" /\ field.ptr = NULL
      <4>1. OnlyTo(Zeros(it.pData, field.data_size), T)
        BY <1>5, <2>2, <3>3, ZerosWrite
      <4> QED BY <3>3, <4>1
    <3> QED BY <3>1, <3>2, <3>3
  <2> DEFINE has == IF field.htype = "OPTIONAL" /\ it.pSize # it.pData THEN size ELSE <<>>
  <2>4. d = has \o value
    BY <1>5 DEF FieldDefault
  <2>5. OnlyTo(has, T)
    BY <1>0, <2>1
  <2> HIDE DEF has, value, d
  <2>6. OnlyTo(d, T)
    BY <2>3, <2>4, <2>5, BothWrite
  <2> QED BY <2>6 DEF d
<1> QED BY <1>1, <1>2, <1>3, <1>4, <1>5 DEF ATypes

-----------------------------------------------------------------------------
\* What pb_message_set_to_defaults() writes, if the defaults of the structs in the
\* message write no more than they may.

\* What a struct of this type at base may be initialised with.
InitCells(base, msg, wiped) == StructCells(base, msg) \cup (IF wiped THEN {} ELSE LinkedCells)

\* The defaults of the struct write no more.
DefaultWrites(sub, msg) ==
  \A base \in Int, wiped \in BOOLEAN : OnlyTo(sub[msg][base][wiped], InitCells(base, msg, wiped))

PartsWrite(sub, msg) ==
  \A part \in Parts(msg) \cap DOMAIN Structs : DefaultWrites(sub, part)

\* An extension of a message.
LEMMA OneExtension ==
  ASSUME NEW msg \in DOMAIN Structs, NEW k \in DOMAIN Extensions[msg]
  PROVE  LET e == Extensions[msg][k] IN
           /\ e \in Extension /\ e \in AllExtensions /\ e \in ToSet(Extensions[msg])
           /\ IsExtensionField(e.field) /\ e.field \in pb_field_t
           /\ e.dest \in Int /\ e.field.data_size \in Nat /\ e.field.data_size > 0
           /\ ExtensionCells(e) \subseteq LinkedCells
           /\ e.dest .. e.dest + e.field.data_size - 1 \subseteq ExtensionCells(e)
           /\ e.dest \in ExtensionCells(e) /\ e.found \in ExtensionCells(e)
           /\ HoldsStruct(e.field) =>
                /\ e.field.ptr \in DOMAIN Structs /\ e.field.ptr \in Parts(msg)
                /\ Holds(e.field.data_size, e.field.ptr)
<1> DEFINE e == Extensions[msg][k]
<1>1. Extensions[msg] \in Seq(Extension)
  BY ExtensionsAssumption
<1>2. e \in Extension
  BY <1>1
<1>3. e \in ToSet(Extensions[msg])
  BY DEF ToSet
<1>4. e \in AllExtensions
  BY <1>3 DEF AllExtensions
<1> HIDE DEF e
<1>5. IsExtensionField(e.field) /\ e.field \in pb_field_t /\ e.dest \in Int
  BY <1>2 DEF Extension
<1>6. e.field.data_size \in Nat /\ e.field.data_size > 0
  BY <1>5 DEF IsExtensionField, HasSize, pb_field_t
<1>7. ExtensionCells(e) \subseteq LinkedCells
  BY <1>4 DEF LinkedCells
<1>8. /\ e.dest .. e.dest + e.field.data_size - 1 \subseteq ExtensionCells(e)
      /\ e.dest \in ExtensionCells(e) /\ e.found \in ExtensionCells(e)
  BY <1>5, <1>6 DEF ExtensionCells
<1>9. ASSUME HoldsStruct(e.field)
      PROVE  /\ e.field.ptr \in DOMAIN Structs /\ e.field.ptr \in Parts(msg)
             /\ Holds(e.field.data_size, e.field.ptr)
  <2>1. e.field.ptr \in Parts(msg)
    BY <1>3, <1>9 DEF Parts
  <2> QED BY <1>4, <1>9, <2>1, ExtensionSizes
<1> QED BY <1>2, <1>3, <1>4, <1>5, <1>6, <1>7, <1>8, <1>9 DEF e

LEMMA LinkedDefaultWrites ==
  ASSUME NEW msg \in DOMAIN Structs, NEW sub, PartsWrite(sub, msg), NEW addr, NEW wiped \in BOOLEAN
  PROVE  OnlyTo(LinkedDefault(sub, msg, addr, wiped), IF wiped THEN {} ELSE LinkedCells)
<1>1. CASE wiped
  BY <1>1, NoWrite DEF LinkedDefault
<1>2. CASE ~wiped
  <2> DEFINE linked == Linked(msg, addr)
             One(e) == ExtensionDefault(e, NestedDefault(sub, e.field, e.dest, FALSE))
             s == [k \in DOMAIN linked |-> One(linked[k])]
  <2>1. linked = <<>> \/ linked = Extensions[msg]
    BY DEF Linked
  <2>2. Extensions[msg] \in Seq(Extension)
    BY ExtensionsAssumption
  <2>3. Len(linked) \in Nat /\ DOMAIN linked = 1 .. Len(linked)
    BY <2>1, <2>2
  <2>4. LinkedDefault(sub, msg, addr, wiped) = FlattenSeq(s)
    BY <1>2 DEF LinkedDefault
  <2>5. ASSUME NEW k \in DOMAIN linked PROVE OnlyTo(One(linked[k]), LinkedCells)
    <3> DEFINE e == linked[k]
               it == ExtensionIter(e)
               nested == NestedDefault(sub, e.field, e.dest, FALSE)
    <3>1. linked = Extensions[msg] /\ k \in DOMAIN Extensions[msg]
      BY <2>1, <2>5
    <3>2. /\ IsExtensionField(e.field) /\ e.field \in pb_field_t
          /\ e.dest \in Int /\ e.field.data_size \in Nat
          /\ ExtensionCells(e) \subseteq LinkedCells
          /\ e.dest .. e.dest + e.field.data_size - 1 \subseteq ExtensionCells(e)
          /\ e.dest \in ExtensionCells(e) /\ e.found \in ExtensionCells(e)
          /\ HoldsStruct(e.field) =>
               /\ e.field.ptr \in DOMAIN Structs /\ e.field.ptr \in Parts(msg)
               /\ Holds(e.field.data_size, e.field.ptr)
      BY <3>1, OneExtension
    <3> HIDE DEF linked, e
    <3>3. OnlyTo(nested, LinkedCells)
      <4>1. CASE HoldsStruct(e.field)
        <5>1. e.field.htype \in {"REQUIRED", "OPTIONAL"}
          BY <3>2 DEF IsExtensionField
        <5>2. nested = sub[e.field.ptr][e.dest][FALSE]
          BY <4>1, <5>1 DEF NestedDefault
        <5>3. OnlyTo(sub[e.field.ptr][e.dest][FALSE], InitCells(e.dest, e.field.ptr, FALSE))
          BY <3>2, <4>1 DEF PartsWrite, DefaultWrites
        <5>4. StructCells(e.dest, e.field.ptr) \subseteq LinkedCells
          BY <3>2, <4>1, StructCellsWithin
        <5>5. InitCells(e.dest, e.field.ptr, FALSE) \subseteq LinkedCells
          BY <5>4 DEF InitCells
        <5>6. OnlyTo(sub[e.field.ptr][e.dest][FALSE], LinkedCells)
          BY ONLY <5>3, <5>5, MoreAddresses, Zenon
        <5> QED BY ONLY <5>2, <5>6, Zenon
      <4>2. CASE ~HoldsStruct(e.field)
        BY <4>2, NoWrite DEF NestedDefault
      <4> QED BY <4>1, <4>2
    <3>4. it.pData = e.dest /\ it.pSize = e.found
      BY DEF ExtensionIter
    <3>5. OnlyTo(<<>>, LinkedCells)
      BY NoWrite
    <3> HIDE DEF it, nested
    <3>6. e.field.atype \in ATypes /\ e.field.htype \in HTypes
      BY <3>2 DEF pb_field_t
    <3>7. OnlyTo(FieldDefault(e.field, it, nested, <<>>), LinkedCells)
      BY <3>2, <3>3, <3>4, <3>5, <3>6, FieldDefaultWrites
    <3>8. OnlyTo(<<Write(e.found, 0)>>, LinkedCells)
      BY <3>2, OneWrite
    <3>9. One(e) = <<Write(e.found, 0)>> \o FieldDefault(e.field, it, nested, <<>>)
      BY DEF ExtensionDefault, it, nested
    <3> HIDE DEF One
    <3>10. OnlyTo(One(e), LinkedCells)
      BY <3>7, <3>8, <3>9, BothWrite
    <3> QED BY <3>10 DEF e
  <2> HIDE DEF One
  <2>6. /\ DOMAIN s = 1 .. Len(linked) /\ s = [k \in 1 .. Len(linked) |-> s[k]]
        /\ \A k \in 1 .. Len(linked) : OnlyTo(s[k], LinkedCells)
    <3> HIDE DEF linked
    <3> QED BY <2>3, <2>5
  <2> HIDE DEF s
  <2>7. OnlyTo(FlattenSeq(s), LinkedCells)
    BY <2>3, <2>6, AllWrite
  <2> QED BY <1>2, <2>4, <2>7
<1> QED BY <1>1, <1>2

\* pb_message_set_to_defaults() writes the struct, without what it leaves to the caller,
\* and the extensions.
LEMMA MessageDefaultWrites ==
  ASSUME NEW msg \in DOMAIN Structs, NEW sub, PartsWrite(sub, msg), NEW base \in Int,
         NEW wiped \in BOOLEAN
  PROVE  OnlyTo(MessageDefault(sub, msg, base, wiped), InitCells(base, msg, wiped))
<1> DEFINE n == FieldCount(msg)
           T == InitCells(base, msg, wiped)
           One(k) == MemberDefault(sub, msg, k, Iters(msg, base)[k], wiped)
           s == [k \in 1 .. n |-> One(k)]
<1>1. n \in Nat
  BY LayoutAssumption DEF WellLaidOut, FieldCount
<1>2. ASSUME NEW k \in 1 .. n PROVE OnlyTo(One(k), T)
  <2> DEFINE it == Iters(msg, base)[k]
             m == Structs[msg][k]
             field == FieldAt(msg, k)
             nested == NestedDefault(sub, field, it.pData, wiped)
             ext == LinkedDefault(sub, msg, it.pData, wiped)
             cells == MemberCells(base, m)
  <2>1. Stands(msg, base, it) /\ it.pos = k /\ FieldCount(msg) # 0
    BY <1>1, ItersStand
  <2>2. /\ m \in ToSet(Structs[msg]) /\ m \in Member
        /\ field = PB_FIELD(Structs[msg], k)
        /\ it.pData \in Int
        /\ it.pData .. it.pData + pb_membersize(m) - 1 \subseteq cells
        /\ it.pData \in cells /\ it.pSize \in cells
        /\ PointsToStruct(m)
        /\ ~IsStaticArray(m) => m.count = 1
    BY <2>1, MemberPlaced
  <2>3. OnlyTo(ext, T)
    <3>1. OnlyTo(ext, IF wiped THEN {} ELSE LinkedCells)
      BY LinkedDefaultWrites
    <3> HIDE DEF ext
    <3> QED BY <3>1, MoreAddresses DEF InitCells
  <2>4. /\ field.ltype = m.ltype /\ field.htype = m.htype /\ field.atype = m.atype
        /\ field.ptr = m.ptr /\ field.data_size = m.item
    BY <2>2 DEF PB_FIELD
  <2>5. m.atype \in ATypes /\ m.htype \in HTypes /\ m.item \in Nat
    BY <2>2 DEF Member
  <2>6. One(k) = FieldDefault(field, it, nested, ext)
    BY DEF MemberDefault
  <2> HIDE DEF it, m, field, ext, cells, One
  <2>7. ~Kept(m) => cells \subseteq T
    BY <2>2 DEF InitCells, StructCells, cells
  <2>8. ASSUME m.ltype # "EXTENSION", m.atype = "STATIC", m.htype \in {"REQUIRED", "OPTIONAL"}
        PROVE  IF m.ltype = "SUBMESSAGE" THEN OnlyTo(nested, T)
               ELSE it.pData .. it.pData + m.item - 1 \subseteq T
    <3>1. pb_membersize(m) = m.item
      BY <2>2, <2>5, <2>8 DEF pb_membersize, IsStaticArray
    <3>2. it.pData .. it.pData + m.item - 1 \subseteq T
      BY <2>2, <2>7, <2>8, <3>1 DEF Kept
    <3>3. ASSUME m.ltype = "SUBMESSAGE" PROVE OnlyTo(nested, T)
      <4>1. HoldsStruct(field) /\ HoldsStruct(m)
        BY <2>4, <2>8, <3>3 DEF HoldsStruct
      <4>2. m.ptr \in DOMAIN Structs /\ Holds(m.item, m.ptr) /\ m.ptr \in Parts(msg)
        BY <2>2, <2>8, <4>1, NestedStruct
      <4>3. nested = sub[m.ptr][it.pData][wiped]
        BY <2>4, <2>8, <4>1 DEF NestedDefault
      <4>4. OnlyTo(sub[m.ptr][it.pData][wiped], InitCells(it.pData, m.ptr, wiped))
        BY <2>2, <4>2 DEF PartsWrite, DefaultWrites
      <4>5. StructCells(it.pData, m.ptr) \subseteq T
        BY <2>2, <2>5, <3>2, <4>2, StructCellsWithin
      <4>6. InitCells(it.pData, m.ptr, wiped) \subseteq T
        BY <4>5 DEF InitCells
      <4> QED BY <4>3, <4>4, <4>6, MoreAddresses
    <3> QED BY <3>2, <3>3
  <2>9. m.ltype # "EXTENSION" /\ m.atype # "CALLBACK" => it.pData \in T /\ it.pSize \in T
    BY <2>2, <2>7 DEF Kept
  <2> HIDE DEF nested, T
  <2>10. OnlyTo(FieldDefault(field, it, nested, ext), T)
    BY <2>2, <2>3, <2>4, <2>5, <2>8, <2>9, FieldDefaultWrites
  <2> QED BY <2>6, <2>10
<1>3. MessageDefault(sub, msg, base, wiped) = FlattenSeq(s)
  BY DEF MessageDefault
<1> HIDE DEF One, n, T
<1>4. DOMAIN s = 1 .. n /\ s = [k \in 1 .. n |-> s[k]] /\ \A k \in 1 .. n : OnlyTo(s[k], T)
  BY <1>2
<1> HIDE DEF s
<1>5. OnlyTo(FlattenSeq(s), T)
  BY <1>1, <1>4, AllWrite
<1> QED BY <1>3, <1>5 DEF T

-----------------------------------------------------------------------------
\* The recursion of the defaults ends, because no struct is part of itself.

\* The defaults of a message depend on those of its parts only.
LEMMA SameLinkedDefault ==
  ASSUME NEW msg \in DOMAIN Structs, NEW d, NEW e,
         \A part \in Parts(msg) \cap DOMAIN Structs : d[part] = e[part],
         NEW addr, NEW wiped \in BOOLEAN
  PROVE  LinkedDefault(d, msg, addr, wiped) = LinkedDefault(e, msg, addr, wiped)
<1> DEFINE linked == Linked(msg, addr)
           One(sub, k) == ExtensionDefault(linked[k],
                            NestedDefault(sub, linked[k].field, linked[k].dest, FALSE))
<1>1. ASSUME NEW k \in DOMAIN linked PROVE One(d, k) = One(e, k)
  <2>1. linked = <<>> \/ linked = Extensions[msg]
    BY DEF Linked
  <2>2. k \in DOMAIN Extensions[msg] /\ linked = Extensions[msg]
    BY <2>1
  <2>3. HoldsStruct(linked[k].field) => d[linked[k].field.ptr] = e[linked[k].field.ptr]
    BY <2>2, OneExtension
  <2> HIDE DEF linked
  <2>4. NestedDefault(d, linked[k].field, linked[k].dest, FALSE)
          = NestedDefault(e, linked[k].field, linked[k].dest, FALSE)
    BY <2>3 DEF NestedDefault
  <2> QED BY <2>4
<1>2. [k \in DOMAIN linked |-> One(d, k)] = [k \in DOMAIN linked |-> One(e, k)]
  <2> HIDE DEF One, linked
  <2> QED BY <1>1
<1>3. \A sub : LinkedDefault(sub, msg, addr, wiped)
                 = IF wiped THEN <<>> ELSE FlattenSeq([k \in DOMAIN linked |-> One(sub, k)])
  BY DEF LinkedDefault
<1> HIDE DEF One, linked
<1> QED BY <1>2, <1>3

LEMMA SameMessageDefault ==
  ASSUME NEW msg \in DOMAIN Structs, NEW d, NEW e,
         \A part \in Parts(msg) \cap DOMAIN Structs : d[part] = e[part],
         NEW base \in Int, NEW wiped \in BOOLEAN
  PROVE  MessageDefault(d, msg, base, wiped) = MessageDefault(e, msg, base, wiped)
<1> DEFINE n == FieldCount(msg)
           One(sub, k) == MemberDefault(sub, msg, k, Iters(msg, base)[k], wiped)
<1>1. ASSUME NEW k \in 1 .. n PROVE One(d, k) = One(e, k)
  <2> DEFINE it == Iters(msg, base)[k]
             field == FieldAt(msg, k)
             m == Structs[msg][k]
  <2>1. n \in Nat
    BY LayoutAssumption DEF WellLaidOut, FieldCount
  <2>2. Stands(msg, base, it) /\ it.pos = k /\ FieldCount(msg) # 0
    BY <2>1, ItersStand
  <2>3. m \in ToSet(Structs[msg]) /\ field = PB_FIELD(Structs[msg], k) /\ PointsToStruct(m)
    BY <2>2, MemberPlaced
  <2>4. field.ltype = m.ltype /\ field.htype = m.htype /\ field.atype = m.atype
        /\ field.ptr = m.ptr
    BY <2>3 DEF PB_FIELD
  <2> HIDE DEF it, field, m
  <2>5. HoldsStruct(field) /\ field.htype \in {"REQUIRED", "OPTIONAL"}
          => d[field.ptr] = e[field.ptr]
    BY <2>3, <2>4, NestedStruct DEF HoldsStruct
  <2>6. NestedDefault(d, field, it.pData, wiped) = NestedDefault(e, field, it.pData, wiped)
    BY <2>5 DEF NestedDefault
  <2>7. LinkedDefault(d, msg, it.pData, wiped) = LinkedDefault(e, msg, it.pData, wiped)
    BY SameLinkedDefault
  <2> QED BY <2>6, <2>7 DEF MemberDefault, it, field
<1>2. [k \in 1 .. n |-> One(d, k)] = [k \in 1 .. n |-> One(e, k)]
  <2> HIDE DEF One, n
  <2> QED BY <1>1
<1>3. \A sub : MessageDefault(sub, msg, base, wiped) = FlattenSeq([k \in 1 .. n |-> One(sub, k)])
  BY DEF MessageDefault
<1> HIDE DEF One, n
<1> QED BY <1>2, <1>3

\* The defaults of a struct at every address.
Row(sub, msg) == [base \in Int |-> [wiped \in BOOLEAN |-> MessageDefault(sub, msg, base, wiped)]]

LEMMA SameRow ==
  ASSUME NEW msg \in DOMAIN Structs, NEW d, NEW e,
         \A part \in Parts(msg) \cap DOMAIN Structs : d[part] = e[part]
  PROVE  Row(d, msg) = Row(e, msg)
<1>1. \A base \in Int, wiped \in BOOLEAN :
        MessageDefault(d, msg, base, wiped) = MessageDefault(e, msg, base, wiped)
  BY SameMessageDefault
<1> QED BY <1>1 DEF Row

\* d holds the defaults of these types, which have all their parts among them.
Solves(types, d) ==
  /\ types \subseteq DOMAIN Structs
  /\ \A msg \in types : Parts(msg) \cap DOMAIN Structs \subseteq types /\ d[msg] = Row(d, msg)

\* The defaults of a type are determined.
LEMMA SolutionsAgree ==
  ASSUME NEW S, NEW d, Solves(S, d), NEW T, NEW e, Solves(T, e)
  PROVE  \A msg \in S \cap T : d[msg] = e[msg]
<1> DEFINE bad == { msg \in S \cap T : d[msg] # e[msg] }
<1>1. bad \in SUBSET DOMAIN Structs
  BY DEF Solves
<1>2. ASSUME bad # {} PROVE FALSE
  <2>1. PICK msg \in bad : Parts(msg) \cap bad = {}
    BY <1>1, <1>2, NestingAssumption
  <2>2. msg \in DOMAIN Structs /\ msg \in S /\ msg \in T
    BY <1>1
  <2>3. Parts(msg) \cap DOMAIN Structs \subseteq S \cap T
    BY <2>2 DEF Solves
  <2>4. \A part \in Parts(msg) \cap DOMAIN Structs : d[part] = e[part]
    BY <2>1, <2>3
  <2>5. Row(d, msg) = Row(e, msg)
    BY <2>2, <2>4, SameRow
  <2>6. d[msg] = e[msg]
    BY <2>2, <2>5 DEF Solves
  <2> QED BY <2>6
<1> QED BY <1>2

\* There are defaults of all types, because no struct is part of itself.
LEMMA DefaultsExist ==
  \E d : d = [msg \in DOMAIN Structs |-> Row(d, msg)]
<1> DEFINE Known == { msg \in DOMAIN Structs : \E S, d : Solves(S, d) /\ msg \in S }
           Is(msg, v) == \E S, d : Solves(S, d) /\ msg \in S /\ v = d[msg]
           D == [msg \in DOMAIN Structs |-> CHOOSE v : Is(msg, v)]
<1>1. ASSUME NEW S, NEW d, Solves(S, d) PROVE \A msg \in S : D[msg] = d[msg]
  <2> TAKE msg \in S
  <2>1. msg \in DOMAIN Structs
    BY <1>1 DEF Solves
  <2>2. Is(msg, d[msg])
    BY <1>1
  <2>3. Is(msg, CHOOSE v : Is(msg, v))
    <3> HIDE DEF Is
    <3> QED BY <2>2
  <2>4. ASSUME NEW v, Is(msg, v) PROVE v = d[msg]
    <3>1. PICK T, e : Solves(T, e) /\ msg \in T /\ v = e[msg]
      BY <2>4
    <3> QED BY <1>1, <3>1, SolutionsAgree
  <2>5. D[msg] = CHOOSE v : Is(msg, v)
    <3> HIDE DEF Is
    <3> QED BY <2>1
  <2> HIDE DEF Is
  <2> QED BY <2>3, <2>4, <2>5
<1> HIDE DEF D
<1>2. Solves(Known, D)
  <2> SUFFICES ASSUME NEW msg \in Known
               PROVE  Parts(msg) \cap DOMAIN Structs \subseteq Known /\ D[msg] = Row(D, msg)
    BY DEF Solves
  <2>1. PICK S, d : Solves(S, d) /\ msg \in S
    OBVIOUS
  <2>2. S \subseteq Known /\ Parts(msg) \cap DOMAIN Structs \subseteq S /\ d[msg] = Row(d, msg)
    BY <2>1 DEF Solves
  <2>3. \A part \in Parts(msg) \cap DOMAIN Structs : D[part] = d[part]
    BY <1>1, <2>1, <2>2
  <2>4. D[msg] = d[msg]
    BY <1>1, <2>1
  <2>5. Row(D, msg) = Row(d, msg)
    BY <2>3, SameRow
  <2> QED BY <2>2, <2>4, <2>5
<1>3. Known = DOMAIN Structs
  <2> DEFINE missing == DOMAIN Structs \ Known
  <2>1. ASSUME missing # {} PROVE FALSE
    <3>1. PICK msg \in missing : Parts(msg) \cap missing = {}
      BY <2>1, NestingAssumption
    <3>2. Parts(msg) \cap DOMAIN Structs \subseteq Known
      BY <3>1
    <3> DEFINE S == Known \cup {msg}
               d == [part \in S |-> IF part = msg THEN Row(D, msg) ELSE D[part]]
    <3>3. d[msg] = Row(D, msg) /\ \A part \in Known : d[part] = D[part]
      BY <3>1
    <3> HIDE DEF d, Known
    <3>4. ASSUME NEW part \in S
          PROVE  /\ part \in DOMAIN Structs /\ Parts(part) \cap DOMAIN Structs \subseteq Known
                 /\ d[part] = Row(D, part)
      BY <1>2, <3>1, <3>2, <3>3 DEF Solves
    <3>5. ASSUME NEW part \in S PROVE Row(d, part) = Row(D, part)
      <4>1. \A x \in Parts(part) \cap DOMAIN Structs : d[x] = D[x]
        BY <3>3, <3>4
      <4> QED BY <3>4, <4>1, SameRow
    <3>6. Solves(S, d)
      BY <3>4, <3>5 DEF Solves
    <3>7. msg \in Known
      BY <3>1, <3>6 DEF Known
    <3> QED BY <3>1, <3>7
  <2> QED BY <2>1
<1>4. \A msg \in DOMAIN Structs : D[msg] = Row(D, msg)
  BY <1>2, <1>3 DEF Solves
<1>5. D = [msg \in DOMAIN Structs |-> D[msg]]
  BY DEF D
<1>6. D = [msg \in DOMAIN Structs |-> Row(D, msg)]
  BY <1>4, <1>5
<1> QED BY <1>6

LEMMA DefaultsAre ==
  \A msg \in DOMAIN Structs, base \in Int, wiped \in BOOLEAN :
    Defaults[msg][base][wiped] = MessageDefault(Defaults, msg, base, wiped)
<1> DEFINE D == CHOOSE d : d = [msg \in DOMAIN Structs |-> Row(d, msg)]
<1>1. D = [msg \in DOMAIN Structs |-> Row(D, msg)]
  BY DefaultsExist
<1>2. Defaults = D
  BY DEF Defaults, Row
<1> HIDE DEF D
<1>3. ASSUME NEW msg \in DOMAIN Structs PROVE Defaults[msg] = Row(Defaults, msg)
  BY <1>1, <1>2
<1>4. ASSUME NEW msg \in DOMAIN Structs, NEW base \in Int, NEW wiped \in BOOLEAN
      PROVE  Row(Defaults, msg)[base][wiped] = MessageDefault(Defaults, msg, base, wiped)
  BY DEF Row
<1> QED BY <1>3, <1>4, Zenon

\* Whatever the message and its parts are.
LEMMA DefaultsWrite ==
  \A msg \in DOMAIN Structs : DefaultWrites(Defaults, msg)
<1> DEFINE bad == { msg \in DOMAIN Structs : ~DefaultWrites(Defaults, msg) }
<1>1. ASSUME bad # {} PROVE FALSE
  <2>1. PICK msg \in bad : Parts(msg) \cap bad = {}
    BY <1>1, NestingAssumption, bad \in SUBSET DOMAIN Structs
  <2>2. PartsWrite(Defaults, msg)
    BY <2>1 DEF PartsWrite
  <2>3. ASSUME NEW base \in Int, NEW wiped \in BOOLEAN
        PROVE  OnlyTo(Defaults[msg][base][wiped], InitCells(base, msg, wiped))
    <3>1. OnlyTo(MessageDefault(Defaults, msg, base, wiped), InitCells(base, msg, wiped))
      BY <2>2, MessageDefaultWrites
    <3>2. Defaults[msg][base][wiped] = MessageDefault(Defaults, msg, base, wiped)
      BY DefaultsAre
    <3> QED BY <3>1, <3>2, Zenon
  <2>4. DefaultWrites(Defaults, msg)
    BY <2>3 DEF DefaultWrites
  <2> QED BY <2>4
<1> QED BY <1>1

-----------------------------------------------------------------------------
\* What is being decoded is where the iterator, or the extension, says it is.

\* The memory has these members of the struct at base.
StructIn(base, msg, cells) ==
  \A k \in 1 .. FieldCount(msg) : MemberCells(base, Structs[msg][k]) \subseteq cells

\* The field being decoded is the member that the iterator stands at, or the extension
\* that is being asked.
IsMember(f) ==
  /\ f.cur.field = FieldAt(f.msg, f.it.pos)
  /\ f.cur.pData = f.it.pData
  /\ f.cur.pSize = f.it.pSize \/ (f.cur.field.htype = "REPEATED" /\ f.cur.pSize = Local)

IsExtension(f) ==
  /\ f.ext \in DOMAIN Extensions[f.msg]
  /\ LET e == Extensions[f.msg][f.ext] IN
       f.cur.field = e.field /\ f.cur.pData = e.dest /\ f.cur.pSize = e.found

\* Where no extension is being asked.
Idle == {"loop", "find", "find_extension", "end", "count"}

Decoding == {"field", "packed"}

Placed(f, cells) ==
  /\ StructIn(f.base, f.msg, cells)
  /\ f.at \in Idle => f.ext = 0
  /\ f.at \in Decoding => IF f.ext = 0 THEN IsMember(f) ELSE IsExtension(f)
  /\ f.at = "packed" => f.cur.field.htype = "REPEATED" /\ f.cur.field.atype = "STATIC"

WInv ==
  /\ LinkedCells \subseteq DOMAIN mem
  /\ StructIn(0, input.msg, DOMAIN mem)
  /\ \A k \in DOMAIN stack : Placed(stack[k], DOMAIN mem)

\* The terminator has no value.
IsEmpty(field) == field.ltype = "VARINT" /\ field.data_size = 0

\* The field being decoded lies in what FieldCells says.
LEMMA FieldPlaced ==
  ASSUME NEW f, Typed(f), NEW cells, Placed(f, cells), LinkedCells \subseteq cells,
         f.at \in Decoding
  PROVE  LET c     == f.cur
             field == c.field
             T     == FieldCells(f)
         IN  /\ T \subseteq cells
             /\ field.data_size \in Nat /\ field.array_size \in Nat /\ field.ltype \in LTypes
             /\ c.pData \in Int
             /\ HasSize(field.ltype, field.data_size) \/ IsEmpty(field)
             /\ field.atype = "STATIC" /\ field.htype # "REPEATED" =>
                  c.pData .. c.pData + field.data_size - 1 \subseteq T
             /\ field.atype = "STATIC" /\ field.htype = "REPEATED" =>
                  c.pData .. c.pData + field.data_size * field.array_size - 1 \subseteq T
             /\ field.htype \in {"OPTIONAL", "ONEOF"} => c.pSize \in T
             /\ field.htype = "REPEATED" => c.pSize \in T \cup {Local}
             /\ HoldsStruct(field) /\ (field.htype # "REPEATED" \/ field.ptr # NULL) =>
                  field.ptr \in DOMAIN Structs /\ Holds(field.data_size, field.ptr)
             /\ HoldsStruct(field) /\ field.htype = "REPEATED" => IsEntry(f)
<1> DEFINE c     == f.cur
           field == c.field
           T     == FieldCells(f)
           msg   == f.msg
<1>0. /\ msg \in DOMAIN Structs /\ f.base \in Int /\ Stands(msg, f.base, f.it)
      /\ Structs[msg] \in Seq(Member) /\ FieldCount(msg) \in Nat
      /\ DOMAIN Structs[msg] = 1 .. FieldCount(msg)
      /\ StructIn(f.base, msg, cells)
  BY LayoutAssumption DEF Typed, WellLaidOut, FieldCount, Placed
<1>1. CASE f.ext # 0
  <2> DEFINE e == Extensions[msg][f.ext]
  <2>1. f.ext \in DOMAIN Extensions[msg] /\ field = e.field /\ c.pData = e.dest /\ c.pSize = e.found
    BY <1>1 DEF Placed, IsExtension
  <2>2. /\ IsExtensionField(e.field) /\ e.field \in pb_field_t
        /\ e.dest \in Int /\ e.field.data_size \in Nat
        /\ ExtensionCells(e) \subseteq LinkedCells
        /\ e.dest .. e.dest + e.field.data_size - 1 \subseteq ExtensionCells(e)
        /\ e.found \in ExtensionCells(e)
        /\ HoldsStruct(e.field) =>
             e.field.ptr \in DOMAIN Structs /\ Holds(e.field.data_size, e.field.ptr)
    BY <1>0, <2>1, OneExtension
  <2>3. T = ExtensionCells(e)
    <3>1. {f.ext} \cap DOMAIN Extensions[msg] = {f.ext}
      BY <2>1
    <3> QED BY <1>1, <3>1 DEF FieldCells
  <2> HIDE DEF e, c, T
  <2>4. /\ e.field.htype \in {"REQUIRED", "OPTIONAL"} /\ HasSize(e.field.ltype, e.field.data_size)
        /\ e.field.ltype \in LTypes /\ e.field.array_size \in Nat
    BY <2>2 DEF IsExtensionField, pb_field_t
  <2> QED BY <2>1, <2>2, <2>3, <2>4 DEF c, T
<1>2. CASE f.ext = 0 /\ FieldCount(msg) = 0
  <2>1. Structs[msg] = <<>> /\ FieldAt(msg, 1) = PB_LAST_FIELD
    BY <1>0, <1>2, NoMembers
  <2>2. f.it.pos = 1 /\ f.it.pData \in Int
    BY <1>0, <2>1 DEF Stands, IterConsistent, Iter, Iterators
  <2>3. field = PB_LAST_FIELD /\ c.pData \in Int
    BY <1>2, <2>1, <2>2 DEF Placed, IsMember
  <2>4. T = {}
    BY <1>2 DEF FieldCells
  <2> HIDE DEF c, T
  <2>5. /\ field.ltype = "VARINT" /\ field.data_size = 0 /\ field.array_size = 0
        /\ field.htype = "REQUIRED" /\ field.atype = "STATIC"
    BY <2>3 DEF PB_LAST_FIELD
  <2>6. c.pData .. c.pData + field.data_size - 1 = {}
    BY <2>3, <2>5
  <2> QED BY <2>3, <2>4, <2>5, <2>6 DEF IsEmpty, LTypes, Packable, HoldsStruct, c, T
<1>3. CASE f.ext = 0 /\ FieldCount(msg) # 0
  <2> DEFINE m == Structs[msg][f.it.pos]
  <2>1. /\ f.it.pos \in 1 .. FieldCount(msg) /\ f.it.pos \in DOMAIN Structs[msg]
        /\ m \in ToSet(Structs[msg])
        /\ m \in Member /\ HasSize(m.ltype, m.item)
        /\ FieldAt(msg, f.it.pos) = PB_FIELD(Structs[msg], f.it.pos)
        /\ f.it.pData \in Int
        /\ f.it.pData .. f.it.pData + pb_membersize(m) - 1 \subseteq MemberCells(f.base, m)
        /\ f.it.pSize \in MemberCells(f.base, m)
        /\ PointsToStruct(m)
        /\ ~IsStaticArray(m) => m.count = 1
    BY <1>0, <1>3, MemberPlaced
  <2>2. T = MemberCells(f.base, m)
    BY <1>3 DEF FieldCells
  <2>3. /\ field = PB_FIELD(Structs[msg], f.it.pos) /\ c.pData = f.it.pData
        /\ c.pSize = f.it.pSize \/ (field.htype = "REPEATED" /\ c.pSize = Local)
    BY <1>3, <2>1 DEF Placed, IsMember
  <2>4. T \subseteq cells
    BY <1>0, <2>1, <2>2 DEF StructIn
  <2>5. HoldsStruct(m) /\ m.htype = "REPEATED" => IsEntry(f)
    BY <1>3, <2>1 DEF IsEntry
  <2>6. HoldsStruct(m) /\ (m.htype # "REPEATED" \/ m.ptr # NULL) =>
          m.ptr \in DOMAIN Structs /\ Holds(m.item, m.ptr)
    BY <1>0, <2>1, NestedStruct
  <2> HIDE DEF m, c, T
  <2>7. /\ field.ltype = m.ltype /\ field.htype = m.htype /\ field.atype = m.atype
        /\ field.ptr = m.ptr /\ field.data_size = m.item
        /\ field.array_size = IF IsStaticArray(m) THEN m.count ELSE 0
    BY <2>3 DEF PB_FIELD, m
  <2>8. m.item \in Nat /\ m.count \in Nat /\ m.ltype \in LTypes
    BY <2>1 DEF Member
  <2>9. field.array_size \in Nat
    BY <2>7, <2>8
  <2>10. m.atype = "STATIC" /\ m.htype # "REPEATED" => pb_membersize(m) = m.item
    BY <2>1, <2>8 DEF pb_membersize, IsStaticArray
  <2>11. m.atype = "STATIC" /\ m.htype = "REPEATED" =>
           pb_membersize(m) = field.data_size * field.array_size
    BY <2>7, <2>8 DEF pb_membersize, IsStaticArray
  <2>12. field.atype = "STATIC" /\ field.htype # "REPEATED" =>
           c.pData .. c.pData + field.data_size - 1 \subseteq T
    BY <2>1, <2>2, <2>3, <2>7, <2>10
  <2>13. field.atype = "STATIC" /\ field.htype = "REPEATED" =>
           c.pData .. c.pData + field.data_size * field.array_size - 1 \subseteq T
    BY <2>1, <2>2, <2>3, <2>7, <2>11
  <2>14. HoldsStruct(field) <=> HoldsStruct(m)
    BY <2>7 DEF HoldsStruct
  <2>15. /\ field.htype \in {"OPTIONAL", "ONEOF"} => c.pSize \in T
         /\ field.htype = "REPEATED" => c.pSize \in T \cup {Local}
    BY <2>1, <2>2, <2>3
  <2> QED BY <2>1, <2>3, <2>4, <2>5, <2>6, <2>7, <2>8, <2>9, <2>12, <2>13, <2>14, <2>15 DEF c, T
<1> QED BY <1>1, <1>2, <1>3

\* The entries of an array lie in it.
LEMMA EntryWithin ==
  ASSUME NEW pData \in Int, NEW size \in Nat, NEW count \in Nat, NEW n \in 0 .. count - 1
  PROVE  /\ pData + size * n \in Int
         /\ pData + size * n .. pData + size * n + size - 1
              \subseteq pData .. pData + size * count - 1
<1>1. size * n \in Nat
  OBVIOUS
<1>2. PICK d \in Nat : count = n + 1 + d
  <2>1. count - n - 1 \in Nat /\ count = n + 1 + (count - n - 1)
    OBVIOUS
  <2> QED BY <2>1
<1>3. size * count = size * n + size + size * d
  BY <1>2
<1>4. size * d \in Nat
  OBVIOUS
<1>5. \A a, b, e \in Nat : a + b <= e =>
        pData + a .. pData + a + b - 1 \subseteq pData .. pData + e - 1
  OBVIOUS
<1>6. size * count \in Nat /\ size * n + size <= size * count
  BY <1>1, <1>3, <1>4
<1> QED BY <1>1, <1>5, <1>6

\* A value is written to as many bytes as the field has, whatever its length on the
\* line is.
LEMMA DecodeValueWrites ==
  ASSUME input.buffer \in Seq(Octet), NEW s, Inside(input.buffer, s), NEW addr \in Int,
         NEW field, field.data_size \in Nat, field.ltype \in LTypes,
         HasSize(field.ltype, field.data_size) \/ IsEmpty(field),
         NEW T, addr .. addr + field.data_size - 1 \subseteq T
  PROVE  OnlyTo(DecodeValue(field, s, addr).writes, T)
<1>0. OnlyTo(<<>>, T)
  BY NoWrite
<1>1. OnlyTo(DecodeVarint(field, s, addr).writes, T)
  <2>1. CASE field.data_size \in IntSizes
    <3>1. addr \in T
      BY <2>1 DEF IntSizes
    <3>2. DecodeVarint(field, s, addr).writes = <<>>
            \/ \E n : DecodeVarint(field, s, addr).writes = <<Write(addr, n)>>
      BY DEF DecodeVarint, Outcome
    <3> QED BY <1>0, <3>1, <3>2, OneWrite
  <2>2. CASE field.data_size \notin IntSizes
    BY <1>0, <2>2 DEF DecodeVarint, Outcome
  <2> QED BY <2>1, <2>2
<1>2. ASSUME NEW size \in Nat, size <= field.data_size
      PROVE  /\ \A t : OnlyTo(Copy(t, addr, size), T)
             /\ OnlyTo(DecodeFixed(s, addr, size).writes, T)
  <2>1. addr .. addr + size - 1 \subseteq T
    BY <1>2
  <2>2. \A t : OnlyTo(Copy(t, addr, size), T)
    BY <2>1, CopyWrites
  <2>3. DecodeFixed(s, addr, size).writes \in {<<>>, Copy(s, addr, size)}
    BY DEF DecodeFixed, Outcome
  <2> QED BY <1>0, <2>2, <2>3
<1>3. OnlyTo(DecodeBytes(field, s, addr).writes, T)
  <2> DEFINE size == pb_decode_varint32(input.buffer, s)
             n == size.value
             read == pb_read(size.stream, n)
             Bytes(at) == IF read.ok THEN Copy(size.stream, at, n) ELSE <<>>
             d == DecodeBytes(field, s, addr)
  <2>1. n \in Nat
    BY VarintReads
  <2>2. CASE ~size.ok \/ ~Fits(field, n)
    BY <1>0, <2>2 DEF DecodeBytes, Outcome
  <2>3. CASE size.ok /\ Fits(field, n) /\ field.ltype = "BYTES"
    <3>1. n + 2 <= field.data_size
      BY <2>3 DEF Fits, LengthSize
    <3>2. d.writes = <<Write(addr, n)>> \o Bytes(addr + 2)
      BY <2>3 DEF DecodeBytes, Outcome, LengthSize
    <3> HIDE DEF n, size
    <3>3. addr \in T /\ addr + 2 .. addr + 2 + n - 1 \subseteq T
      BY <2>1, <3>1
    <3>4. OnlyTo(<<Write(addr, n)>>, T)
      BY <3>3, OneWrite
    <3>5. OnlyTo(Bytes(addr + 2), T)
      BY <1>0, <2>1, <3>3, CopyWrites
    <3> HIDE DEF Bytes, d
    <3>6. OnlyTo(d.writes, T)
      BY <3>2, <3>4, <3>5, BothWrite
    <3> QED BY <3>6 DEF d
  <2>4. CASE size.ok /\ Fits(field, n) /\ field.ltype = "STRING"
    <3>1. n + 1 <= field.data_size
      BY <2>4 DEF Fits
    <3>2. d.writes = <<Write(addr + n, 0)>> \o Bytes(addr)
      BY <2>4 DEF DecodeBytes, Outcome
    <3> HIDE DEF n, size
    <3>3. addr + n \in T /\ addr .. addr + n - 1 \subseteq T
      BY <2>1, <3>1
    <3>4. OnlyTo(<<Write(addr + n, 0)>>, T)
      BY <3>3, OneWrite
    <3>5. OnlyTo(Bytes(addr), T)
      BY <1>0, <2>1, <3>3, CopyWrites
    <3> HIDE DEF Bytes, d
    <3>6. OnlyTo(d.writes, T)
      BY <3>2, <3>4, <3>5, BothWrite
    <3> QED BY <3>6 DEF d
  <2>5. CASE size.ok /\ Fits(field, n) /\ field.ltype \notin {"BYTES", "STRING"}
    <3>1. n \in {0, field.data_size}
      BY <2>5 DEF Fits
    <3>2. d.writes = IF n = 0 THEN Zeros(addr, field.data_size) ELSE Bytes(addr)
      BY <2>5 DEF DecodeBytes, Outcome
    <3> HIDE DEF n, size
    <3>3. addr .. addr + n - 1 \subseteq T
      BY <3>1
    <3>4. OnlyTo(Zeros(addr, field.data_size), T)
      BY ZerosWrite
    <3>5. OnlyTo(Bytes(addr), T)
      BY <1>0, <2>1, <3>3, CopyWrites
    <3> HIDE DEF Bytes, d
    <3>6. OnlyTo(d.writes, T)
      BY <3>2, <3>4, <3>5
    <3> QED BY <3>6 DEF d
  <2> QED BY <2>2, <2>3, <2>4, <2>5
<1>4. CASE field.ltype \in {"VARINT", "UVARINT", "SVARINT"}
  BY <1>1, <1>4 DEF DecodeValue
<1>5. CASE field.ltype = "FIXED32"
  <2>1. field.data_size = 4
    BY <1>5 DEF HasSize, IsEmpty
  <2> QED BY <1>2, <1>5, <2>1 DEF DecodeValue
<1>6. CASE field.ltype = "FIXED64"
  <2>1. field.data_size = 8
    BY <1>6 DEF HasSize, IsEmpty
  <2> QED BY <1>2, <1>6, <2>1 DEF DecodeValue
<1>7. CASE field.ltype \notin {"VARINT", "UVARINT", "SVARINT", "FIXED32", "FIXED64"}
  BY <1>3, <1>7 DEF DecodeValue
<1> QED BY <1>4, <1>5, <1>6, <1>7

-----------------------------------------------------------------------------
\* The steps that write nothing.

LEMMA TopPlaced ==
  ASSUME IInv, WInv, stack # <<>>
  PROVE  Placed(Top, DOMAIN mem) /\ DOMAIN Top = FrameFields
<1>1. IsSeq(stack) BY DEF IInv
<1>2. PICK S : stack \in Seq(S) BY <1>1 DEF IsSeq
<1>3. Len(stack) \in DOMAIN stack BY <1>2
<1> QED BY <1>3 DEF IInv, WInv, Top, IsFrame

\* A step of the innermost call that gives the memory no other addresses.
LEMMA TopStaysPlaced ==
  ASSUME IInv, WInv, stack # <<>>, NEW g, SetTop(g), Placed(g, DOMAIN mem),
         DOMAIN mem' = DOMAIN mem, UNCHANGED input
  PROVE  WInv'
<1>1. IsSeq(stack) BY DEF IInv
<1>2. stack' = [stack EXCEPT ![Len(stack)] = g] BY DEF SetTop
<1>3. DOMAIN stack' = DOMAIN stack /\ \A k \in DOMAIN stack' : stack'[k] \in {stack[k], g}
  BY <1>2
<1>4. \A k \in DOMAIN stack' : Placed(stack'[k], DOMAIN mem')
  BY <1>3 DEF WInv
<1> QED BY <1>4 DEF WInv

\* What a step makes of the innermost frame when no field is being decoded after it.
Free == {"extension", "skip", "callback", "done", "failed"}

Rests(g) ==
  /\ SetTop(g)
  /\ g.msg = Top.msg /\ g.base = Top.base
  /\ g.at \in Free \/ (g.at \in Idle /\ g.ext = 0)

LEMMA RestsPlaced ==
  ASSUME IInv, WInv, stack # <<>>, NEW g, Rests(g), DOMAIN mem' = DOMAIN mem, UNCHANGED input
  PROVE  WInv'
<1>1. Placed(Top, DOMAIN mem) BY TopPlaced
<1>2. Placed(g, DOMAIN mem) BY <1>1 DEF Placed, Rests, Free, Idle, Decoding
<1> QED BY <1>2, TopStaysPlaced DEF Rests

\* The steps that write nothing, but for the search of a field.
LEMMA QuietPlaced ==
  ASSUME IInv, WInv,
         \/ Round \/ SkipField \/ EndMessage \/ CountRequired \/ PointerField
         \/ NotAnExtension \/ PackedEnds \/ CallbackField \/ FindExtension
  PROVE  WInv'
<1>1. stack # <<>> /\ UNCHANGED <<input, mem>>
  BY DEF Round, SkipField, EndMessage, CountRequired, PointerField, NotAnExtension,
         PackedEnds, CallbackField, FindExtension, Asking, AtField, At
<1>2. Placed(Top, DOMAIN mem) /\ DOMAIN Top = FrameFields
  BY <1>1, TopPlaced
<1> SUFFICES \E g : Rests(g)
  BY <1>1, RestsPlaced
<1>3. Top.at \in Idle => Top.ext = 0
  BY <1>2 DEF Placed
<1>4. ASSUME NEW at \in Free \cup Idle, at \in Free \/ Top.ext = 0, SetTop([Top EXCEPT !.at = at])
      PROVE  \E g : Rests(g)
  BY <1>2, <1>4 DEF Rests, FrameFields
<1>5. CASE Round
  <2>1. Top.ext = 0
    BY <1>3, <1>5 DEF Round, At, Idle
  <2>2. \/ \E s, tag, wire_type, start : \E at \in {"find", "end", "failed"} :
             SetTop([Top EXCEPT !.s = s, !.tag = tag, !.wire_type = wire_type,
                                !.start = start, !.at = at])
        \/ SetTop([Top EXCEPT !.at = "end"])
    BY <1>5 DEF Round, ReadTag
  <2>3. ASSUME NEW s, NEW tag, NEW wire_type, NEW start, NEW at \in {"find", "end", "failed"},
               SetTop([Top EXCEPT !.s = s, !.tag = tag, !.wire_type = wire_type,
                                   !.start = start, !.at = at])
        PROVE  \E g : Rests(g)
    <3> DEFINE g == [Top EXCEPT !.s = s, !.tag = tag, !.wire_type = wire_type,
                                !.start = start, !.at = at]
    <3>1. g.msg = Top.msg /\ g.base = Top.base /\ g.at = at /\ g.ext = Top.ext
      BY <1>2 DEF FrameFields
    <3> HIDE DEF g
    <3>2. SetTop(g)
      BY <2>3 DEF g
    <3> QED BY <2>1, <3>1, <3>2 DEF Rests, Free, Idle
  <2>4. CASE SetTop([Top EXCEPT !.at = "end"])
    BY <1>4, <2>1, <2>4 DEF Free, Idle
  <2> QED BY ONLY <2>2, <2>3, <2>4, Zenon
<1>6. CASE SkipField
  <2>1. PICK s, at : /\ at \in {"loop", "failed"}
                     /\ SetTop([Top EXCEPT !.s = s, !.at = at, !.ext = 0])
    BY <1>6 DEF SkipField, Skipped, After
  <2>2. Rests([Top EXCEPT !.s = s, !.at = at, !.ext = 0])
    BY <1>2, <2>1 DEF Rests, FrameFields, Free, Idle
  <2> QED BY <2>2
<1>7. CASE EndMessage
  <2>1. Top.ext = 0
    BY <1>3, <1>7 DEF EndMessage, At, Idle
  <2>2. \E at \in {"count", "failed"} : SetTop([Top EXCEPT !.at = at])
    BY <1>7 DEF EndMessage
  <2> QED BY <1>4, <2>1, <2>2 DEF Free, Idle
<1>8. CASE PointerField \/ NotAnExtension
  <2>1. \E at \in {"skip", "failed"} : SetTop([Top EXCEPT !.at = at])
    BY <1>8 DEF PointerField, NotAnExtension, Fail
  <2> QED BY <1>4, <2>1 DEF Free
<1>9. CASE CountRequired
  <2>1. Top.ext = 0 /\ Top.at = "count"
    BY <1>3, <1>9 DEF CountRequired, At, Idle
  <2>2. \/ \E it : SetTop([Top EXCEPT !.it = it])
        \/ \E at \in {"done", "failed"} : SetTop([Top EXCEPT !.at = at])
    BY <1>9 DEF CountRequired
  <2>3. ASSUME NEW it, SetTop([Top EXCEPT !.it = it]) PROVE \E g : Rests(g)
    BY <1>2, <2>1, <2>3 DEF Rests, FrameFields, Idle
  <2> QED BY <1>4, <2>2, <2>3 DEF Free
<1>10. CASE PackedEnds
  <2>1. \/ SetTop([Top EXCEPT !.at = "failed"])
        \/ \E s : SetTop([Top EXCEPT !.s = s, !.at = "loop", !.ext = 0])
    BY <1>10 DEF PackedEnds, Fail
  <2>2. ASSUME NEW s, SetTop([Top EXCEPT !.s = s, !.at = "loop", !.ext = 0])
        PROVE  \E g : Rests(g)
    <3>1. Rests([Top EXCEPT !.s = s, !.at = "loop", !.ext = 0])
        BY <1>2, <2>2 DEF Rests, FrameFields, Idle
    <3> QED BY <3>1
  <2> QED BY <1>4, <2>1, <2>2 DEF Free
<1>11. CASE CallbackField
  <2>1. \/ SetTop([Top EXCEPT !.at = "skip"])
        \/ \E s, sub, raw : \E at \in {"callback", "failed"} :
             SetTop([Top EXCEPT !.s = s, !.sub = sub, !.raw = raw, !.at = at])
    BY <1>11 DEF CallbackField, ForCallback
  <2>2. ASSUME NEW s, NEW sub, NEW raw, NEW at \in {"callback", "failed"},
               SetTop([Top EXCEPT !.s = s, !.sub = sub, !.raw = raw, !.at = at])
        PROVE  \E g : Rests(g)
    <3>1. Rests([Top EXCEPT !.s = s, !.sub = sub, !.raw = raw, !.at = at])
        BY <1>2, <2>2 DEF Rests, FrameFields, Free
    <3> QED BY <3>1
  <2>3. CASE SetTop([Top EXCEPT !.at = "skip"])
    BY <1>4, <2>3 DEF Free
  <2> QED BY ONLY <2>1, <2>2, <2>3, Zenon
<1>12. CASE FindExtension
  <2>1. Top.ext = 0 /\ Top.at = "find_extension"
    BY <1>3, <1>12 DEF FindExtension, At, Idle
  <2>2. \/ \E start : \E at \in {"extension", "skip"} :
             SetTop([Top EXCEPT !.extension_range_start = start, !.ext = 1, !.at = at])
        \/ \E it : SetTop([Top EXCEPT !.it = it])
        \/ \E it : SetTop([[Top EXCEPT !.extension_range_start = NoExtensions, !.at = "skip"]
                             EXCEPT !.it = it])
    BY <1>12 DEF FindExtension, Step
  <2>3. ASSUME NEW start, NEW at \in {"extension", "skip"},
               SetTop([Top EXCEPT !.extension_range_start = start, !.ext = 1, !.at = at])
        PROVE  \E g : Rests(g)
    <3>1. Rests([Top EXCEPT !.extension_range_start = start, !.ext = 1, !.at = at])
        BY <1>2, <2>3 DEF Rests, FrameFields, Free
    <3> QED BY <3>1
  <2>4. ASSUME NEW it, SetTop([Top EXCEPT !.it = it]) PROVE \E g : Rests(g)
    BY <1>2, <2>1, <2>4 DEF Rests, FrameFields, Idle
  <2>5. ASSUME NEW it,
               SetTop([[Top EXCEPT !.extension_range_start = NoExtensions, !.at = "skip"]
                             EXCEPT !.it = it])
        PROVE  \E g : Rests(g)
    <3>1. Rests([[Top EXCEPT !.extension_range_start = NoExtensions, !.at = "skip"]
                   EXCEPT !.it = it])
        BY <1>2, <2>5 DEF Rests, FrameFields, Free
    <3> QED BY <3>1
  <2> QED BY ONLY <2>2, <2>3, <2>4, <2>5, Zenon
<1> QED BY <1>5, <1>6, <1>7, <1>8, <1>9, <1>10, <1>11, <1>12

\* The functions of the application.
LEMMA ForeignPlaced ==
  ASSUME IInv, WInv, NEW count, NEW ok, Foreign(count, ok)
  PROVE  WInv'
<1>1. stack # <<>> /\ UNCHANGED <<input, mem>>
  BY DEF Foreign, CallbackReturns, ForeignExtension, Asking, At
<1>2. Placed(Top, DOMAIN mem) /\ DOMAIN Top = FrameFields
  BY <1>1, TopPlaced
<1> SUFFICES \E g : Rests(g)
  BY <1>1, RestsPlaced
<1>3. CASE CallbackReturns(count, ok)
  <2>0. Top.at = "callback"
    BY <1>3 DEF CallbackReturns, At
  <2>1. \/ \E sub : \E at \in {"loop", "failed"} :
             SetTop([Top EXCEPT !.sub = sub, !.at = at, !.ext = 0])
        \/ \E sub : SetTop([Top EXCEPT !.sub = sub])
        \/ \E s, sub : SetTop([Top EXCEPT !.s = s, !.sub = sub, !.at = "loop", !.ext = 0])
    BY <1>3 DEF CallbackReturns, After
  <2>2. ASSUME NEW sub, NEW at \in {"loop", "failed"},
               SetTop([Top EXCEPT !.sub = sub, !.at = at, !.ext = 0])
        PROVE  \E g : Rests(g)
    <3>1. Rests([Top EXCEPT !.sub = sub, !.at = at, !.ext = 0])
        BY <1>2, <2>2 DEF Rests, FrameFields, Idle, Free
    <3> QED BY <3>1
  <2>3. ASSUME NEW sub, SetTop([Top EXCEPT !.sub = sub])
        PROVE  \E g : Rests(g)
    BY <1>2, <2>0, <2>3 DEF Rests, FrameFields, Free
  <2>4. ASSUME NEW s, NEW sub, SetTop([Top EXCEPT !.s = s, !.sub = sub, !.at = "loop", !.ext = 0])
        PROVE  \E g : Rests(g)
    <3>1. Rests([Top EXCEPT !.s = s, !.sub = sub, !.at = "loop", !.ext = 0])
        BY <1>2, <2>4 DEF Rests, FrameFields, Idle
    <3> QED BY <3>1
  <2> QED BY ONLY <2>1, <2>2, <2>3, <2>4, Zenon
<1>4. CASE ForeignExtension(count, ok)
  <2>1. PICK s, ext, at : /\ SetTop([Top EXCEPT !.s = s, !.ext = ext, !.at = at])
                          /\ at \in {"extension", "failed"} \/ (at = "loop" /\ ext = 0)
    BY <1>4 DEF ForeignExtension, After, Asking, At
  <2>2. Rests([Top EXCEPT !.s = s, !.ext = ext, !.at = at])
    BY <1>2, <2>1 DEF Rests, FrameFields, Idle, Free
  <2> QED BY <2>2
<1> QED BY <1>3, <1>4 DEF Foreign

\* A search that finds a member makes it the field to be decoded.
LEMMA FindPlaced ==
  ASSUME IInv, TInv, WInv, Find PROVE WInv'
<1>1. stack # <<>> /\ Top.at = "find" /\ UNCHANGED <<input, mem>>
  BY DEF Find, At
<1>2. Placed(Top, DOMAIN mem) /\ DOMAIN Top = FrameFields
  BY <1>1, TopPlaced
<1>3. Top.ext = 0
  BY <1>1, <1>2 DEF Placed, Idle
<1> DEFINE field == FieldAt(Top.msg, Top.it.pos)
           fixed == IsFixedCount(field, Top.it)
           size  == IF fixed THEN Local ELSE Top.it.pSize
           cur   == [field |-> field, pData |-> Top.it.pData, pSize |-> size]
<1>4. \/ SetTop([Top EXCEPT !.at = "failed"])
      \/ \E a, b, seen, found : SetTop([Top EXCEPT !.fixed_count_field = a, !.fixed_count_size = b,
                               !.fields_seen = seen, !.found = found, !.at = "field",
                               !.cur = cur])
      \/ \E it : SetTop([Top EXCEPT !.it = it])
      \/ \E it, at : /\ at \in {"find_extension", "skip"}
                     /\ SetTop([[Top EXCEPT !.at = at] EXCEPT !.it = it])
  BY Zenon DEF Find, KnownField, Fail, Step
<1>5. CASE SetTop([Top EXCEPT !.at = "failed"])
  <2>1. Rests([Top EXCEPT !.at = "failed"])
    BY <1>2, <1>5 DEF Rests, FrameFields, Free
  <2> QED BY <1>1, <2>1, RestsPlaced
<1>6. ASSUME NEW it, SetTop([Top EXCEPT !.it = it]) PROVE WInv'
  <2>1. Rests([Top EXCEPT !.it = it])
    BY <1>1, <1>2, <1>3, <1>6 DEF Rests, FrameFields, Idle
  <2> QED BY <1>1, <2>1, RestsPlaced
<1>7. ASSUME NEW it, NEW at, at \in {"find_extension", "skip"},
             SetTop([[Top EXCEPT !.at = at] EXCEPT !.it = it])
      PROVE  WInv'
  <2>1. Rests([[Top EXCEPT !.at = at] EXCEPT !.it = it])
    BY <1>2, <1>3, <1>7 DEF Rests, FrameFields, Idle, Free
  <2> QED BY <1>1, <2>1, RestsPlaced
<1>8. ASSUME NEW a, NEW b, NEW seen, NEW found,
             SetTop([Top EXCEPT !.fixed_count_field = a, !.fixed_count_size = b,
                               !.fields_seen = seen, !.found = found, !.at = "field",
                               !.cur = cur])
      PROVE  WInv'
  <2> DEFINE g == [Top EXCEPT !.fixed_count_field = a, !.fixed_count_size = b,
                               !.fields_seen = seen, !.found = found, !.at = "field",
                               !.cur = cur]
  <2>1. cur.pSize = Top.it.pSize \/ (field.htype = "REPEATED" /\ cur.pSize = Local)
    BY DEF IsFixedCount
  <2>2. cur.field = field /\ cur.pData = Top.it.pData
    OBVIOUS
  <2> HIDE DEF cur, field
  <2>3. /\ g.msg = Top.msg /\ g.base = Top.base /\ g.it = Top.it /\ g.ext = Top.ext
        /\ g.at = "field" /\ g.cur = cur
    BY <1>2 DEF FrameFields
  <2>4. SetTop(g)
    BY <1>8
  <2> HIDE DEF g
  <2>5. IsMember(g)
    BY <2>1, <2>2, <2>3 DEF IsMember, field
  <2>6. Placed(g, DOMAIN mem)
    BY <1>2, <1>3, <2>3, <2>5 DEF Placed, Idle
  <2> QED BY <1>1, <2>4, <2>6, TopStaysPlaced
<1> QED BY ONLY <1>4, <1>5, <1>6, <1>7, <1>8, Zenon

\* A packed array is of the field that was found.
LEMMA PackedArrayPlaced ==
  ASSUME IInv, WInv, PackedArray PROVE WInv'
<1>1. /\ stack # <<>> /\ Top.at = "field" /\ UNCHANGED <<input, mem>>
      /\ Top.cur.field.htype = "REPEATED" /\ Top.cur.field.atype = "STATIC"
  BY DEF PackedArray, AtField, At
<1>2. Placed(Top, DOMAIN mem) /\ DOMAIN Top = FrameFields
  BY <1>1, TopPlaced
<1>3. PICK s, sub, at :
        /\ at \in {"packed", "failed"}
        /\ SetTop([Top EXCEPT !.s = s, !.sub = sub, !.at = at])
  BY DEF PackedArray
<1> DEFINE g == [Top EXCEPT !.s = s, !.sub = sub, !.at = at]
<1>4. /\ g.msg = Top.msg /\ g.base = Top.base /\ g.it = Top.it /\ g.ext = Top.ext
      /\ g.at = at /\ g.cur = Top.cur
  BY <1>2 DEF FrameFields
<1>5. SetTop(g)
  BY <1>3
<1> HIDE DEF g
<1>6. Placed(g, DOMAIN mem)
  BY <1>1, <1>2, <1>3, <1>4 DEF Placed, Idle, Decoding, IsMember, IsExtension
<1> QED BY <1>1, <1>5, <1>6, TopStaysPlaced

\* The frame below goes on, and is not decoding.
LEMMA ReturnPlaced ==
  ASSUME IInv, WInv, Return PROVE WInv'
<1>1. stack # <<>> /\ UNCHANGED <<input, mem>>
  BY DEF Return
<1>2. CASE stack' = <<>>
  BY <1>1, <1>2 DEF WInv
<1>3. CASE Len(stack) > 1 /\ stack' # <<>>
  <2> DEFINE below == stack[Len(stack) - 1]
             at    == After(Top.at = "done")
             s     == pb_close_string_substream(below.s, Top.s)
             g     == [below EXCEPT !.s = s, !.at = at, !.ext = 0]
  <2>1. stack' = Append(SubSeq(stack, 1, Len(stack) - 2), g)
    BY <1>3 DEF Return
  <2>2. IsSeq(stack) BY DEF IInv
  <2>3. LET t == Append(SubSeq(stack, 1, Len(stack) - 2), g)
            m == Len(stack) - 1
        IN  /\ IsSeq(t)
            /\ Len(t) = m /\ m \in Nat \ {0} /\ Len(stack) = m + 1
            /\ \A k \in 1 .. m - 1 : t[k] = stack[k]
            /\ t[m] = g
            /\ DOMAIN stack = 1 .. m + 1 /\ DOMAIN t = 1 .. m
    <3> HIDE DEF g
    <3> QED BY ONLY <1>3, <2>2, Popped, Zenon
  <2> DEFINE m == Len(stack) - 1
  <2>4. /\ m \in Nat \ {0}
        /\ \A k \in 1 .. m - 1 : stack'[k] = stack[k]
        /\ stack'[m] = g
        /\ DOMAIN stack = 1 .. m + 1 /\ DOMAIN stack' = 1 .. m
    <3> HIDE DEF g
    <3> QED BY ONLY <2>1, <2>3, Zenon DEF m
  <2>5. below = stack[m]
    OBVIOUS
  <2>6. at \in {"loop", "failed"}
    BY DEF After
  <2> HIDE DEF m, below, s, at
  <2>7. Placed(below, DOMAIN mem) /\ DOMAIN below = FrameFields
    BY <2>4, <2>5 DEF WInv, IInv, IsFrame
  <2>8. g.msg = below.msg /\ g.base = below.base /\ g.at = at /\ g.ext = 0
    BY <2>7 DEF FrameFields
  <2> HIDE DEF g
  <2>9. Placed(g, DOMAIN mem)
    BY <2>6, <2>7, <2>8 DEF Placed, Decoding
  <2>10. \A k \in DOMAIN stack' : Placed(stack'[k], DOMAIN mem')
    <3> TAKE k \in DOMAIN stack'
    <3>1. k = m \/ (k \in 1 .. m - 1 /\ k \in DOMAIN stack)
      BY <2>4
    <3> QED BY <1>1, <2>4, <2>9, <3>1 DEF WInv
  <2> QED BY <1>1, <2>10 DEF WInv
<1> QED BY <1>2, <1>3 DEF Return

-----------------------------------------------------------------------------
\* Steps that decode a value or a submessage.

\* What WritesInField says of a step.
WritesWithin ==
  /\ DOMAIN mem' = DOMAIN mem
  /\ \A a \in DOMAIN mem : mem'[a] # mem[a] => a \in Writable

LEMMA FieldsWritable ==
  ASSUME WInv, stack # <<>>
  PROVE  /\ FieldCells(Top) \subseteq Writable
         /\ IsEntry(Top) => LinkedCells \subseteq Writable
         /\ FieldCells(Top) \subseteq DOMAIN mem => Writable \subseteq DOMAIN mem
  BY DEF Writable, WInv

LEMMA StoresWithin ==
  ASSUME NEW w, OnlyTo(w, Writable), Writable \subseteq DOMAIN mem, Store(w)
  PROVE  WritesWithin
<1> DEFINE T == Writable
<1>1. OnlyTo(w, T) /\ T \subseteq DOMAIN mem
  OBVIOUS
<1> HIDE DEF T
<1>2. DOMAIN mem' = DOMAIN mem /\ \A a \in DOMAIN mem : mem'[a] # mem[a] => a \in T
  BY <1>1, Stored
<1> QED BY <1>2 DEF T, WritesWithin

\* The innermost frame, perhaps with another count.
Resembles(f) ==
  /\ SameAs(f)
  /\ f.msg = Top.msg /\ f.base = Top.base /\ f.it = Top.it /\ f.cur = Top.cur /\ f.ext = Top.ext

LEMMA CountedResembles ==
  ASSUME IInv, stack # <<>>, NEW n PROVE Resembles(Top) /\ Resembles(Counted(Top, n))
<1>1. DOMAIN Top = FrameFields /\ SameAs(Top) /\ SameAs(Counted(Top, n))
  BY TopFrame, CountedSame DEF IsFrame
<1>2. [Top EXCEPT !.fixed_count_size = n].msg = Top.msg
      /\ [Top EXCEPT !.fixed_count_size = n].base = Top.base
      /\ [Top EXCEPT !.fixed_count_size = n].it = Top.it
      /\ [Top EXCEPT !.fixed_count_size = n].cur = Top.cur
      /\ [Top EXCEPT !.fixed_count_size = n].ext = Top.ext
  BY <1>1 DEF FrameFields
<1> QED BY <1>1, <1>2 DEF Resembles, Counted

LEMMA ResemblesPlaced ==
  ASSUME NEW f, Resembles(f), NEW cells, Placed(Top, cells)
  PROVE  Placed(f, cells)
  BY DEF Resembles, SameAs, Placed, IsMember, IsExtension

\* The next struct on the stack, with the one that has it.
LEMMA PushPlaced ==
  ASSUME IInv, WInv, stack # <<>>, NEW g, Placed(g, DOMAIN mem), NEW h, Placed(h, DOMAIN mem),
         stack' = Append([stack EXCEPT ![Len(stack)] = g], h),
         DOMAIN mem' = DOMAIN mem, UNCHANGED input
  PROVE  WInv'
<1> DEFINE t == [stack EXCEPT ![Len(stack)] = g]
<1>1. IsSeq(stack) BY DEF IInv
<1>2. IsSeq(t)
  <2>1. stack # <<>> OBVIOUS
  <2> QED BY ONLY <1>1, <2>1, Replaced, Zenon DEF t
<1>3. DOMAIN t = DOMAIN stack /\ \A k \in DOMAIN t : t[k] \in {stack[k], g}
  OBVIOUS
<1>4. \A k \in DOMAIN t : Placed(t[k], DOMAIN mem)
  BY <1>3 DEF WInv
<1> HIDE DEF t
<1>5. LET v == Append(t, h) IN
        /\ IsSeq(v)
        /\ Len(v) = Len(t) + 1 /\ Len(t) \in Nat
        /\ \A k \in 1 .. Len(t) : v[k] = t[k]
        /\ v[Len(t) + 1] = h
        /\ DOMAIN t = 1 .. Len(t) /\ DOMAIN v = 1 .. Len(t) + 1
  BY ONLY <1>2, Pushed, Zenon
<1> DEFINE n == Len(t)
           u == Append(t, h)
<1>6. stack' = u
  BY DEF t
<1>7. /\ \A j \in 1 .. n : u[j] = t[j]
      /\ u[n + 1] = h
      /\ DOMAIN t = 1 .. n /\ DOMAIN u = 1 .. n + 1 /\ n \in Nat
  BY ONLY <1>5, Zenon DEF n, u
<1> HIDE DEF n, u
<1>8. ASSUME NEW k \in DOMAIN stack' PROVE Placed(stack'[k], DOMAIN mem')
  <2>1. k \in 1 .. n \/ k = n + 1
    BY <1>6, <1>7
  <2> QED BY <1>4, <1>6, <1>7, <2>1
<1> QED BY <1>8 DEF WInv

\* A value, or a submessage, at an address in the field.
LEMMA DecodeWrites ==
  ASSUME IInv, TInv, WInv, stack # <<>>, Top.at = "field", Top.cur.field.atype = "STATIC",
         NEW f, Resembles(f), NEW addr \in Int,
         addr .. addr + Top.cur.field.data_size - 1 \subseteq FieldCells(Top),
         NEW writes, OnlyTo(writes, Writable), Decode(f, addr, writes), UNCHANGED input
  PROVE  WritesWithin /\ WInv'
<1> DEFINE field == Top.cur.field
           T     == FieldCells(Top)
<1>1. Typed(Top) /\ Placed(Top, DOMAIN mem) /\ DOMAIN Top = FrameFields
  BY TopTyped, TopPlaced
<1>2. LinkedCells \subseteq DOMAIN mem
  BY DEF WInv
<1>3. /\ T \subseteq DOMAIN mem
      /\ field.data_size \in Nat /\ field.ltype \in LTypes
      /\ HasSize(field.ltype, field.data_size) \/ IsEmpty(field)
      /\ HoldsStruct(field) /\ (field.htype # "REPEATED" \/ field.ptr # NULL) =>
           field.ptr \in DOMAIN Structs /\ Holds(field.data_size, field.ptr)
      /\ HoldsStruct(field) /\ field.htype = "REPEATED" => IsEntry(Top)
  BY <1>1, <1>2, FieldPlaced DEF Decoding
<1>4. /\ T \subseteq Writable /\ (IsEntry(Top) => LinkedCells \subseteq Writable)
      /\ Writable \subseteq DOMAIN mem
  BY <1>3, FieldsWritable
<1>5. /\ DOMAIN f = FrameFields /\ f.cur = Top.cur /\ f.s = Top.s /\ f.at = "field"
      /\ f.msg = Top.msg /\ f.base = Top.base /\ f.it = Top.it /\ f.ext = Top.ext
  BY DEF Resembles, SameAs
<1>6. addr .. addr + field.data_size - 1 \subseteq T
  OBVIOUS
<1>7. Placed(f, DOMAIN mem)
  BY <1>1, ResemblesPlaced
<1> HIDE DEF field, T
<1>8. ASSUME field.ltype = "SUBMESSAGE", OpenSubmessage(f, addr, writes)
      PROVE  WritesWithin /\ WInv'
  <2> DEFINE msg  == field.ptr
             open == pb_make_string_substream(input.buffer, f.s)
             g    == [f EXCEPT !.s = open.stream]
             ok   == open.ok /\ msg # NULL
             init == IF ok /\ field.htype = "REPEATED" THEN Defaults[msg][addr][FALSE] ELSE <<>>
             h    == NewFrame(msg, addr, open.substream)
  <2>1. HoldsStruct(field)
    BY <1>8 DEF HoldsStruct, field
  <2>2. ok => msg \in DOMAIN Structs /\ Holds(field.data_size, msg)
    BY <1>3, <2>1
  <2>3. /\ Store(writes \o init)
        /\ IF ok THEN stack' = Append([stack EXCEPT ![Len(stack)] = g], h)
           ELSE SetTop([g EXCEPT !.at = "failed"])
    BY <1>5, <1>8 DEF OpenSubmessage, Fail, field
  <2> HIDE DEF open
  <2>4. OnlyTo(init, Writable)
    <3>1. CASE ok /\ field.htype = "REPEATED"
      <4>1. OnlyTo(Defaults[msg][addr][FALSE], InitCells(addr, msg, FALSE))
        BY <2>2, <3>1, DefaultsWrite DEF DefaultWrites
      <4>2. StructCells(addr, msg) \subseteq T
        BY <1>3, <1>6, <2>2, <3>1, StructCellsWithin
      <4>3. InitCells(addr, msg, FALSE) \subseteq Writable
        BY <1>3, <1>4, <2>1, <3>1, <4>2 DEF InitCells
      <4>4. OnlyTo(Defaults[msg][addr][FALSE], Writable)
        BY ONLY <4>1, <4>3, MoreAddresses, Zenon
      <4>5. init = Defaults[msg][addr][FALSE]
        BY <3>1
      <4> QED BY ONLY <4>4, <4>5, Zenon
    <3>2. CASE ~(ok /\ field.htype = "REPEATED")
      BY <3>2, NoWrite
    <3> QED BY <3>1, <3>2
  <2> HIDE DEF init
  <2>5. OnlyTo(writes \o init, Writable)
    BY <2>4, BothWrite
  <2>6. WritesWithin
    BY <1>4, <2>3, <2>5, StoresWithin
  <2>7. DOMAIN mem' = DOMAIN mem
    BY <2>6 DEF WritesWithin
  <2>8. /\ DOMAIN g = FrameFields /\ g.cur = f.cur /\ g.at = f.at
        /\ g.msg = f.msg /\ g.base = f.base /\ g.it = f.it /\ g.ext = f.ext
    BY <1>5 DEF FrameFields
  <2> HIDE DEF g
  <2>9. Placed(g, DOMAIN mem)
    BY <1>7, <2>8 DEF Placed, IsMember, IsExtension
  <2>10. CASE ok
    <3>1. h.msg = msg /\ h.base = addr /\ h.at = "loop" /\ h.ext = 0
      BY DEF NewFrame
    <3> HIDE DEF h
    <3>2. StructIn(addr, msg, DOMAIN mem)
      <4>1. \A k \in 1 .. FieldCount(msg) :
              MemberCells(addr, Structs[msg][k]) \subseteq addr .. addr + field.data_size - 1
        BY <1>3, <2>2, <2>10, StructWithin
      <4> QED BY <1>3, <1>6, <4>1 DEF StructIn
    <3>3. Placed(h, DOMAIN mem)
      BY <3>1, <3>2 DEF Placed, Decoding
    <3>4. stack' = Append([stack EXCEPT ![Len(stack)] = g], h)
      BY <2>3, <2>10
    <3> QED BY <2>6, <2>7, <2>9, <3>3, <3>4, PushPlaced
  <2>11. CASE ~ok
    <3> DEFINE failed == [g EXCEPT !.at = "failed"]
    <3>1. failed.at = "failed" /\ failed.msg = g.msg /\ failed.base = g.base
      BY <2>8 DEF FrameFields
    <3>2. SetTop(failed)
      BY <2>3, <2>11
    <3> HIDE DEF failed
    <3>3. Rests(failed)
      BY <1>5, <2>8, <3>1, <3>2 DEF Rests, Free
    <3> QED BY <2>6, <2>7, <3>3, RestsPlaced
  <2> QED BY <2>10, <2>11
<1>9. ASSUME DecodeTo(f, addr, writes)
      PROVE  WritesWithin /\ WInv'
  <2> DEFINE value == DecodeValue(field, Top.s, addr)
             at    == After(value.ok)
             g     == [f EXCEPT !.s = value.stream, !.at = at, !.ext = 0]
  <2>1. Store(writes \o value.writes) /\ SetTop(g)
    BY <1>5, <1>9 DEF DecodeTo, field
  <2>2. input.buffer \in Seq(Octet) /\ Inside(input.buffer, Top.s)
    BY TopFrame DEF Plain
  <2>3. OnlyTo(value.writes, T)
    BY <1>3, <1>6, <2>2, DecodeValueWrites
  <2> HIDE DEF value
  <2>4. OnlyTo(value.writes, Writable)
    BY <1>4, <2>3, MoreAddresses
  <2>5. OnlyTo(writes \o value.writes, Writable)
    BY <2>4, BothWrite
  <2>6. WritesWithin
    BY <1>4, <2>1, <2>5, StoresWithin
  <2>7. DOMAIN mem' = DOMAIN mem
    BY <2>6 DEF WritesWithin
  <2>8. at \in {"loop", "failed"}
    BY DEF After
  <2> HIDE DEF at
  <2>9. g.msg = Top.msg /\ g.base = Top.base /\ g.at = at /\ g.ext = 0
    BY <1>5 DEF FrameFields
  <2> HIDE DEF g
  <2>10. Rests(g)
    BY <2>1, <2>8, <2>9 DEF Rests, Free, Idle
  <2> QED BY <2>6, <2>7, <2>10, RestsPlaced
<1> QED BY <1>5, <1>8, <1>9 DEF Decode, field

-----------------------------------------------------------------------------
\* Each action writes in the field only.

LEMMA SingularFieldWrites ==
  ASSUME IInv, TInv, WInv, SingularField PROVE WritesWithin /\ WInv'
<1> DEFINE cur   == Top.cur
           field == cur.field
           T     == FieldCells(Top)
<1>1. /\ stack # <<>> /\ Top.at = "field" /\ UNCHANGED input
      /\ field.atype = "STATIC" /\ field.htype # "REPEATED"
      /\ Decode(Top, cur.pData, Presence(cur) \o Reset(cur))
  BY DEF SingularField, AtField, At
<1>2. Typed(Top) /\ Placed(Top, DOMAIN mem) /\ Resembles(Top)
  BY <1>1, TopTyped, TopPlaced, CountedResembles
<1>3. LinkedCells \subseteq DOMAIN mem
  BY DEF WInv
<1>4. /\ T \subseteq DOMAIN mem
      /\ field.data_size \in Nat /\ cur.pData \in Int
      /\ cur.pData .. cur.pData + field.data_size - 1 \subseteq T
      /\ field.htype \in {"OPTIONAL", "ONEOF"} => cur.pSize \in T
      /\ HoldsStruct(field) => field.ptr \in DOMAIN Structs /\ Holds(field.data_size, field.ptr)
  BY <1>1, <1>2, <1>3, FieldPlaced DEF Decoding
<1>5. T \subseteq Writable
  BY <1>1, FieldsWritable
<1> HIDE DEF T
<1>6. OnlyTo(Presence(cur), T)
  <2>1. CASE field.htype \in {"OPTIONAL", "ONEOF"}
    <3>1. \A v : OnlyTo(<<Write(cur.pSize, v)>>, T)
      BY <1>4, <2>1, OneWrite
    <3>2. Presence(cur) = <<>> \/ \E v : Presence(cur) = <<Write(cur.pSize, v)>>
      BY DEF Presence
    <3> QED BY <3>1, <3>2, NoWrite
  <2>2. CASE field.htype \notin {"OPTIONAL", "ONEOF"}
    BY <2>2, NoWrite DEF Presence
  <2> QED BY <2>1, <2>2
<1>7. OnlyTo(Reset(cur), T)
  <2>1. CASE field.htype = "ONEOF" /\ field.ltype = "SUBMESSAGE"
    <3> DEFINE init == Defaults[field.ptr][cur.pData][TRUE]
    <3>1. field.ptr \in DOMAIN Structs /\ Holds(field.data_size, field.ptr)
      BY <1>1, <1>4, <2>1 DEF HoldsStruct
    <3>2. OnlyTo(init, InitCells(cur.pData, field.ptr, TRUE))
      BY <1>4, <3>1, DefaultsWrite DEF DefaultWrites
    <3>3. StructCells(cur.pData, field.ptr) \subseteq T
      BY <1>4, <3>1, StructCellsWithin
    <3>4. InitCells(cur.pData, field.ptr, TRUE) \subseteq T
      BY <3>3 DEF InitCells
    <3> HIDE DEF init
    <3>5. OnlyTo(init, T)
      BY ONLY <3>2, <3>4, MoreAddresses, Zenon
    <3>6. OnlyTo(Zeros(cur.pData, field.data_size), T)
      BY <1>4, ZerosWrite
    <3>7. Reset(cur) = Zeros(cur.pData, field.data_size) \o init
      BY <2>1 DEF Reset, init
    <3> QED BY <3>5, <3>6, <3>7, BothWrite
  <2>2. CASE ~(field.htype = "ONEOF" /\ field.ltype = "SUBMESSAGE")
    BY <2>2, NoWrite DEF Reset
  <2> QED BY <2>1, <2>2
<1>8. OnlyTo(Presence(cur) \o Reset(cur), Writable)
  <2>1. OnlyTo(Presence(cur) \o Reset(cur), T)
    BY <1>6, <1>7, BothWrite
  <2> QED BY <1>5, <2>1, MoreAddresses
<1> QED BY <1>1, <1>2, <1>4, <1>8, DecodeWrites DEF T

\* An array that is not full has room for an entry, and its count has a place.
LEMMA ArrayPlaced ==
  ASSUME IInv, TInv, WInv, stack # <<>>, Top.at \in Decoding,
         Top.cur.field.atype = "STATIC", Top.cur.field.htype = "REPEATED"
  PROVE  /\ \A n : OnlyTo(CountWrite(Top, n), FieldCells(Top))
         /\ ~ArrayFull(Top) =>
              /\ EntryAddress(Top) \in Int
              /\ EntryAddress(Top) .. EntryAddress(Top) + Top.cur.field.data_size - 1
                   \subseteq FieldCells(Top)
         /\ FieldCells(Top) \subseteq DOMAIN mem
         /\ Top.cur.field.data_size \in Nat /\ Top.cur.field.ltype \in LTypes
         /\ \/ HasSize(Top.cur.field.ltype, Top.cur.field.data_size)
            \/ IsEmpty(Top.cur.field)
<1> DEFINE cur   == Top.cur
           field == cur.field
           T     == FieldCells(Top)
<1>1. Typed(Top) /\ Placed(Top, DOMAIN mem)
  BY TopTyped, TopPlaced
<1>2. LinkedCells \subseteq DOMAIN mem
  BY DEF WInv
<1>3. /\ T \subseteq DOMAIN mem
      /\ field.data_size \in Nat /\ field.array_size \in Nat /\ cur.pData \in Int
      /\ field.ltype \in LTypes
      /\ HasSize(field.ltype, field.data_size) \/ IsEmpty(field)
      /\ cur.pData .. cur.pData + field.data_size * field.array_size - 1 \subseteq T
      /\ cur.pSize \in T \cup {Local}
  BY <1>1, <1>2, FieldPlaced
<1> HIDE DEF T
<1>4. ASSUME NEW n PROVE OnlyTo(CountWrite(Top, n), T)
  <2>1. CASE cur.pSize = Local
    BY <2>1, NoWrite DEF CountWrite
  <2>2. CASE cur.pSize # Local
    <3>1. OnlyTo(<<Write(cur.pSize, n)>>, T)
      BY <1>3, <2>2, OneWrite
    <3> QED BY <2>2, <3>1 DEF CountWrite
  <2> QED BY <2>1, <2>2
<1>5. ASSUME ~ArrayFull(Top)
      PROVE  /\ EntryAddress(Top) \in Int
             /\ EntryAddress(Top) .. EntryAddress(Top) + field.data_size - 1 \subseteq T
  <2> DEFINE n == ArrayCount(Top)
             addr == cur.pData + field.data_size * n
  <2>1. n \in 0 .. field.array_size - 1
    BY <1>5 DEF ArrayFull
  <2>2. EntryAddress(Top) = addr
    BY DEF EntryAddress
  <2> HIDE DEF n, cur
  <2>3. /\ addr \in Int
        /\ addr .. addr + field.data_size - 1
             \subseteq cur.pData .. cur.pData + field.data_size * field.array_size - 1
    BY <1>3, <2>1, EntryWithin
  <2> HIDE DEF addr
  <2> QED BY <1>3, <2>2, <2>3
<1> QED BY <1>3, <1>4, <1>5 DEF T

LEMMA RepeatedEntryWrites ==
  ASSUME IInv, TInv, WInv, RepeatedEntry PROVE WritesWithin /\ WInv'
<1> DEFINE n == ArrayCount(Top) + 1
           g == Counted(Top, n)
           w == CountWrite(Top, n)
<1>1. /\ stack # <<>> /\ Top.at = "field" /\ UNCHANGED input
      /\ Top.cur.field.atype = "STATIC" /\ Top.cur.field.htype = "REPEATED"
      /\ IF ArrayFull(Top) THEN Store(w) /\ SetTop([g EXCEPT !.at = "failed"])
         ELSE Decode(g, EntryAddress(Top), w)
  BY DEF RepeatedEntry, AtField, At, Fail
<1>2. Resembles(g)
  BY <1>1, CountedResembles
<1>3. /\ OnlyTo(w, FieldCells(Top))
      /\ ~ArrayFull(Top) =>
              /\ EntryAddress(Top) \in Int
              /\ EntryAddress(Top) .. EntryAddress(Top) + Top.cur.field.data_size - 1
                   \subseteq FieldCells(Top)
      /\ FieldCells(Top) \subseteq DOMAIN mem
  BY <1>1, ArrayPlaced DEF Decoding
<1> HIDE DEF n, g, w
<1>4. FieldCells(Top) \subseteq Writable /\ Writable \subseteq DOMAIN mem
  BY <1>1, <1>3, FieldsWritable
<1>5. OnlyTo(w, Writable)
  BY <1>3, <1>4, MoreAddresses
<1>6. CASE ArrayFull(Top)
  <2> DEFINE failed == [g EXCEPT !.at = "failed"]
  <2>1. WritesWithin
    BY <1>1, <1>4, <1>5, <1>6, StoresWithin
  <2>2. failed.at = "failed" /\ failed.msg = g.msg /\ failed.base = g.base
    BY <1>2 DEF Resembles, SameAs, FrameFields
  <2>3. SetTop(failed)
    BY <1>1, <1>6
  <2> HIDE DEF failed
  <2>4. Rests(failed)
    BY <1>2, <2>2, <2>3 DEF Rests, Free, Resembles
  <2> QED BY <1>1, <2>1, <2>4, RestsPlaced DEF WritesWithin
<1>7. CASE ~ArrayFull(Top)
  BY <1>1, <1>2, <1>3, <1>5, <1>7, DecodeWrites
<1> QED BY <1>6, <1>7

LEMMA PackedEntryWrites ==
  ASSUME IInv, TInv, WInv, PackedEntry PROVE WritesWithin /\ WInv'
<1> DEFINE value == DecodeValue(Top.cur.field, Top.sub, EntryAddress(Top))
           n     == ArrayCount(Top) + 1
           g     == Counted(Top, n)
           w     == CountWrite(Top, n)
           next  == [g EXCEPT !.sub = value.stream]
           t     == IF value.stream.left # 0 THEN Top.s
                    ELSE pb_close_string_substream(Top.s, value.stream)
           last  == [[Top EXCEPT !.sub = value.stream, !.s = t] EXCEPT !.at = "failed"]
<1>1. /\ stack # <<>> /\ Top.at = "packed" /\ UNCHANGED input /\ ~ArrayFull(Top)
      /\ \/ Store(value.writes \o w) /\ SetTop(next)
         \/ Store(value.writes) /\ SetTop(last)
  BY DEF PackedEntry, At, Fail
<1>2. /\ Placed(Top, DOMAIN mem) /\ DOMAIN Top = FrameFields /\ Resembles(g)
  BY <1>1, TopPlaced, CountedResembles
<1>3. Top.cur.field.atype = "STATIC" /\ Top.cur.field.htype = "REPEATED"
  BY <1>1, <1>2 DEF Placed
<1>4. /\ OnlyTo(w, FieldCells(Top))
      /\ EntryAddress(Top) \in Int
      /\ EntryAddress(Top) .. EntryAddress(Top) + Top.cur.field.data_size - 1
           \subseteq FieldCells(Top)
      /\ FieldCells(Top) \subseteq DOMAIN mem
      /\ Top.cur.field.data_size \in Nat /\ Top.cur.field.ltype \in LTypes
      /\ \/ HasSize(Top.cur.field.ltype, Top.cur.field.data_size)
         \/ IsEmpty(Top.cur.field)
  BY <1>1, <1>3, ArrayPlaced DEF Decoding
<1>5. input.buffer \in Seq(Octet) /\ Inside(input.buffer, Top.sub)
  <2>1. IsFrame(Top) /\ ReadsWithin(Top) /\ input.buffer \in Seq(Octet)
    BY <1>1, TopFrame
  <2>2. EndOf(Top.sub) + Top.s.left = Top.end
    BY <1>1, <2>1 DEF ReadsWithin, Reach
  <2> QED BY <2>1, <2>2 DEF Inside, IsFrame, Stream, EndOf
<1>6. OnlyTo(value.writes, FieldCells(Top))
  BY <1>4, <1>5, DecodeValueWrites
<1>7. FieldCells(Top) \subseteq Writable /\ Writable \subseteq DOMAIN mem
  BY <1>1, <1>4, FieldsWritable
<1> HIDE DEF value, n, g, w, t
<1>8. OnlyTo(value.writes, Writable) /\ OnlyTo(value.writes \o w, Writable)
  <2>1. OnlyTo(value.writes \o w, FieldCells(Top))
    BY <1>4, <1>6, BothWrite
  <2> QED BY <1>6, <1>7, <2>1, MoreAddresses
<1>9. WritesWithin
  BY <1>1, <1>7, <1>8, StoresWithin
<1>10. DOMAIN mem' = DOMAIN mem
  BY <1>9 DEF WritesWithin
<1>11. CASE SetTop(next)
  <2>1. /\ DOMAIN g = FrameFields /\ g.at = Top.at /\ g.msg = Top.msg /\ g.base = Top.base
        /\ g.it = Top.it /\ g.cur = Top.cur /\ g.ext = Top.ext
    BY <1>2 DEF Resembles, SameAs
  <2>2. /\ next.at = Top.at /\ next.msg = Top.msg /\ next.base = Top.base
        /\ next.it = Top.it /\ next.cur = Top.cur /\ next.ext = Top.ext
    BY <2>1 DEF FrameFields
  <2> HIDE DEF next
  <2>3. Placed(next, DOMAIN mem)
    BY <1>2, <2>2 DEF Placed, IsMember, IsExtension
  <2> QED BY <1>1, <1>9, <1>10, <1>11, <2>3, TopStaysPlaced
<1>12. CASE SetTop(last)
  <2>1. last.at = "failed" /\ last.msg = Top.msg /\ last.base = Top.base
    BY <1>2 DEF FrameFields
  <2> HIDE DEF last
  <2>2. Rests(last)
    BY <1>12, <2>1 DEF Rests, Free
  <2> QED BY <1>1, <1>9, <1>10, <2>2, RestsPlaced
<1> QED BY <1>1, <1>11, <1>12

\* An extension is found, or the next one is asked.
LEMMA DefaultExtensionWrites ==
  ASSUME IInv, TInv, WInv, DefaultExtension PROVE WritesWithin /\ WInv'
<1> DEFINE e   == Chain[Top.ext]
           cur == [field |-> e.field, pData |-> e.dest, pSize |-> e.found]
           g   == [Top EXCEPT !.at = "field", !.cur = cur]
           h   == [Top EXCEPT !.ext = @ + 1]
<1>1. /\ stack # <<>> /\ Top.at = "extension" /\ UNCHANGED input
      /\ Top.ext \in DOMAIN Chain
      /\ \/ SetTop(h) /\ UNCHANGED mem
         \/ Store(<<Write(e.found, 1)>>) /\ SetTop(g)
  BY DEF DefaultExtension, Asking, At, ExtensionIter
<1>2. Typed(Top) /\ Placed(Top, DOMAIN mem) /\ DOMAIN Top = FrameFields
  BY <1>1, TopTyped, TopPlaced
<1>3. CASE SetTop(h) /\ UNCHANGED mem
  <2>1. h.at = "extension" /\ h.msg = Top.msg /\ h.base = Top.base
    BY <1>1, <1>2 DEF FrameFields
  <2> HIDE DEF h
  <2>2. Rests(h)
    BY <1>3, <2>1 DEF Rests, Free
  <2> QED BY <1>1, <1>3, <2>2, RestsPlaced DEF WritesWithin
<1>4. CASE Store(<<Write(e.found, 1)>>) /\ SetTop(g)
  <2>1. Chain = Extensions[Top.msg] /\ Top.ext \in DOMAIN Extensions[Top.msg]
    <3>1. Chain = <<>> \/ Chain = Extensions[Top.msg]
      BY DEF Chain, Linked
    <3> QED BY <1>1, <3>1
  <2>2. Top.ext # 0
    <3>1. Extensions[Top.msg] \in Seq(Extension)
      BY <1>2, ExtensionsAssumption DEF Typed
    <3> QED BY <2>1, <3>1
  <2>3. e = Extensions[Top.msg][Top.ext]
    BY <2>1
  <2>4. ExtensionCells(e) \subseteq LinkedCells /\ e.found \in ExtensionCells(e)
    BY <1>2, <2>1, <2>3, OneExtension DEF Typed
  <2>5. FieldCells(Top) = ExtensionCells(e)
    <3>1. {Top.ext} \cap DOMAIN Extensions[Top.msg] = {Top.ext}
      BY <2>1
    <3> QED BY <2>2, <2>3, <3>1 DEF FieldCells
  <2> HIDE DEF e
  <2>6. FieldCells(Top) \subseteq Writable /\ Writable \subseteq DOMAIN mem
    BY <1>1, <2>4, <2>5, FieldsWritable DEF WInv
  <2>7. OnlyTo(<<Write(e.found, 1)>>, Writable)
    BY <2>4, <2>5, <2>6, OneWrite
  <2>8. WritesWithin
    BY <1>4, <2>6, <2>7, StoresWithin
  <2>9. cur.field = e.field /\ cur.pData = e.dest /\ cur.pSize = e.found
    OBVIOUS
  <2> HIDE DEF cur
  <2>10. /\ g.at = "field" /\ g.msg = Top.msg /\ g.base = Top.base /\ g.ext = Top.ext
         /\ g.cur = cur
    BY <1>2 DEF FrameFields
  <2> HIDE DEF g
  <2>11. IsExtension(g)
    BY <2>1, <2>3, <2>9, <2>10 DEF IsExtension
  <2>12. Placed(g, DOMAIN mem)
    BY <1>2, <2>2, <2>10, <2>11 DEF Placed, Idle
  <2> QED BY <1>1, <1>4, <2>8, <2>12, TopStaysPlaced DEF WritesWithin
<1> QED BY <1>1, <1>3, <1>4

\* The first frame is that of the caller's struct.
LEMMA CallWrites ==
  ASSUME IInv, WInv, NEW init \in BOOLEAN, Call(init) PROVE WritesWithin /\ WInv'
<1> DEFINE msg == input.msg
           w   == IF init THEN Defaults[msg][0][FALSE] ELSE <<>>
<1>1. /\ stack = <<>> /\ UNCHANGED input
      /\ \/ UNCHANGED <<mem, stack>>
         \/ /\ Store(w)
            /\ \E s : stack' = <<NewFrame(msg, 0, s)>>
  BY DEF Call
<1>2. msg \in DOMAIN Structs
  BY InputsAssumption DEF IInv
<1>3. CASE UNCHANGED <<mem, stack>>
  BY <1>1, <1>3 DEF WritesWithin, WInv
<1>4. ASSUME Store(w), NEW s, stack' = <<NewFrame(msg, 0, s)>>
      PROVE  WritesWithin /\ WInv'
  <2>1. Writable = InitCells(0, msg, FALSE)
    BY <1>1 DEF Writable, InitCells
  <2>2. StructCells(0, msg) \subseteq DOMAIN mem
    <3>1. DOMAIN Structs[msg] = 1 .. FieldCount(msg)
      BY <1>2, LayoutAssumption DEF WellLaidOut, FieldCount
    <3> QED BY <3>1 DEF StructCells, ToSet, WInv, StructIn
  <2>3. Writable \subseteq DOMAIN mem
    BY <2>1, <2>2 DEF InitCells, WInv
  <2>4. OnlyTo(w, Writable)
    <3>1. OnlyTo(Defaults[msg][0][FALSE], InitCells(0, msg, FALSE))
      <4>1. DefaultWrites(Defaults, msg)
        BY <1>2, DefaultsWrite
      <4>2. 0 \in Int /\ FALSE \in BOOLEAN
        OBVIOUS
      <4> HIDE DEF msg, w
      <4>3. \A base \in Int, wiped \in BOOLEAN :
              OnlyTo(Defaults[msg][base][wiped], InitCells(base, msg, wiped))
        BY ONLY <4>1 DEF DefaultWrites
      <4> QED BY ONLY <4>2, <4>3
    <3>2. OnlyTo(Defaults[msg][0][FALSE], Writable)
      BY ONLY <2>1, <3>1, Zenon
    <3> QED BY <3>2, NoWrite
  <2> HIDE DEF w
  <2>5. WritesWithin
    BY <1>4, <2>3, <2>4, StoresWithin
  <2>6. Placed(NewFrame(msg, 0, s), DOMAIN mem)
    <3> DEFINE h == NewFrame(msg, 0, s)
    <3>1. h.msg = msg /\ h.base = 0 /\ h.at = "loop" /\ h.ext = 0
      BY DEF NewFrame
    <3> HIDE DEF h
    <3>2. Placed(h, DOMAIN mem)
      BY <3>1 DEF Placed, Decoding, WInv
    <3> QED BY <3>2 DEF h
  <2>7. \A f : DOMAIN <<f>> = {1} /\ <<f>>[1] = f
    OBVIOUS
  <2>8. DOMAIN mem' = DOMAIN mem
    BY <2>5 DEF WritesWithin
  <2>9. \A k \in DOMAIN stack' : Placed(stack'[k], DOMAIN mem')
    BY <1>4, <2>6, <2>7, <2>8
  <2> QED BY <1>1, <2>5, <2>8, <2>9 DEF WInv
<1> QED BY <1>1, <1>3, <1>4

LEMMA InitWInv ==
  Init => WInv
<1> SUFFICES ASSUME Init PROVE WInv
  OBVIOUS
<1>1. input.msg \in DOMAIN Structs /\ mem \in Memories[input.msg] /\ stack = <<>>
  BY InputsAssumption DEF Init
<1>2. DOMAIN Structs[input.msg] = 1 .. FieldCount(input.msg)
  BY <1>1, LayoutAssumption DEF WellLaidOut, FieldCount
<1>3. LinkedCells \subseteq DOMAIN mem
  BY <1>1, MemoriesAssumption DEF LinkedCells
<1>4. StructIn(0, input.msg, DOMAIN mem)
  BY <1>1, <1>2, MemoriesAssumption DEF StructIn
<1> QED BY <1>1, <1>3, <1>4 DEF WInv

LEMMA StepWrites ==
  ASSUME IInv, TInv, WInv, Next PROVE WritesWithin /\ WInv'
<1>1. ASSUME NEW init \in BOOLEAN, Call(init) PROVE WritesWithin /\ WInv'
  BY <1>1, CallWrites
<1>2. ASSUME NEW count, NEW ok, Foreign(count, ok) PROVE WritesWithin /\ WInv'
  <2>1. UNCHANGED mem
    BY <1>2 DEF Foreign, CallbackReturns, ForeignExtension
  <2> QED BY <1>2, <2>1, ForeignPlaced DEF WritesWithin
<1>3. CASE \/ Round \/ SkipField \/ EndMessage \/ CountRequired \/ PointerField
           \/ NotAnExtension \/ PackedEnds \/ CallbackField \/ FindExtension
  <2>1. UNCHANGED mem
    BY <1>3 DEF Round, SkipField, EndMessage, CountRequired, PointerField, NotAnExtension,
                PackedEnds, CallbackField, FindExtension
  <2> QED BY <1>3, <2>1, QuietPlaced DEF WritesWithin
<1>4. CASE Find \/ PackedArray \/ Return
  <2>1. UNCHANGED mem
    BY <1>4 DEF Find, PackedArray, Return
  <2> QED BY <1>4, <2>1, FindPlaced, PackedArrayPlaced, ReturnPlaced DEF WritesWithin
<1>5. CASE SingularField \/ RepeatedEntry \/ PackedEntry \/ DefaultExtension
  BY <1>5, SingularFieldWrites, RepeatedEntryWrites, PackedEntryWrites, DefaultExtensionWrites
<1> QED BY <1>1, <1>2, <1>3, <1>4, <1>5 DEF Next, Decoder, Fields

\* Whatever comes over the line, for every layout and however deep the messages are
\* nested: decoding a field changes no byte outside the member or the extension that the
\* field stands for, its has_, _count or which_ member included.
THEOREM DecoderWritesInField ==
  Spec => WritesInField
<1>1. IInv /\ TInv /\ WInv /\ [Next]_vars => WInv'
  <2>1. WInv /\ UNCHANGED vars => WInv'
    BY DEF vars, WInv
  <2> QED BY <2>1, StepWrites
<1>2. IInv /\ TInv /\ WInv /\ [Next]_vars =>
        [ /\ DOMAIN mem' = DOMAIN mem
          /\ \A a \in DOMAIN mem : mem'[a] # mem[a] => a \in Writable ]_vars
  BY StepWrites DEF WritesWithin
<1>3. Spec => []TInv
  BY DecoderInvariance, InitTInv, StepTInv, PTL DEF Spec
<1> QED BY <1>1, <1>2, <1>3, DecoderInvariance, InitWInv, PTL DEF Spec, WritesInField

-----------------------------------------------------------------------------
\* The required fields.

\* Required fields have numbers of their own.
LEMMA IndexGrows ==
  ASSUME NEW msg \in DOMAIN Structs, NEW p \in Nat \ {0}, NEW q \in Nat, p < q,
         Structs[msg][p].htype = "REQUIRED"
  PROVE  Index(msg, p) < Index(msg, q)
<1>1. Index(msg, p + 1) = Index(msg, p) + 1 /\ Index(msg, p) \in Nat
  BY RequiredCounted DEF Index
<1>2. RequiredBefore(msg, p + 1) \subseteq RequiredBefore(msg, q)
  BY DEF RequiredBefore
<1>3. IsFiniteSet(RequiredBefore(msg, q))
  <2>1. IsFiniteSet(1 .. q - 1)
    BY FS_Interval
  <2>2. RequiredBefore(msg, q) \subseteq 1 .. q - 1
    BY DEF RequiredBefore
  <2> QED BY <2>1, <2>2, FS_Subset
<1>4. Cardinality(RequiredBefore(msg, p + 1)) <= Cardinality(RequiredBefore(msg, q))
  BY <1>2, <1>3, FS_Subset
<1>5. Index(msg, q) \in Nat
  BY RequiredCounted DEF Index
<1> QED BY <1>1, <1>4, <1>5 DEF Index

LEMMA IndexOnce ==
  ASSUME NEW msg \in DOMAIN Structs, NEW p \in Nat \ {0}, NEW q \in Nat \ {0},
         Structs[msg][p].htype = "REQUIRED", Structs[msg][q].htype = "REQUIRED",
         Index(msg, p) = Index(msg, q)
  PROVE  p = q
<1>1. Index(msg, p) \in Nat
  BY RequiredCounted DEF Index
<1>2. ~(p < q) /\ ~(q < p)
  BY <1>1, IndexGrows
<1> QED BY <1>2

\* There is one of every number.
LEMMA IndexReached ==
  ASSUME NEW msg \in DOMAIN Structs, NEW n \in Nat, NEW i \in Nat, i < Index(msg, n + 1)
  PROVE  \E p \in 1 .. n : Structs[msg][p].htype = "REQUIRED" /\ Index(msg, p) = i
<1> DEFINE behind == { p \in 1 .. n + 1 : Index(msg, p) > i }
<1>1. n + 1 \in behind /\ behind \subseteq Nat
  OBVIOUS
<1>2. PICK p \in behind : \A k \in behind : p <= k
  <2> HIDE DEF behind
  <2> QED BY <1>1, LeastElement
<1>3. Index(msg, 1) = 0
  BY RequiredCounted, 1 \in Nat \ {0} DEF Index
<1>4. p - 1 \in 1 .. n /\ p - 1 \in Nat \ {0} /\ (p - 1) + 1 = p
  BY <1>2, <1>3
<1>5. ~(Index(msg, p - 1) > i) /\ Index(msg, p) > i
  BY <1>2, <1>4
<1>6. /\ Index(msg, p - 1) \in Nat
      /\ Index(msg, p) = Index(msg, p - 1) + (IF Structs[msg][p - 1].htype = "REQUIRED" THEN 1 ELSE 0)
  <2> DEFINE q == p - 1
  <2>1. q \in Nat \ {0} /\ q + 1 = p
    BY <1>4
  <2> HIDE DEF q
  <2>2. /\ Index(msg, q) \in Nat
        /\ Index(msg, q + 1) = Index(msg, q) + (IF Structs[msg][q].htype = "REQUIRED" THEN 1 ELSE 0)
    BY <2>1, RequiredCounted DEF Index
  <2> QED BY <2>1, <2>2 DEF q
<1> QED BY <1>4, <1>5, <1>6

\* Comparing words is comparing sets of numbers, when there are none behind the last one.
LEMMA WordsCompared ==
  ASSUME NEW f, f.fields_seen \in Seen, NEW count \in Nat, count <= PB_MAX_REQUIRED_FIELDS,
         NEW I, I \subseteq 0 .. count - 1,
         \A w \in Words, b \in 0 .. WordBits - 1 : b \in f.fields_seen[w] <=> WordBits * w + b \in I
  PROVE  AllSeen(f, count) <=> 0 .. count - 1 \subseteq I
<1> DEFINE q == count \div WordBits
           r == count % WordBits
<1>1. WordBits \in Nat /\ WordBits > 0 /\ PB_MAX_REQUIRED_FIELDS \in Nat
  BY RequiredAssumption
<1>2. q \in Nat /\ r \in 0 .. WordBits - 1 /\ count = WordBits * q + r
  BY <1>1, DivMod
<1>3. AllSeen(f, count) <=>
        /\ \A w \in 0 .. q - 1 : f.fields_seen[w] = 0 .. WordBits - 1
        /\ r # 0 => f.fields_seen[q] = 0 .. r - 1
  BY DEF AllSeen
<1> HIDE DEF q, r
<1>4. ASSUME NEW w \in Nat, NEW b \in 0 .. WordBits - 1
      PROVE  WordBits * w + b < count <=> w < q \/ (w = q /\ b < r)
  BY <1>1, <1>2, WordsThenBits
<1>5. ASSUME NEW w \in Nat, NEW b \in 0 .. WordBits - 1, WordBits * w + b < count
      PROVE  w \in Words
  <2> DEFINE i == WordBits * w + b
  <2>1. i \in Nat /\ i < PB_MAX_REQUIRED_FIELDS
    BY <1>1, <1>5
  <2>2. /\ i \div WordBits \in Words /\ i % WordBits \in 0 .. WordBits - 1
        /\ i = WordBits * (i \div WordBits) + (i % WordBits)
    <3> HIDE DEF i
    <3> QED BY <2>1, WordOf
  <2>3. i \div WordBits \in Nat
    BY <2>2 DEF Words
  <2> DEFINE v == i \div WordBits
             d == i % WordBits
  <2>4. v \in Words /\ v \in Nat /\ d \in 0 .. WordBits - 1 /\ WordBits * w + b = WordBits * v + d
    BY <2>2, <2>3
  <2> HIDE DEF v, d
  <2>5. w = v
    BY <1>1, <2>4, OneBit
  <2> QED BY <2>4, <2>5
<1>6. ASSUME NEW w \in 0 .. q - 1 PROVE w \in Words
  <2>1. w \in Nat /\ 0 \in 0 .. WordBits - 1
    BY <1>1, <1>2
  <2> QED BY <1>2, <1>4, <1>5, <2>1
<1>7. ASSUME r # 0 PROVE q \in Words
  <2>1. 0 \in 0 .. WordBits - 1 /\ 0 < r
    BY <1>1, <1>2, <1>7
  <2> QED BY <1>2, <1>4, <1>5, <2>1
<1>8. ASSUME AllSeen(f, count), NEW i \in 0 .. count - 1 PROVE i \in I
  <2> DEFINE w == i \div WordBits
             b == i % WordBits
  <2>1. i \in Nat /\ i < PB_MAX_REQUIRED_FIELDS /\ i < count
    BY <1>1
  <2>2. w \in Words /\ b \in 0 .. WordBits - 1 /\ i = WordBits * w + b
    BY <2>1, WordOf
  <2> HIDE DEF w, b
  <2>3. w \in Nat
    BY <2>2 DEF Words
  <2>4. w < q \/ (w = q /\ b < r)
    BY <1>4, <2>1, <2>2, <2>3
  <2>5. b \in f.fields_seen[w]
    BY <1>1, <1>2, <1>3, <1>8, <2>2, <2>3, <2>4
  <2> QED BY <2>2, <2>5
<1>9. ASSUME 0 .. count - 1 \subseteq I PROVE AllSeen(f, count)
  <2>1. ASSUME NEW w \in 0 .. q - 1 PROVE f.fields_seen[w] = 0 .. WordBits - 1
    <3>1. w \in Words /\ w \in Nat /\ w < q
      BY <1>2, <1>6
    <3>2. ASSUME NEW b \in 0 .. WordBits - 1 PROVE b \in f.fields_seen[w]
      <4>1. WordBits * w + b \in Nat /\ WordBits * w + b < count
        BY <1>1, <1>4, <3>1
      <4> QED BY <1>9, <3>1, <4>1
    <3> QED BY <3>1, <3>2 DEF Seen
  <2>2. ASSUME r # 0 PROVE f.fields_seen[q] = 0 .. r - 1
    <3>1. q \in Words
      BY <1>7, <2>2
    <3>2. ASSUME NEW b \in 0 .. WordBits - 1 PROVE b \in f.fields_seen[q] <=> b < r
      <4>1. WordBits * q + b \in Nat
        BY <1>1, <1>2
      <4>2. WordBits * q + b < count <=> b < r
        BY <1>2, <1>4
      <4>3. WordBits * q + b \in I <=> WordBits * q + b < count
        BY <1>9, <4>1
      <4> QED BY <3>1, <4>2, <4>3
    <3>3. f.fields_seen[q] \subseteq 0 .. WordBits - 1
      BY <3>1 DEF Seen
    <3> DEFINE seen == f.fields_seen[q]
    <3> HIDE DEF seen
    <3>4. 0 .. r - 1 \subseteq 0 .. WordBits - 1 /\ r \in Nat
      BY <1>1, <1>2
    <3>5. \A b \in 0 .. WordBits - 1 : b \in seen <=> b \in 0 .. r - 1
      BY <3>2, <3>4 DEF seen
    <3> QED BY <3>3, <3>4, <3>5 DEF seen
  <2> QED BY <1>3, <2>1, <2>2
<1> QED BY <1>8, <1>9

-----------------------------------------------------------------------------
\* The checks behind the loop.

\* The number of required fields that have a bit, when the iterator is at the last field.
LEMMA AllCounted ==
  ASSUME NEW f, Typed(f), ~HasNext(f.msg, f.it)
  PROVE  LET total == Index(f.msg, FieldCount(f.msg) + 1)
             count == req_field_count(FieldAt(f.msg, f.it.pos), f.it)
         IN  /\ FieldCount(f.msg) \in Nat /\ total \in Nat
             /\ count = IF total > PB_MAX_REQUIRED_FIELDS THEN PB_MAX_REQUIRED_FIELDS ELSE total
<1> DEFINE n     == FieldCount(f.msg)
           total == Index(f.msg, n + 1)
           last  == FieldAt(f.msg, f.it.pos)
<1>1. /\ f.msg \in DOMAIN Structs /\ n \in Nat /\ DOMAIN Structs[f.msg] = 1 .. n
      /\ n = 0 <=> Structs[f.msg] = <<>>
  BY LayoutAssumption DEF WellLaidOut, FieldCount, Typed
<1>2. total \in Nat
  <2>1. n + 1 \in Nat \ {0}
    BY <1>1
  <2> HIDE DEF n
  <2> QED BY <1>1, <2>1, RequiredCounted DEF Index
<1>3. f.it.required_field_index + (IF last.htype = "REQUIRED" /\ last.tag # 0 THEN 1 ELSE 0) = total
  <2>1. CASE n = 0
    <3>1. f.it = Iter(1, 0, f.base, PB_LAST_FIELD) /\ last = PB_LAST_FIELD
      BY <1>1, <2>1, NoMembers DEF Typed, Stands, IterConsistent, Iter
    <3>2. f.it.required_field_index = 0 /\ last.tag = 0
      BY <3>1 DEF Iter, PB_LAST_FIELD
    <3>3. total = 0
      BY <1>1, <2>1, RequiredCounted, 1 \in Nat \ {0} DEF Index
    <3> QED BY <3>2, <3>3
  <2>2. CASE n > 0
    <3>1. f.it.pos \in 1 .. n /\ f.it.required_field_index = Index(f.msg, f.it.pos)
      BY <1>1, <2>2 DEF Typed, Stands, IterConsistent, Index
    <3>2. f.it.pos = n
      BY <1>1, <3>1 DEF HasNext
    <3>3. last.htype = Structs[f.msg][n].htype /\ last.tag = Structs[f.msg][n].tag
      BY <1>1, <3>1, <3>2, FieldOfMember DEF PB_FIELD
    <3>4. Structs[f.msg][n].tag # 0
      <4>1. Structs[f.msg][n] \in Member
        BY <1>1, <2>2, OneMember
      <4> QED BY <4>1 DEF Member
    <3>5. n \in Nat \ {0}
      BY <1>1, <2>2
    <3>6. total = Index(f.msg, n) + (IF Structs[f.msg][n].htype = "REQUIRED" THEN 1 ELSE 0)
      BY <1>1, <3>5, RequiredCounted DEF Index
    <3> HIDE DEF last, n, total
    <3> QED BY <3>1, <3>2, <3>3, <3>4, <3>6
  <2> QED BY <1>1, <2>1, <2>2
<1> HIDE DEF total, last, n
<1> QED BY <1>1, <1>2, <1>3 DEF req_field_count, Capped, total, last, n

\* The words of fields_seen tell whether all required fields were found.
LEMMA SeenIsFound ==
  ASSUME NEW f, Typed(f), ~HasNext(f.msg, f.it)
  PROVE  AllSeen(f, req_field_count(FieldAt(f.msg, f.it.pos), f.it)) <=> AllFound(f)
<1> DEFINE n     == FieldCount(f.msg)
           total == Index(f.msg, n + 1)
           count == req_field_count(FieldAt(f.msg, f.it.pos), f.it)
           marked == { p \in f.found : IsChecked(f.msg, p) }
           I     == { Index(f.msg, p) : p \in marked }
<1>1. /\ n \in Nat /\ total \in Nat
      /\ count = IF total > PB_MAX_REQUIRED_FIELDS THEN PB_MAX_REQUIRED_FIELDS ELSE total
  BY AllCounted
<1>2. PB_MAX_REQUIRED_FIELDS \in Nat
  BY RequiredAssumption
<1>3. f.msg \in DOMAIN Structs /\ f.fields_seen \in Seen /\ DOMAIN Structs[f.msg] = 1 .. n
  BY LayoutAssumption DEF Typed, WellLaidOut, FieldCount
<1>4. count \in Nat /\ count <= PB_MAX_REQUIRED_FIELDS /\ count <= total
  <2> HIDE DEF count, total
  <2> QED BY <1>1, <1>2
<1>5. CASE n = 0
  <2>1. total = 0
    BY <1>3, <1>5, RequiredCounted, 1 \in Nat \ {0} DEF Index
  <2>2. count = 0
    BY <1>4, <2>1
  <2>3. AllSeen(f, 0)
    <3>1. 0 \div WordBits = 0 /\ 0 % WordBits = 0
      BY RequiredAssumption
    <3> QED BY <3>1 DEF AllSeen
  <2>4. AllFound(f)
    BY <1>3, <1>5 DEF AllFound
  <2>5. AllSeen(f, count)
    <3> HIDE DEF count
    <3> QED BY <2>2, <2>3
  <2> QED BY <2>4, <2>5
<1>6. CASE n > 0
  <2>1. /\ f.found \subseteq 1 .. n
        /\ \A w \in Words, b \in 0 .. WordBits - 1 :
             b \in f.fields_seen[w] <=>
               \E p \in f.found : IsChecked(f.msg, p) /\ Index(f.msg, p) = WordBits * w + b
    BY <1>6 DEF Typed, Marked
  <2>2. \A w \in Words, b \in 0 .. WordBits - 1 : b \in f.fields_seen[w] <=> WordBits * w + b \in I
    <3> TAKE w \in Words, b \in 0 .. WordBits - 1
    <3>1. WordBits * w + b \in I <=>
            \E p \in f.found : IsChecked(f.msg, p) /\ Index(f.msg, p) = WordBits * w + b
      OBVIOUS
    <3> QED BY <2>1, <3>1
  <2>3. ASSUME NEW p \in 1 .. n, IsChecked(f.msg, p)
        PROVE  Index(f.msg, p) \in 0 .. count - 1
    <3>1. p \in Nat \ {0} /\ n + 1 \in Nat /\ p < n + 1
      BY <1>1
    <3>2. Index(f.msg, p) \in Nat
      BY <1>3, <3>1, RequiredCounted DEF Index
    <3>3. Index(f.msg, p) < total
      BY <1>3, <2>3, <3>1, IndexGrows DEF IsChecked
    <3>4. Index(f.msg, p) < PB_MAX_REQUIRED_FIELDS
      BY <2>3 DEF IsChecked, Index
    <3> HIDE DEF total, count
    <3> QED BY <1>1, <1>2, <1>4, <3>2, <3>3, <3>4
  <2>4. I \subseteq 0 .. count - 1
    <3> SUFFICES ASSUME NEW p \in marked PROVE Index(f.msg, p) \in 0 .. count - 1
      BY DEF I
    <3> QED BY <2>1, <2>3
  <2>5. AllSeen(f, count) <=> 0 .. count - 1 \subseteq I
    <3> HIDE DEF count, I
    <3> QED BY <1>3, <1>4, <2>2, <2>4, WordsCompared
  <2>6. ASSUME 0 .. count - 1 \subseteq I, NEW p \in 1 .. n, IsChecked(f.msg, p)
        PROVE  p \in f.found
    <3>1. Index(f.msg, p) \in I
      BY <2>3, <2>6
    <3>2. PICK s \in marked : Index(f.msg, s) = Index(f.msg, p)
      BY <3>1
    <3>3. s \in f.found /\ s \in Nat \ {0} /\ IsChecked(f.msg, s) /\ p \in Nat \ {0}
      BY <2>1, <3>2
    <3>4. s = p
      BY <1>3, <2>6, <3>2, <3>3, IndexOnce DEF IsChecked
    <3> QED BY <3>3, <3>4
  <2>7. ASSUME AllFound(f), NEW i \in 0 .. count - 1 PROVE i \in I
    <3>1. i \in Nat /\ i < total /\ i < PB_MAX_REQUIRED_FIELDS
      <4> HIDE DEF total, count
      <4> QED BY <1>1, <1>2, <1>4
    <3>2. PICK p \in 1 .. n : Structs[f.msg][p].htype = "REQUIRED" /\ Index(f.msg, p) = i
      BY <1>1, <1>3, <3>1, IndexReached
    <3>3. IsChecked(f.msg, p)
      BY <3>1, <3>2 DEF IsChecked, Index
    <3>4. p \in marked
      BY <1>3, <2>7, <3>3 DEF AllFound
    <3> QED BY <3>2, <3>4
  <2>8. 0 .. count - 1 \subseteq I <=> AllFound(f)
    <3> HIDE DEF count, I
    <3> QED BY <1>3, <2>6, <2>7 DEF AllFound
  <2> QED BY <2>5, <2>8
<1> QED BY <1>1, <1>5, <1>6

\* What RequiredChecked says of a step.
RightlyAccepted ==
  At("count") /\ stack'[Len(stack)].at # "count" =>
    (stack'[Len(stack)].at = "done" <=> AllFound(Top))

LEMMA CountAccepts ==
  ASSUME IInv, TInv, CountRequired PROVE RightlyAccepted
<1>1. stack # <<>> /\ Top.at = "count"
  BY DEF CountRequired, At
<1>2. Typed(Top) /\ DOMAIN Top = FrameFields
  BY <1>1, TopTyped
<1>3. ASSUME NEW g, SetTop(g) PROVE stack'[Len(stack)] = g
  <2>1. IsSeq(stack) BY DEF IInv
  <2>2. PICK S : stack \in Seq(S) BY <2>1 DEF IsSeq
  <2>3. Len(stack) \in DOMAIN stack BY <1>1, <2>2
  <2> QED BY <1>3, <2>3 DEF SetTop
<1>4. CASE HasNext(Top.msg, Top.it)
  <2> DEFINE g == [Top EXCEPT !.it = pb_field_iter_next(Top.msg, Top.base, Top.it)]
  <2>1. SetTop(g)
    BY <1>4 DEF CountRequired
  <2>2. g.at = "count"
    BY <1>1, <1>2 DEF FrameFields
  <2> HIDE DEF g
  <2>3. stack'[Len(stack)].at = "count"
    BY <1>3, <2>1, <2>2
  <2> QED BY <2>3 DEF RightlyAccepted
<1>5. CASE ~HasNext(Top.msg, Top.it)
  <2> DEFINE seen == AllSeen(Top, req_field_count(FieldAt(Top.msg, Top.it.pos), Top.it))
             at == IF seen THEN "done" ELSE "failed"
             g  == [Top EXCEPT !.at = at]
  <2>1. SetTop(g)
    BY <1>5, Zenon DEF CountRequired
  <2>2. seen <=> AllFound(Top)
    BY <1>2, <1>5, SeenIsFound
  <2> HIDE DEF seen
  <2>3. g.at = at
    BY <1>2 DEF FrameFields
  <2>4. stack'[Len(stack)].at = at
    <3> HIDE DEF g, at
    <3> QED BY <1>3, <2>1, <2>3
  <2> QED BY <2>2, <2>4 DEF RightlyAccepted
<1> QED BY <1>4, <1>5

LEMMA StepAccepts ==
  ASSUME IInv, TInv, Next PROVE RightlyAccepted
<1> SUFFICES ASSUME At("count") PROVE RightlyAccepted
  BY DEF RightlyAccepted
<1>1. stack # <<>> /\ Top.at = "count"
  BY DEF At
<1>2. CountRequired
  BY <1>1 DEF Next, Call, Decoder, Fields, Round, Find, FindExtension, SkipField, EndMessage,
              Return, SingularField, RepeatedEntry, PackedArray, PackedEntry, PackedEnds,
              PointerField, CallbackField, NotAnExtension, DefaultExtension, Foreign,
              CallbackReturns, ForeignExtension, Asking, AtField, At
<1> QED BY <1>2, CountAccepts

\* Whatever comes over the line, for every description, every limit and every size of the
\* words: a message is accepted if and only if each of its required fields below the limit
\* was found in it.
THEOREM DecoderRequiredChecked ==
  Spec => RequiredChecked
<1>1. IInv /\ TInv /\ [Next]_vars =>
        [ At("count") /\ stack'[Len(stack)].at # "count" =>
            (stack'[Len(stack)].at = "done" <=> AllFound(Top)) ]_vars
  BY StepAccepts DEF RightlyAccepted
<1>2. Spec => []TInv
  BY DecoderInvariance, InitTInv, StepTInv, PTL DEF Spec
<1> QED BY <1>1, <1>2, DecoderInvariance, PTL DEF Spec, RequiredChecked

=============================================================================
