-------------------------- MODULE ProtoBuff_proofs --------------------------
(***************************************************************************)
(* The registry of ProtoBuff is sound at every step, for any number of     *)
(* slots, types and callbacks and any depth of re-entrant calls: the mask  *)
(* and the table agree, no type is registered twice, and a dispatch goes   *)
(* wrong only for a message of no known type that an interrupt brings in   *)
(* the middle of a change.  The inductive invariant says, for each step of *)
(* add_handler and clear_handlers, what the steps before it have           *)
(* established.                                                            *)
(***************************************************************************)
EXTENDS ProtoBuffMap, SequenceTheorems, FiniteSetTheorems, WellFoundedInduction, TLAPS

-----------------------------------------------------------------------------
\* Natural numbers.

\* Every non-empty set of natural numbers has a least element.
LEMMA LeastElement ==
  ASSUME NEW S, S \subseteq Nat, S # {}
  PROVE  \E m \in S : \A k \in S : m <= k
<1> DEFINE R == OpToRel(<, Nat)
<1>1. IsWellFoundedOn(R, Nat) BY NatLessThanWellFounded
<1>2. \A x, y \in Nat : <<y, x>> \in R <=> y < x BY DEF OpToRel
<1> HIDE DEF R
<1>3. PICK x \in S : \A y \in S : ~ (<<y, x>> \in R)
  BY <1>1, WFMin
<1>4. ASSUME NEW y \in S PROVE x <= y
  <2>1. x \in Nat /\ y \in Nat OBVIOUS
  <2>2. ~(y < x) BY <2>1, <1>2, <1>3
  <2> QED BY <2>1, <2>2
<1> QED BY <1>4

-----------------------------------------------------------------------------

\* Only the innermost call can be at work; the others wait for their callbacks.
OnlyTopWorks == \A d \in 1 .. Depth - 1 : stack[d].at = "call"

Adding == At("find") \/ At("take") \/ At("callback") \/ At("type")

\* What add_handler knows as it goes on.
AddInv ==
  /\ Adding => Top.type \in Types /\ Top.callback \in Callbacks
  /\ At("take") \/ At("callback") \/ At("type") => Holding(Top.type) = {}
  /\ At("callback") \/ At("type") =>
       Top.idx \in handlers_usage_mask /\ handlers[Top.idx].type = NULL
  /\ At("type") => handlers[Top.idx].callback = Top.callback

\* What clear_handlers has zeroed.
ClearInv ==
  /\ At("memset") => \A i \in Slot : i < Top.idx => handlers[i] = ZeroHandler
  /\ At("mask") => \A i \in Slot : handlers[i] = ZeroHandler

IInv ==
  /\ TypeOK
  /\ OnlyTopWorks
  /\ MaskMatchesTable
  /\ NoTypeTwice
  /\ AddInv
  /\ ClearInv

-----------------------------------------------------------------------------
\* The search returns a slot that holds the type.
LEMMA Found ==
  ASSUME TypeOK, NEW type, Holding(type) # {}
  PROVE  find_handler(type) \in Holding(type)
<1>1. Holding(type) \subseteq Nat
  <2>1. Slot \subseteq Nat BY MaxHandlersAssumption DEF Slot
  <2>2. handlers_usage_mask \subseteq Slot BY DEF TypeOK
  <2> QED BY <2>1, <2>2 DEF Holding
<1>2. \E i \in Holding(type) : \A j \in Holding(type) : i <= j
  <2> DEFINE S == Holding(type)
  <2> HIDE DEF S
  <2> QED BY <1>1, LeastElement DEF S
<1> QED BY <1>2 DEF find_handler

\* The innermost call is a frame.
LEMMA TopFrame ==
  ASSUME TypeOK, Depth > 0
  PROVE  /\ Top \in Frame
         /\ Depth \in Nat
         /\ Depth = Len(stack)
  BY DEF TypeOK, Top, Depth

\* Entering a call, moving on in it and leaving it.
LEMMA Entered ==
  ASSUME TypeOK, OnlyTopWorks, NEW step, NEW type, NEW callback, Enter(step, type, callback),
         [at |-> step, type |-> type, callback |-> callback, idx |-> 0] \in Frame
  PROVE  /\ stack' \in Seq(Frame)
         /\ Len(stack') = Depth + 1
         /\ stack'[Depth + 1] = [at |-> step, type |-> type, callback |-> callback, idx |-> 0]
         /\ \A d \in 1 .. Depth : stack'[d].at = "call"
<1>1. stack \in Seq(Frame) /\ Depth = Len(stack) /\ Depth \in Nat
  BY DEF TypeOK, Depth
<1> DEFINE f == [at |-> step, type |-> type, callback |-> callback, idx |-> 0]
<1>2. stack' = Append(stack, f) BY DEF Enter
<1>3. \A d \in 1 .. Depth : stack[d].at = "call"
  BY <1>1 DEF Enter, CallerActive, OnlyTopWorks, Top
<1> HIDE DEF f
<1>4. f \in Frame BY DEF f
<1>5. /\ stack' \in Seq(Frame)
      /\ Len(stack') = Depth + 1
      /\ stack'[Depth + 1] = f
      /\ \A d \in 1 .. Depth : stack'[d] = stack[d]
  BY <1>1, <1>2, <1>4
<1> QED BY <1>3, <1>5 DEF f

\* The stack when the innermost call returns.
LEMMA Left ==
  ASSUME TypeOK, OnlyTopWorks, Depth > 0, Leave
  PROVE  /\ stack' \in Seq(Frame)
         /\ Len(stack') = Depth - 1
         /\ \A d \in 1 .. Depth - 1 : stack'[d] = stack[d] /\ stack'[d].at = "call"
<1>1. stack \in Seq(Frame) /\ Depth = Len(stack) /\ Depth \in Nat
  BY DEF TypeOK, Depth
<1> DEFINE n == Depth - 1
<1>2. n \in Nat /\ n < Depth /\ stack' = SubSeq(stack, 1, n) BY <1>1 DEF Leave
<1>3. stack' \in Seq(Frame) /\ Len(stack') = n /\ \A d \in 1 .. n : stack'[d] = stack[d]
  <2> HIDE DEF n
  <2> QED BY <1>1, <1>2
<1> QED BY <1>3 DEF OnlyTopWorks

\* The stack when the innermost call takes a step.
LEMMA Replaced ==
  ASSUME TypeOK, OnlyTopWorks, Depth > 0, NEW f \in Frame, stack' = [stack EXCEPT ![Depth] = f]
  PROVE  /\ stack' \in Seq(Frame)
         /\ Len(stack') = Depth
         /\ stack'[Depth] = f
         /\ \A d \in 1 .. Depth - 1 : stack'[d] = stack[d] /\ stack'[d].at = "call"
<1>1. stack \in Seq(Frame) /\ Depth = Len(stack) /\ Depth \in Nat
  BY DEF TypeOK, Depth
<1> QED BY <1>1 DEF OnlyTopWorks

\* When no step of add_handler or clear_handlers is under way, every used slot shows
\* a type and a callback.
LEMMA Settled ==
  ASSUME IInv, CallerActive
  PROVE  \A i \in handlers_usage_mask : handlers[i].type # NULL /\ handlers[i].callback # NULL
<1>1. ~At("callback") /\ ~At("type") /\ ~At("memset") /\ ~At("mask")
  BY DEF CallerActive, At
<1>2. handlers_usage_mask \subseteq Slot BY DEF IInv, TypeOK
<1> QED BY <1>1, <1>2 DEF IInv, MaskMatchesTable, Filling, Clearing

-----------------------------------------------------------------------------
\* The invariant holds before any call.
LEMMA InitIInv == Init => IInv
<1> SUFFICES ASSUME Init PROVE IInv
  OBVIOUS
<1>1. Depth = 0 BY DEF Init, Depth
<1>2. ZeroHandler \in Handler /\ ZeroHandler.type = NULL /\ ZeroHandler.callback = NULL
  BY DEF ZeroHandler, Handler
<1>3. TypeOK BY <1>2 DEF Init, TypeOK
<1>4. OnlyTopWorks BY <1>1 DEF OnlyTopWorks
<1>5. MaskMatchesTable BY <1>2 DEF Init, MaskMatchesTable
<1>6. NoTypeTwice BY DEF Init, NoTypeTwice
<1>7. AddInv /\ ClearInv BY <1>1 DEF AddInv, ClearInv, Adding, At
<1> QED BY <1>3, <1>4, <1>5, <1>6, <1>7 DEF IInv

\* The stack after a call was entered: no step of another call is under way.
LEMMA EnterInv ==
  ASSUME IInv, NEW step \in {"find", "memset", "call"}, NEW type \in Types \cup {NULL},
         NEW callback \in Callbacks \cup {NULL}, Enter(step, type, callback),
         step = "find" => type \in Types /\ callback \in Callbacks,
         UNCHANGED <<handlers, handlers_usage_mask>>
  PROVE  stack' \in Seq(Frame) /\ (OnlyTopWorks /\ MaskMatchesTable /\ NoTypeTwice
                                     /\ AddInv /\ ClearInv)'
<1> DEFINE f == [at |-> step, type |-> type, callback |-> callback, idx |-> 0]
<1>1. TypeOK /\ OnlyTopWorks /\ MaskMatchesTable /\ NoTypeTwice BY DEF IInv
<1>2. f \in Frame BY MaxHandlersAssumption DEF Frame, Steps, Slot
<1>3. /\ stack' \in Seq(Frame)
      /\ Len(stack') = Depth + 1
      /\ stack'[Depth + 1] = f
      /\ \A d \in 1 .. Depth : stack'[d].at = "call"
  BY <1>1, <1>2, Entered
<1>4. Depth \in Nat /\ Depth' = Depth + 1 /\ Top' = f
  BY <1>1, <1>3 DEF TypeOK, Depth, Top
<1>5. OnlyTopWorks' BY <1>3, <1>4 DEF OnlyTopWorks
<1>6. CallerActive BY DEF Enter
<1>7. MaskMatchesTable'
  <2>1. \A i \in handlers_usage_mask : handlers[i].type # NULL BY <1>6, Settled
  <2> QED BY <1>1, <2>1 DEF MaskMatchesTable
<1>8. NoTypeTwice' BY <1>1 DEF NoTypeTwice
<1>9. AddInv'
  <2>1. ~At("take")' /\ ~At("callback")' /\ ~At("type")' BY <1>4 DEF At
  <2>2. Adding' => step = "find" BY <1>4 DEF At, Adding
  <2> QED BY <1>4, <2>1, <2>2 DEF AddInv
<1>10. ClearInv'
  <2>1. ~At("mask")' BY <1>4 DEF At
  <2>2. Top'.idx = 0 BY <1>4
  <2>3. \A i \in Slot : ~(i < 0) BY MaxHandlersAssumption DEF Slot
  <2> QED BY <2>1, <2>2, <2>3 DEF ClearInv
<1> QED BY <1>3, <1>5, <1>7, <1>8, <1>9, <1>10

\* The stack after a call was left: the innermost call waits for its callback.
LEMMA LeaveInv ==
  ASSUME IInv, Depth > 0, Leave
  PROVE  stack' \in Seq(Frame) /\ OnlyTopWorks' /\ CallerActive' /\ AddInv' /\ ClearInv'
<1>1. TypeOK /\ OnlyTopWorks BY DEF IInv
<1>2. /\ stack' \in Seq(Frame)
      /\ Len(stack') = Depth - 1
      /\ \A d \in 1 .. Depth - 1 : stack'[d] = stack[d] /\ stack'[d].at = "call"
  BY <1>1, Left
<1>3. Depth \in Nat /\ Depth' = Depth - 1 BY <1>1, <1>2 DEF TypeOK, Depth
<1>4. OnlyTopWorks' BY <1>2, <1>3 DEF OnlyTopWorks
<1>5. CallerActive' BY <1>2, <1>3 DEF CallerActive, Top
<1>6. \A step \in {"find", "take", "callback", "type", "memset", "mask"} : ~At(step)'
  BY <1>5 DEF CallerActive, At
<1> QED BY <1>2, <1>4, <1>5, <1>6 DEF AddInv, ClearInv, Adding

\* The stack after the innermost call took a step.
LEMMA StepInv ==
  ASSUME IInv, Depth > 0, NEW f \in Frame, stack' = [stack EXCEPT ![Depth] = f]
  PROVE  stack' \in Seq(Frame) /\ OnlyTopWorks' /\ Depth' = Depth /\ Top' = f
<1>1. TypeOK /\ OnlyTopWorks BY DEF IInv
<1>2. /\ stack' \in Seq(Frame)
      /\ Len(stack') = Depth
      /\ stack'[Depth] = f
      /\ \A d \in 1 .. Depth - 1 : stack'[d] = stack[d] /\ stack'[d].at = "call"
  BY <1>1, Replaced
<1> QED BY <1>2 DEF OnlyTopWorks, Depth, Top

-----------------------------------------------------------------------------
\* One lemma per step of the main program.

\* The search for a duplicate keeps the invariant: when it finds none, the type is
\* in no slot.
LEMMA FindStep ==
  ASSUME IInv, FindDuplicate
  PROVE  IInv'
<1>1. TypeOK /\ MaskMatchesTable /\ NoTypeTwice /\ AddInv /\ Depth > 0 /\ At("find")
      /\ UNCHANGED <<handlers, handlers_usage_mask, served>>
  BY DEF IInv, FindDuplicate, At
<1>2. Top \in Frame /\ Top.type \in Types /\ Top.callback \in Callbacks
  BY <1>1, TopFrame DEF AddInv, Adding
<1>3. CASE Holding(Top.type) # {}
  <2>1. Leave /\ Answer("add_handler", Top.type, FALSE) BY <1>3 DEF FindDuplicate
  <2>2. stack' \in Seq(Frame) /\ OnlyTopWorks' /\ CallerActive' /\ AddInv' /\ ClearInv'
    BY <1>1, <2>1, LeaveInv
  <2>3. TypeOK' BY <1>1, <1>2, <2>1, <2>2 DEF TypeOK, Answer
  <2>4. MaskMatchesTable'
    <3>1. ~At("callback") /\ ~At("type") /\ ~At("memset") /\ ~At("mask") BY <1>1 DEF At
    <3> QED BY <1>1, <3>1 DEF MaskMatchesTable, Filling, Clearing
  <2>5. NoTypeTwice' BY <1>1 DEF NoTypeTwice
  <2> QED BY <2>2, <2>3, <2>4, <2>5 DEF IInv
<1>4. CASE Holding(Top.type) = {}
  <2> DEFINE f == [Top EXCEPT !.at = "take"]
  <2>1. stack' = [stack EXCEPT ![Depth] = f] /\ answer' = answer
    BY <1>4 DEF FindDuplicate, Goto, Top
  <2>2. f \in Frame BY <1>2 DEF Frame, Steps
  <2>3. stack' \in Seq(Frame) /\ OnlyTopWorks' /\ Depth' = Depth /\ Top' = f
    <3> HIDE DEF f
    <3> QED BY <1>1, <2>1, <2>2, StepInv
  <2>4. f.at = "take" /\ f.type = Top.type /\ f.callback = Top.callback BY <1>2 DEF Frame, Steps
  <2>5. TypeOK' BY <1>1, <2>1, <2>3 DEF TypeOK
  <2>6. MaskMatchesTable'
    <3>1. ~At("callback") /\ ~At("type") /\ ~At("memset") /\ ~At("mask") BY <1>1 DEF At
    <3> QED BY <1>1, <3>1 DEF MaskMatchesTable, Filling, Clearing
  <2>7. NoTypeTwice' BY <1>1 DEF NoTypeTwice
  <2>8. AddInv'
    <3>1. ~At("callback")' /\ ~At("type")' BY <2>3, <2>4 DEF At
    <3>2. Holding(Top.type)' = {} BY <1>1, <1>4, <2>3, <2>4 DEF Holding
    <3> HIDE DEF f
    <3> QED BY <1>2, <2>3, <2>4, <3>1, <3>2 DEF AddInv
  <2>9. ClearInv' BY <2>3, <2>4 DEF ClearInv, At
  <2> QED BY <2>3, <2>5, <2>6, <2>7, <2>8, <2>9 DEF IInv
<1> QED BY <1>3, <1>4

\* Taking the first unused slot keeps the invariant: the slot is all zero.
LEMMA TakeStep ==
  ASSUME IInv, TakeSlot
  PROVE  IInv'
<1>1. /\ TypeOK /\ MaskMatchesTable /\ NoTypeTwice /\ AddInv /\ Depth > 0 /\ At("take")
      /\ UNCHANGED <<handlers, served>>
  BY DEF IInv, TakeSlot, At
<1>2. /\ Top \in Frame /\ Top.type \in Types /\ Top.callback \in Callbacks
      /\ Holding(Top.type) = {}
  BY <1>1, TopFrame DEF AddInv, Adding
<1>3. ~At("callback") /\ ~At("type") /\ ~At("memset") /\ ~At("mask") BY <1>1 DEF At
<1>4. CASE /\ Leave
           /\ Answer("add_handler", Top.type, FALSE)
           /\ UNCHANGED handlers_usage_mask
  <2>1. stack' \in Seq(Frame) /\ OnlyTopWorks' /\ CallerActive' /\ AddInv' /\ ClearInv'
    BY <1>1, <1>4, LeaveInv
  <2>2. TypeOK' BY <1>1, <1>2, <1>4, <2>1 DEF TypeOK, Answer
  <2>3. MaskMatchesTable'
    BY <1>1, <1>3, <1>4 DEF MaskMatchesTable, Filling, Clearing
  <2>4. NoTypeTwice' BY <1>1, <1>4 DEF NoTypeTwice
  <2> QED BY <2>1, <2>2, <2>3, <2>4 DEF IInv
<1>5. ASSUME NEW i \in Unused,
             handlers_usage_mask' = handlers_usage_mask \cup {i},
             stack' = [stack EXCEPT ![Depth].at = "callback", ![Depth].idx = i],
             UNCHANGED answer
      PROVE  IInv'
  <2> DEFINE f == [Top EXCEPT !.at = "callback", !.idx = i]
  <2>1. i \in Slot /\ i \notin handlers_usage_mask BY DEF Unused
  <2>2. f \in Frame BY <1>2, <2>1 DEF Frame, Steps
  <2>3. stack' = [stack EXCEPT ![Depth] = f]
    BY <1>1, <1>5 DEF TypeOK, Top, Depth
  <2>4. stack' \in Seq(Frame) /\ OnlyTopWorks' /\ Depth' = Depth /\ Top' = f
    <3> HIDE DEF f
    <3> QED BY <1>1, <2>2, <2>3, StepInv
  <2>5. f.at = "callback" /\ f.idx = i /\ f.type = Top.type /\ f.callback = Top.callback
    BY <1>2 DEF Frame, Steps
  <2> HIDE DEF f
  <2>6. handlers[i] = ZeroHandler BY <1>1, <2>1 DEF MaskMatchesTable
  <2>7. handlers[i].type = NULL BY <2>6 DEF ZeroHandler
  <2>8. TypeOK' BY <1>1, <1>5, <2>1, <2>4 DEF TypeOK
  <2>9. MaskMatchesTable'
    <3>1. Filling(i)' BY <1>1, <2>4, <2>5 DEF Filling, At
    <3> QED BY <1>1, <1>3, <1>5, <3>1 DEF MaskMatchesTable, Filling, Clearing
  <2>10. NoTypeTwice' BY <1>1, <1>5, <2>7 DEF NoTypeTwice
  <2>11. AddInv'
    <3>1. ~At("type")' BY <2>4, <2>5 DEF At
    <3>2. Holding(Top.type)' = {}
      <4>1. Top.type # NULL BY <1>2, PointersAssumption
      <4> QED BY <1>1, <1>2, <1>5, <2>4, <2>5, <2>7, <4>1 DEF Holding
    <3>3. (Top.idx \in handlers_usage_mask /\ handlers[Top.idx].type = NULL)'
      BY <1>1, <1>5, <2>4, <2>5, <2>7
    <3> QED BY <1>2, <2>4, <2>5, <3>1, <3>2, <3>3 DEF AddInv
  <2>12. ClearInv' BY <2>4, <2>5 DEF ClearInv, At
  <2> QED BY <2>4, <2>8, <2>9, <2>10, <2>11, <2>12 DEF IInv
<1> QED BY <1>4, <1>5 DEF TakeSlot

\* Writing the callback keeps the invariant: the slot shows no type yet.
LEMMA CallbackStep ==
  ASSUME IInv, WriteCallback
  PROVE  IInv'
<1> DEFINE f == [Top EXCEPT !.at = "type"]
           i == Top.idx
<1>1. /\ TypeOK /\ MaskMatchesTable /\ NoTypeTwice /\ AddInv /\ Depth > 0 /\ At("callback")
      /\ UNCHANGED <<handlers_usage_mask, answer, served>>
      /\ handlers' = [handlers EXCEPT ![i].callback = Top.callback]
      /\ stack' = [stack EXCEPT ![Depth] = f]
  BY DEF IInv, WriteCallback, At, Goto, Top
<1>2. /\ Top \in Frame /\ Top.type \in Types /\ Top.callback \in Callbacks
      /\ Holding(Top.type) = {} /\ i \in handlers_usage_mask /\ handlers[i].type = NULL
      /\ i \in Slot
  BY <1>1, TopFrame DEF AddInv, Adding, Frame, Steps
<1>3. ~At("memset") /\ ~At("mask") BY <1>1 DEF At
<1>4. f \in Frame /\ f.at = "type" /\ f.idx = i /\ f.type = Top.type /\ f.callback = Top.callback
  BY <1>2 DEF Frame, Steps
<1>5. stack' \in Seq(Frame) /\ OnlyTopWorks' /\ Depth' = Depth /\ Top' = f
  <2> HIDE DEF f
  <2> QED BY <1>1, <1>4, StepInv
<1> HIDE DEF f
<1>6. /\ handlers' \in [Slot -> Handler]
      /\ handlers'[i].type = NULL /\ handlers'[i].callback = Top.callback
      /\ \A j \in Slot : j # i => handlers'[j] = handlers[j]
      /\ \A j \in Slot : handlers'[j].type = handlers[j].type
  BY <1>1, <1>2 DEF TypeOK, Handler
<1>7. TypeOK' BY <1>1, <1>5, <1>6 DEF TypeOK
<1>8. MaskMatchesTable'
  <2>1. At("type")' /\ Top'.idx = i BY <1>1, <1>4, <1>5 DEF At
  <2>2. \A j \in Slot : Filling(j) => j = i BY DEF Filling
  <2> SUFFICES ASSUME NEW j \in Slot
               PROVE  /\ j \notin handlers_usage_mask => handlers'[j] = ZeroHandler
                      /\ handlers'[j].type # NULL => handlers'[j].callback # NULL
                      /\ j \in handlers_usage_mask /\ handlers'[j].type = NULL
                           => Filling(j)' \/ Clearing'
    BY <1>1 DEF MaskMatchesTable
  <2>3. CASE j = i
    <3>1. Filling(j)' BY <2>1, <2>3 DEF Filling
    <3> QED BY <1>2, <1>6, <2>3, <3>1
  <2>4. CASE j # i BY <1>1, <1>3, <1>6, <2>2, <2>4 DEF MaskMatchesTable, Clearing
  <2> QED BY <2>3, <2>4
<1>9. \A j \in handlers_usage_mask : j \in Slot BY <1>1 DEF TypeOK
<1>10. NoTypeTwice' BY <1>1, <1>6, <1>9 DEF NoTypeTwice
<1>11. AddInv'
  <2>1. Holding(Top.type)' = {} BY <1>1, <1>2, <1>4, <1>5, <1>6, <1>9 DEF Holding
  <2> QED BY <1>1, <1>2, <1>4, <1>5, <1>6, <2>1 DEF AddInv
<1>12. ClearInv' BY <1>4, <1>5 DEF ClearInv, At
<1> QED BY <1>5, <1>7, <1>8, <1>10, <1>11, <1>12 DEF IInv

\* Writing the type keeps the invariant: no other slot holds it.
LEMMA TypeStep ==
  ASSUME IInv, WriteType
  PROVE  IInv'
<1> DEFINE i == Top.idx
<1>1. /\ TypeOK /\ MaskMatchesTable /\ NoTypeTwice /\ AddInv /\ Depth > 0 /\ At("type")
      /\ UNCHANGED <<handlers_usage_mask, served>>
      /\ handlers' = [handlers EXCEPT ![i].type = Top.type]
      /\ Leave /\ Answer("add_handler", Top.type, TRUE)
  BY DEF IInv, WriteType, At
<1>2. /\ Top \in Frame /\ Top.type \in Types /\ Top.callback \in Callbacks
      /\ Holding(Top.type) = {} /\ i \in handlers_usage_mask /\ handlers[i].type = NULL
      /\ handlers[i].callback = Top.callback /\ i \in Slot
  BY <1>1, TopFrame DEF AddInv, Adding, Frame, Steps
<1>3. ~At("memset") /\ ~At("mask") BY <1>1 DEF At
<1>4. stack' \in Seq(Frame) /\ OnlyTopWorks' /\ CallerActive' /\ AddInv' /\ ClearInv'
  BY <1>1, LeaveInv
<1>5. /\ handlers' \in [Slot -> Handler]
      /\ handlers'[i].type = Top.type /\ handlers'[i].callback = Top.callback
      /\ \A j \in Slot : j # i => handlers'[j] = handlers[j]
  BY <1>1, <1>2 DEF TypeOK, Handler
<1>6. TypeOK' BY <1>1, <1>2, <1>4, <1>5 DEF TypeOK, Answer
<1>7. Top.type # NULL /\ Top.callback # NULL BY <1>2, PointersAssumption
<1>8. MaskMatchesTable'
  <2>1. \A j \in Slot : Filling(j) => j = i BY DEF Filling
  <2> SUFFICES ASSUME NEW j \in Slot
               PROVE  /\ j \notin handlers_usage_mask => handlers'[j] = ZeroHandler
                      /\ handlers'[j].type # NULL => handlers'[j].callback # NULL
                      /\ j \in handlers_usage_mask => handlers'[j].type # NULL
    BY <1>1 DEF MaskMatchesTable
  <2>2. CASE j = i BY <1>2, <1>5, <1>7, <2>2
  <2>3. CASE j # i BY <1>1, <1>3, <1>5, <2>1, <2>3 DEF MaskMatchesTable, Clearing
  <2> QED BY <2>2, <2>3
<1>9. \A j \in handlers_usage_mask : j \in Slot /\ handlers[j].type # Top.type
  BY <1>1, <1>2 DEF TypeOK, Holding
<1>10. NoTypeTwice'
  <2> SUFFICES ASSUME NEW j \in handlers_usage_mask, NEW k \in handlers_usage_mask,
                      handlers'[j].type = handlers'[k].type, handlers'[j].type # NULL
               PROVE  j = k
    BY <1>1 DEF NoTypeTwice
  <2>1. CASE j # i /\ k # i BY <1>1, <1>5, <1>9, <2>1 DEF NoTypeTwice
  <2>2. CASE j = i /\ k # i BY <1>5, <1>9, <2>2
  <2>3. CASE j # i /\ k = i BY <1>5, <1>9, <2>3
  <2> QED BY <2>1, <2>2, <2>3
<1> QED BY <1>4, <1>6, <1>8, <1>10 DEF IInv

\* Zeroing a slot keeps the invariant.
LEMMA ClearSlotStep ==
  ASSUME IInv, ClearSlot
  PROVE  IInv'
<1> DEFINE i == Top.idx
           next == [Top EXCEPT !.idx = @ + 1]
           done == [Top EXCEPT !.at = "mask"]
           f == IF i + 1 \in Slot THEN next ELSE done
<1>1. /\ TypeOK /\ MaskMatchesTable /\ NoTypeTwice /\ ClearInv /\ Depth > 0 /\ At("memset")
      /\ UNCHANGED <<handlers_usage_mask, answer, served>>
      /\ handlers' = [handlers EXCEPT ![i] = ZeroHandler]
      /\ stack' = [stack EXCEPT ![Depth] = f]
  BY DEF IInv, ClearSlot, At, Top
<1>2. Top \in Frame /\ i \in Slot /\ Top.at = "memset"
  BY <1>1, TopFrame DEF Frame, Steps, At
<1>3. /\ f \in Frame
      /\ i + 1 \in Slot => f.at = "memset" /\ f.idx = i + 1
      /\ i + 1 \notin Slot => f.at = "mask"
  BY <1>2 DEF Frame, Steps
<1>4. stack' \in Seq(Frame) /\ OnlyTopWorks' /\ Depth' = Depth /\ Top' = f
  <2> HIDE DEF f
  <2> QED BY <1>1, <1>3, StepInv
<1> HIDE DEF f
<1>5. ZeroHandler \in Handler /\ ZeroHandler.type = NULL BY DEF ZeroHandler, Handler
<1>6. /\ handlers' \in [Slot -> Handler]
      /\ handlers'[i] = ZeroHandler
      /\ \A j \in Slot : j # i => handlers'[j] = handlers[j]
  BY <1>1, <1>2, <1>5 DEF TypeOK
<1>7. TypeOK' BY <1>1, <1>4, <1>6 DEF TypeOK
<1>8. Clearing' BY <1>1, <1>3, <1>4 DEF Clearing, At
<1>9. MaskMatchesTable' BY <1>1, <1>5, <1>6, <1>8 DEF MaskMatchesTable
<1>10. NoTypeTwice'
  <2>1. \A j \in handlers_usage_mask : j \in Slot BY <1>1 DEF TypeOK
  <2> QED BY <1>1, <1>5, <1>6, <2>1 DEF NoTypeTwice
<1>11. AddInv' BY <1>3, <1>4 DEF AddInv, Adding, At
<1>12. ClearInv'
  <2>1. MaxHandlers \in Nat /\ i \in 0 .. MaxHandlers - 1
    BY <1>2, MaxHandlersAssumption DEF Slot
  <2>2. \A j \in Slot : j < i => handlers[j] = ZeroHandler BY <1>1 DEF ClearInv
  <2>3. \A j \in Slot : j < i + 1 => handlers'[j] = ZeroHandler
    BY <1>6, <2>1, <2>2 DEF Slot
  <2>4. i + 1 \notin Slot => \A j \in Slot : j < i + 1 BY <2>1 DEF Slot
  <2> QED BY <1>3, <1>4, <2>3, <2>4 DEF ClearInv, At
<1> QED BY <1>4, <1>7, <1>9, <1>10, <1>11, <1>12 DEF IInv

\* Clearing the mask keeps the invariant: every slot has been zeroed.
LEMMA ClearMaskStep ==
  ASSUME IInv, ClearMask
  PROVE  IInv'
<1>1. /\ TypeOK /\ ClearInv /\ Depth > 0 /\ At("mask") /\ Leave
      /\ handlers_usage_mask' = {} /\ UNCHANGED <<handlers, answer, served>>
  BY DEF IInv, ClearMask, At
<1>2. stack' \in Seq(Frame) /\ OnlyTopWorks' /\ CallerActive' /\ AddInv' /\ ClearInv'
  BY <1>1, LeaveInv
<1>3. \A j \in Slot : handlers[j] = ZeroHandler BY <1>1 DEF ClearInv
<1>4. ZeroHandler.type = NULL BY DEF ZeroHandler
<1>5. TypeOK' BY <1>1, <1>2 DEF TypeOK
<1>6. MaskMatchesTable' BY <1>1, <1>3, <1>4 DEF MaskMatchesTable
<1>7. NoTypeTwice' BY <1>1 DEF NoTypeTwice
<1> QED BY <1>2, <1>5, <1>6, <1>7 DEF IInv

\* A dispatch calls what the slot of its type holds.
LEMMA DispatchType ==
  ASSUME TypeOK, NEW type \in Types \cup {NULL}, Holding(type) # {}, Dispatch(type)
  PROVE  /\ served' \in Dispatched
         /\ find_handler(type) \in handlers_usage_mask
         /\ served'.type = type
         /\ handlers[find_handler(type)].type = type
         /\ served'.callback = handlers[find_handler(type)].callback
         /\ served'.during = IF Depth > 0 THEN Top.at ELSE "idle"
<1>1. find_handler(type) \in handlers_usage_mask /\ handlers[find_handler(type)].type = type
  BY Found DEF Holding
<1>2. handlers[find_handler(type)].callback \in Callbacks \cup {NULL}
  BY <1>1 DEF TypeOK, Handler
<1>3. Depth > 0 => Top.at \in Steps BY TopFrame DEF Frame
<1> QED BY <1>1, <1>2, <1>3 DEF Dispatch, Dispatched

\* The invariant does not speak of answer and served.
LEMMA DispatchStep ==
  ASSUME IInv, NEW type \in Types \cup {NULL}, unmarshal(type) \/ Interrupt(type) \/ CallbackReturns
  PROVE  IInv'
<1>1. TypeOK /\ OnlyTopWorks /\ MaskMatchesTable /\ NoTypeTwice /\ AddInv /\ ClearInv
  BY DEF IInv
<1>2. CASE unmarshal(type) /\ Holding(type) # {}
  <2>1. /\ Enter("call", type, NULL) /\ Dispatch(type)
        /\ UNCHANGED <<handlers, handlers_usage_mask, answer>>
    BY <1>2 DEF unmarshal
  <2>2. stack' \in Seq(Frame) /\ (OnlyTopWorks /\ MaskMatchesTable /\ NoTypeTwice
                                    /\ AddInv /\ ClearInv)'
    BY <2>1, EnterInv
  <2>3. served' \in Dispatched
    BY <1>1, <1>2, <2>1, DispatchType
  <2>4. TypeOK' BY <1>1, <2>1, <2>2, <2>3 DEF TypeOK
  <2> QED BY <2>2, <2>4 DEF IInv
<1>3. CASE unmarshal(type) /\ Holding(type) = {}
  <2>1. /\ Answer("unmarshal", type, FALSE)
        /\ UNCHANGED <<handlers, handlers_usage_mask, stack, served>>
    BY <1>3 DEF unmarshal
  <2>2. TypeOK' BY <1>1, <2>1 DEF TypeOK, Answer
  <2> QED BY <1>1, <2>1, <2>2
      DEF IInv, OnlyTopWorks, MaskMatchesTable, NoTypeTwice, AddInv, ClearInv, Adding,
          Filling, Clearing, Holding, At, Top, Depth
<1>4. CASE Interrupt(type)
  <2>1. /\ Holding(type) # {} /\ Dispatch(type)
        /\ UNCHANGED <<handlers, handlers_usage_mask, stack, answer>>
    BY <1>4 DEF Interrupt
  <2>2. served' \in Dispatched
    BY <1>1, <2>1, DispatchType
  <2>3. TypeOK' BY <1>1, <2>1, <2>2 DEF TypeOK
  <2> QED BY <1>1, <2>1, <2>3
      DEF IInv, OnlyTopWorks, MaskMatchesTable, NoTypeTwice, AddInv, ClearInv, Adding,
          Filling, Clearing, Holding, At, Top, Depth
<1>5. CASE CallbackReturns
  <2>1. /\ Depth > 0 /\ At("call") /\ Leave /\ Answer("unmarshal", Top.type, TRUE)
        /\ UNCHANGED <<handlers, handlers_usage_mask, served>>
    BY <1>5 DEF CallbackReturns, At
  <2>2. stack' \in Seq(Frame) /\ OnlyTopWorks' /\ CallerActive' /\ AddInv' /\ ClearInv'
    BY <2>1, LeaveInv
  <2>3. Top \in Frame BY <1>1, <2>1, TopFrame
  <2>4. TypeOK' BY <1>1, <2>1, <2>2, <2>3 DEF TypeOK, Answer, Frame, Steps
  <2>5. ~At("callback") /\ ~At("type") /\ ~At("memset") /\ ~At("mask") BY <2>1 DEF At
  <2>6. MaskMatchesTable' BY <1>1, <2>1, <2>5 DEF MaskMatchesTable, Filling, Clearing
  <2>7. NoTypeTwice' BY <1>1, <2>1 DEF NoTypeTwice
  <2> QED BY <2>2, <2>4, <2>6, <2>7 DEF IInv
<1> QED BY <1>2, <1>3, <1>4, <1>5

\* Beginning add_handler or clear_handlers keeps the invariant.
LEMMA CallStep ==
  ASSUME IInv,
         clear_handlers \/ \E type \in Types, callback \in Callbacks : add_handler(type, callback)
  PROVE  IInv'
<1>1. TypeOK BY DEF IInv
<1>2. CASE clear_handlers
  <2>1. Enter("memset", NULL, NULL) /\ UNCHANGED <<handlers, handlers_usage_mask, answer, served>>
    BY <1>2 DEF clear_handlers
  <2>2. stack' \in Seq(Frame) /\ (OnlyTopWorks /\ MaskMatchesTable /\ NoTypeTwice
                                    /\ AddInv /\ ClearInv)'
    BY <2>1, EnterInv
  <2> QED BY <1>1, <2>1, <2>2 DEF IInv, TypeOK
<1>3. ASSUME NEW type \in Types, NEW callback \in Callbacks, add_handler(type, callback)
      PROVE  IInv'
  <2>1. Enter("find", type, callback) /\ UNCHANGED <<handlers, handlers_usage_mask, answer, served>>
    BY <1>3 DEF add_handler
  <2>2. stack' \in Seq(Frame) /\ (OnlyTopWorks /\ MaskMatchesTable /\ NoTypeTwice
                                    /\ AddInv /\ ClearInv)'
    BY <2>1, EnterInv
  <2> QED BY <1>1, <2>1, <2>2 DEF IInv, TypeOK
<1> QED BY <1>2, <1>3

\* Every step of the main program and of an interrupt keeps the invariant.
LEMMA InductiveStep == IInv /\ [Next]_vars => IInv'
<1> SUFFICES ASSUME IInv, [Next]_vars PROVE IInv'
  OBVIOUS
<1>1. CASE UNCHANGED vars
  BY <1>1 DEF vars, IInv, TypeOK, OnlyTopWorks, MaskMatchesTable, NoTypeTwice, AddInv, ClearInv,
              Adding, Filling, Clearing, Holding, At, Top, Depth
<1>2. CASE Calls
  BY <1>2, CallStep, DispatchStep DEF Calls
<1>3. CASE Main
  BY <1>3, FindStep, TakeStep, CallbackStep, TypeStep, ClearSlotStep, ClearMaskStep, DispatchStep
  DEF Main
<1>4. CASE Interrupts
  BY <1>4, InterruptAssumption, DispatchStep DEF Interrupts
<1> QED BY <1>1, <1>2, <1>3, <1>4 DEF Next

\* The inductive invariant holds in every reachable state.
THEOREM InductiveInvariant == Spec => []IInv
  BY InitIInv, InductiveStep, PTL DEF Spec

-----------------------------------------------------------------------------
\* Every variable keeps its shape; idx always names a slot of the table.
THEOREM TypeCorrect == Spec => []TypeOK
<1>1. IInv => TypeOK BY DEF IInv
<1> QED BY <1>1, InductiveInvariant, PTL

\* A type is never registered twice, whatever calls of add_handler and clear_handlers
\* come one after the other or from the callbacks of the main program.
THEOREM TypesOnce == Spec => []NoTypeTwice
<1>1. IInv => NoTypeTwice BY DEF IInv
<1> QED BY <1>1, InductiveInvariant, PTL

\* At every moment an interrupt can look, mask and table agree.
THEOREM MaskAndTableAgree == Spec => []MaskMatchesTable
<1>1. IInv => MaskMatchesTable BY DEF IInv
<1> QED BY <1>1, InductiveInvariant, PTL

\* A message of a known type is given to a registered function at every moment; one of
\* no known type is served only by an interrupt that finds a change half done, and is
\* given to the null pointer only in the steps the property names.
THEOREM Misserved == Spec => []MisservedOnlyHalfDone
<1>1. Init => MisservedOnlyHalfDone BY DEF Init, MisservedOnlyHalfDone
<1>2. ASSUME IInv, MisservedOnlyHalfDone, [Next]_vars PROVE MisservedOnlyHalfDone'
  <2>1. TypeOK /\ MaskMatchesTable /\ AddInv BY <1>2 DEF IInv
  <2>2. ASSUME NEW type \in Types \cup {NULL}, Holding(type) # {}, Dispatch(type)
        PROVE  MisservedOnlyHalfDone'
    <3> DEFINE i == find_handler(type)
    <3>1. /\ i \in handlers_usage_mask
          /\ handlers[i].type = type
          /\ served'.type = type
          /\ served'.callback = handlers[i].callback
          /\ served'.during = IF Depth > 0 THEN Top.at ELSE "idle"
      BY <2>1, <2>2, DispatchType
    <3>2. i \in Slot BY <2>1, <3>1 DEF TypeOK
    <3> HIDE DEF i
    <3>3. CASE type # NULL
      <4>1. served'.callback # NULL BY <2>1, <3>1, <3>2, <3>3 DEF MaskMatchesTable
      <4> QED BY <3>1, <3>3, <4>1 DEF MisservedOnlyHalfDone
    <3>4. CASE type = NULL
      <4>1. Filling(i) \/ Clearing BY <2>1, <3>1, <3>2, <3>4 DEF MaskMatchesTable
      <4>2. Depth > 0 /\ Top.at \in {"callback", "type", "memset", "mask"}
        BY <4>1 DEF Filling, Clearing, At
      <4>3. ASSUME Top.at = "type" PROVE handlers[i].callback # NULL
        <5>1. At("type") /\ Adding /\ i = Top.idx
          BY <4>1, <4>2, <4>3 DEF Filling, Clearing, At, Adding
        <5>2. handlers[i].callback = Top.callback /\ Top.callback \in Callbacks
          BY <2>1, <5>1 DEF AddInv
        <5> QED BY <5>2, PointersAssumption
      <4> QED BY <3>1, <3>4, <4>2, <4>3 DEF MisservedOnlyHalfDone
    <3> QED BY <3>3, <3>4
  <2>3. CASE UNCHANGED served
    BY <1>2, <2>3 DEF MisservedOnlyHalfDone
  <2>4. ASSUME NEW type \in Types \cup {NULL}, unmarshal(type)
        PROVE  MisservedOnlyHalfDone'
    BY <2>2, <2>3, <2>4 DEF unmarshal
  <2>5. ASSUME NEW type \in InterruptTypes, Interrupt(type)
        PROVE  MisservedOnlyHalfDone'
    BY <2>2, <2>5, InterruptAssumption DEF Interrupt
  <2> QED
    BY <1>2, <2>3, <2>4, <2>5
    DEF Next, Calls, Main, Interrupts, vars, add_handler, clear_handlers, FindDuplicate, TakeSlot,
        WriteCallback, WriteType, ClearSlot, ClearMask, CallbackReturns
<1> QED BY <1>1, <1>2, InductiveInvariant, PTL DEF Spec

-----------------------------------------------------------------------------
(***************************************************************************)
(* The registry of ProtoBuff implements HandlerMap, for any number of      *)
(* slots, types and callbacks: every step of add_handler, clear_handlers,  *)
(* unmarshal and the interrupts is a step of the map or leaves it alone.   *)
(* HalfDone is the map's variable changing.                                *)
(***************************************************************************)

\* A call that waits for its callback serves a message of a known type.
CallInv ==
  \A d \in 1 .. Depth : stack[d].at = "call" => stack[d].type \in Types /\ served # NULL

MapInv == IInv /\ CallInv

-----------------------------------------------------------------------------
\* The registry holds what the published slots hold.
RegistryFacts ==
  /\ Map!Registered = PublishedTypes
  /\ \A i \in Published : /\ handlers[i].type \in PublishedTypes
                          /\ Registry[handlers[i].type] = handlers[i].callback

\* The published slots and the registry hold the same types and callbacks.
LEMMA RegistryHolds == IInv => RegistryFacts
<1> SUFFICES ASSUME IInv PROVE RegistryFacts
  OBVIOUS
<1>1. Map!Registered = PublishedTypes BY DEF Map!Registered, Registry
<1>2. ASSUME NEW i \in Published
      PROVE  /\ handlers[i].type \in PublishedTypes
             /\ Registry[handlers[i].type] = handlers[i].callback
  <2> DEFINE t == handlers[i].type
  <2>1. t \in PublishedTypes BY DEF PublishedTypes
  <2>2. SlotOf(t) \in Published /\ handlers[SlotOf(t)].type = t BY DEF SlotOf
  <2>3. SlotOf(t) = i BY <2>2 DEF IInv, NoTypeTwice, Published
  <2> HIDE DEF t
  <2>4. Registry[t] = handlers[SlotOf(t)].callback BY <2>1 DEF Registry
  <2> QED BY <2>1, <2>3, <2>4 DEF t
<1> QED BY <1>1, <1>2 DEF RegistryFacts

\* The cardinality that the instance of HandlerMap uses is the usual one.
LEMMA SameCardinality ==
  ASSUME NEW S
  PROVE  Map!Cardinality(S) = Cardinality(S)
  BY Zenon DEF Map!Cardinality, Cardinality, Map!IsFiniteSet, IsFiniteSet

\* As many types are registered as slots are published.
LEMMA RegistrySize ==
  ASSUME IInv
  PROVE  /\ IsFiniteSet(Published)
         /\ Cardinality(Map!Registered) = Cardinality(Published)
<1>1. IsFiniteSet(Slot) BY MaxHandlersAssumption, FS_Interval DEF Slot
<1>2. Published \in SUBSET Slot BY DEF Published, IInv, TypeOK
<1>3. IsFiniteSet(Published) BY <1>1, <1>2, FS_Subset
<1> DEFINE f == [i \in Published |-> handlers[i].type]
<1>4. f \in Bijection(Published, PublishedTypes)
  <2>1. f \in [Published -> PublishedTypes] BY DEF PublishedTypes
  <2>2. \A t \in PublishedTypes : \E i \in Published : f[i] = t BY DEF PublishedTypes
  <2>3. \A i, j \in Published : f[i] = f[j] => i = j
    BY DEF IInv, NoTypeTwice, Published
  <2> QED BY <2>1, <2>2, <2>3 DEF Bijection, Injection, Surjection, IsInjective
<1>5. ExistsBijection(Published, PublishedTypes) BY <1>4 DEF ExistsBijection
<1>6. Cardinality(PublishedTypes) = Cardinality(Published) BY <1>3, <1>5, FS_Bijection
<1>7. Map!Registered = PublishedTypes BY RegistryHolds DEF RegistryFacts
<1> QED BY <1>3, <1>6, <1>7

\* A step that leaves the published slots as they are leaves the registry as it is.
LEMMA SameRegistry ==
  ASSUME IInv, IInv', Published' = Published,
         \A i \in Published : handlers'[i] = handlers[i]
  PROVE  Registry' = Registry
<1>1. /\ Map!Registered = PublishedTypes
      /\ \A i \in Published : Registry[handlers[i].type] = handlers[i].callback
  BY RegistryHolds DEF RegistryFacts
<1>2. \A i \in Published' : Registry'[handlers'[i].type] = handlers'[i].callback
  <2>1. IInv' OBVIOUS
  <2>2. RegistryFacts' BY <2>1, RegistryHolds, PTL
  <2> QED BY <2>2 DEF RegistryFacts
<1>3. PublishedTypes' = PublishedTypes BY DEF PublishedTypes
<1>4. ASSUME NEW t \in PublishedTypes PROVE Registry'[t] = Registry[t]
  <2>1. PICK i \in Published : t = handlers[i].type BY DEF PublishedTypes
  <2> QED BY <1>1, <1>2, <2>1
<1>5. /\ Registry = [t \in PublishedTypes |-> Registry[t]]
      /\ Registry' = [t \in PublishedTypes |-> Registry'[t]]
  BY <1>3 DEF Registry
<1> QED BY <1>4, <1>5

-----------------------------------------------------------------------------
\* HalfDone is a truth value, so that it is unchanged when it is false before and after.
LEMMA HalfDoneBoolean == HalfDone \in BOOLEAN /\ HalfDone' \in BOOLEAN
  BY Zenon DEF HalfDone, Clearing, At

\* What the map sees of a dispatch.
LEMMA DispatchShown ==
  ASSUME TypeOK, NEW type \in Types \cup {NULL}, Holding(type) # {}, Dispatch(type)
  PROVE  /\ served' # NULL
         /\ ServedMessage' = [type |-> type, callback |-> handlers[find_handler(type)].callback]
<1>1. /\ served' \in Dispatched
      /\ served'.type = type
      /\ served'.callback = handlers[find_handler(type)].callback
  BY DispatchType
<1>2. served' # NULL BY <1>1, NullAssumption
<1> QED BY <1>1, <1>2 DEF ServedMessage

\* The map sees nothing of a step that leaves served alone.
LEMMA NothingShown == ASSUME UNCHANGED served PROVE UNCHANGED ServedMessage
  BY DEF ServedMessage

\* No change is under way while the main program may call, nor while add_handler
\* searches the table and the mask.
LEMMA NotHalfDone == CallerActive \/ At("find") \/ At("take") => ~HalfDone
  BY DEF CallerActive, HalfDone, Clearing, At

\* The innermost call goes on to its next step.
LEMMA Moved ==
  ASSUME IInv, Depth > 0, NEW step \in Steps, Goto(step)
  PROVE  At(step)'
<1> DEFINE f == [Top EXCEPT !.at = step]
<1>1. Top \in Frame BY TopFrame DEF IInv
<1>2. f \in Frame /\ f.at = step BY <1>1 DEF Frame
<1>3. stack' = [stack EXCEPT ![Depth] = f] BY DEF Goto, Top
<1> HIDE DEF f
<1>4. Depth' = Depth /\ Top' = f BY <1>2, <1>3, StepInv
<1> QED BY <1>2, <1>4 DEF At

\* A dispatch, in the main program or from an interrupt, serves the callback that
\* the map holds for the type.
LEMMA ServeImplemented ==
  ASSUME IInv, NEW type \in Types, Holding(type) # {}, Dispatch(type), answer' = answer,
         UNCHANGED <<handlers, handlers_usage_mask, HalfDone>>
  PROVE  Map!Serve(type)
<1> DEFINE i == find_handler(type)
<1>1. TypeOK BY DEF IInv
<1>2. /\ i \in handlers_usage_mask
      /\ handlers[i].type = type
      /\ ServedMessage' = [type |-> type, callback |-> handlers[i].callback]
  BY <1>1, DispatchType, DispatchShown
<1>3. type # NULL BY PointersAssumption
<1> HIDE DEF i
<1>4. i \in Published BY <1>2, <1>3 DEF Published
<1>5. type \in Map!Registered /\ Registry[type] = handlers[i].callback
  BY <1>2, <1>4, RegistryHolds DEF RegistryFacts
<1>6. Registry' = Registry
  BY DEF Registry, PublishedTypes, SlotOf, Published
<1> QED BY <1>2, <1>5, <1>6 DEF Map!Serve

\* Outside the steps of add_handler and clear_handlers only a known type is found.
LEMMA CallerKnows ==
  ASSUME IInv, CallerActive, NEW type \in Types \cup {NULL}, Holding(type) # {}
  PROVE  type \in Types
<1>1. PICK i \in handlers_usage_mask : handlers[i].type = type BY DEF Holding
<1> QED BY <1>1, Settled

\* The invariant of the refinement holds before any call.
LEMMA InitMapInv == Init => MapInv
<1> SUFFICES ASSUME Init PROVE MapInv
  OBVIOUS
<1>1. Depth = 0 BY DEF Init, Depth
<1> QED BY <1>1, InitIInv DEF MapInv, CallInv

\* Every step keeps CallInv.
LEMMA CallInvStep ==
  ASSUME MapInv, Next
  PROVE  CallInv'
<1>1. IInv /\ TypeOK /\ OnlyTopWorks /\ CallInv BY DEF MapInv, IInv
<1>2. stack \in Seq(Frame) /\ Depth = Len(stack) /\ Depth \in Nat
  BY <1>1 DEF TypeOK, Depth
<1>3. ASSUME NEW step, NEW type, NEW callback, Enter(step, type, callback),
             step # "call", UNCHANGED served
      PROVE  CallInv'
  <2> DEFINE f == [at |-> step, type |-> type, callback |-> callback, idx |-> 0]
  <2>1. stack' = Append(stack, f) BY <1>3 DEF Enter
  <2>2. f.at = step OBVIOUS
  <2> HIDE DEF f
  <2>3. /\ Depth' = Depth + 1 /\ stack'[Depth + 1] = f
        /\ \A d \in 1 .. Depth : stack'[d] = stack[d]
    BY <1>2, <2>1 DEF Depth
  <2> QED BY <1>1, <1>2, <1>3, <2>2, <2>3 DEF CallInv
<1>4. ASSUME Leave, Depth > 0, UNCHANGED served PROVE CallInv'
  <2>1. Depth' = Depth - 1 /\ \A d \in 1 .. Depth - 1 : stack'[d] = stack[d]
    BY <1>1, <1>4, Left DEF Depth
  <2> QED BY <1>1, <1>2, <1>4, <2>1 DEF CallInv
<1>5. ASSUME NEW f, stack' = [stack EXCEPT ![Depth] = f], f.at # "call", Depth > 0,
             UNCHANGED served
      PROVE  CallInv'
  <2>1. Depth' = Depth /\ \A d \in 1 .. Depth : stack'[d] = IF d = Depth THEN f ELSE stack[d]
    BY <1>2, <1>5 DEF Depth
  <2> QED BY <1>1, <1>2, <1>5, <2>1 DEF CallInv
<1>6. ASSUME NEW type \in Types \cup {NULL}, unmarshal(type) PROVE CallInv'
  <2>1. CASE Holding(type) # {}
    <3>1. /\ Enter("call", type, NULL) /\ CallerActive /\ Dispatch(type)
          /\ UNCHANGED <<handlers, handlers_usage_mask, answer>>
      BY <1>6, <2>1 DEF unmarshal, Enter
    <3>2. type \in Types BY <1>1, <2>1, <3>1, CallerKnows
    <3>3. served' # NULL BY <1>1, <2>1, <3>1, DispatchShown
    <3> DEFINE f == [at |-> "call", type |-> type, callback |-> NULL, idx |-> 0]
    <3>4. stack' = Append(stack, f) /\ f.type = type BY <3>1 DEF Enter
    <3> HIDE DEF f
    <3>5. /\ Depth' = Depth + 1 /\ stack'[Depth + 1] = f
          /\ \A d \in 1 .. Depth : stack'[d] = stack[d]
      BY <1>2, <3>4 DEF Depth
    <3> QED BY <1>1, <1>2, <3>2, <3>3, <3>4, <3>5 DEF CallInv
  <2>2. CASE Holding(type) = {}
    <3>1. UNCHANGED <<stack, served>> BY <1>6, <2>2 DEF unmarshal
    <3> QED BY <1>1, <3>1 DEF CallInv, Depth
  <2> QED BY <2>1, <2>2
<1>7. ASSUME NEW type \in InterruptTypes, Interrupt(type) PROVE CallInv'
  <2>1. type \in Types \cup {NULL} BY InterruptAssumption
  <2>2. served' # NULL BY <1>1, <1>7, <2>1, DispatchShown DEF Interrupt
  <2>3. UNCHANGED stack BY <1>7 DEF Interrupt
  <2> QED BY <1>1, <2>2, <2>3 DEF CallInv, Depth
<1>8. CASE FindDuplicate
  <2>1. Depth > 0 /\ UNCHANGED served BY <1>8 DEF FindDuplicate, At
  <2> DEFINE f == [Top EXCEPT !.at = "take"]
  <2>2. f.at = "take" BY <1>1, <2>1, TopFrame DEF Frame, Steps
  <2>3. Leave \/ stack' = [stack EXCEPT ![Depth] = f] BY <1>8 DEF FindDuplicate, Goto, Top
  <2> HIDE DEF f
  <2> QED BY <1>4, <1>5, <2>1, <2>2, <2>3
<1>9. CASE TakeSlot
  <2>1. Depth > 0 /\ UNCHANGED served BY <1>9 DEF TakeSlot, At
  <2>2. CASE Leave BY <1>4, <2>1, <2>2
  <2>3. ASSUME NEW i \in Unused,
               stack' = [stack EXCEPT ![Depth].at = "callback", ![Depth].idx = i]
        PROVE  CallInv'
    <3> DEFINE f == [Top EXCEPT !.at = "callback", !.idx = i]
    <3>1. f.at = "callback" BY <1>1, <2>1, TopFrame DEF Frame, Steps
    <3>2. stack' = [stack EXCEPT ![Depth] = f] BY <1>2, <2>1, <2>3 DEF Top
    <3> HIDE DEF f
    <3> QED BY <1>5, <2>1, <3>1, <3>2
  <2> QED BY <1>9, <2>2, <2>3 DEF TakeSlot
<1>10. CASE WriteCallback
  <2>1. Depth > 0 /\ UNCHANGED served BY <1>10 DEF WriteCallback, At
  <2> DEFINE f == [Top EXCEPT !.at = "type"]
  <2>2. f.at = "type" BY <1>1, <2>1, TopFrame DEF Frame, Steps
  <2>3. stack' = [stack EXCEPT ![Depth] = f] BY <1>10 DEF WriteCallback, Goto, Top
  <2> HIDE DEF f
  <2> QED BY <1>5, <2>1, <2>2, <2>3
<1>11. CASE ClearSlot
  <2>1. Depth > 0 /\ UNCHANGED served /\ Top.at = "memset" BY <1>11 DEF ClearSlot, At
  <2> DEFINE f == IF Top.idx + 1 \in Slot THEN [Top EXCEPT !.idx = @ + 1]
                  ELSE [Top EXCEPT !.at = "mask"]
  <2>2. f.at # "call" BY <1>1, <2>1, TopFrame DEF Frame, Steps
  <2>3. stack' = [stack EXCEPT ![Depth] = f] BY <1>11 DEF ClearSlot, Top
  <2> HIDE DEF f
  <2> QED BY <1>5, <2>1, <2>2, <2>3
<1>12. CASE WriteType \/ ClearMask \/ CallbackReturns
  <2>1. Depth > 0 /\ UNCHANGED served /\ Leave
    BY <1>12 DEF WriteType, ClearMask, CallbackReturns, At
  <2> QED BY <1>4, <2>1
<1>13. CASE clear_handlers
  BY <1>3, <1>13 DEF clear_handlers
<1>14. ASSUME NEW type \in Types, NEW callback \in Callbacks, add_handler(type, callback)
       PROVE  CallInv'
  BY <1>3, <1>14 DEF add_handler
<1> QED
  BY <1>6, <1>7, <1>8, <1>9, <1>10, <1>11, <1>12, <1>13, <1>14
  DEF Next, Calls, Main, Interrupts

-----------------------------------------------------------------------------
\* The steps that are steps of the map.

\* The initial state of the program is the empty map.
LEMMA EmptyImplemented == Init => Map!Empty
<1> SUFFICES ASSUME Init PROVE Map!Empty
  OBVIOUS
<1>1. Published = {} BY DEF Init, Published
<1>2. PublishedTypes = {} BY <1>1 DEF PublishedTypes
<1>3. ~HalfDone BY DEF Init, HalfDone, Clearing, At, Depth
<1>4. HalfDone = FALSE BY <1>3 DEF HalfDone, Clearing, At
<1> QED BY <1>2, <1>4 DEF Init, Registry, ServedMessage, Map!Empty

\* add_handler refuses a type that is registered, or any type when the registry is full.
LEMMA RefuseImplemented ==
  ASSUME IInv, IInv', NEW type \in Types, Answer("add_handler", type, FALSE),
         UNCHANGED <<handlers, handlers_usage_mask, served>>, ~HalfDone, ~HalfDone',
         \/ Holding(type) # {}
         \/ At("take") /\ Unused = {}
  PROVE  Map!Refuse(type)
<1>1. /\ Registry' = Registry
      /\ UNCHANGED <<HalfDone, ServedMessage>>
  <2>1. Registry' = Registry BY SameRegistry DEF Published
  <2>2. UNCHANGED HalfDone BY HalfDoneBoolean
  <2> QED BY <2>1, <2>2, NothingShown
<1>2. CASE Holding(type) # {}
  <2>1. PICK i \in handlers_usage_mask : handlers[i].type = type BY <1>2 DEF Holding
  <2>2. i \in Published BY <2>1, PointersAssumption DEF Published
  <2>3. type \in Map!Registered BY <2>1, <2>2, RegistryHolds DEF RegistryFacts
  <2> QED BY <1>1, <2>3 DEF Map!Refuse, Map!Answered, Answer
<1>3. CASE At("take") /\ Unused = {}
  <2>1. ~At("callback") /\ ~At("type") /\ ~At("memset") /\ ~At("mask") BY <1>3 DEF At
  <2>2. TypeOK /\ MaskMatchesTable BY DEF IInv
  <2>3. handlers_usage_mask = Slot BY <1>3, <2>2 DEF Unused, TypeOK
  <2>4. Published = Slot
    BY <2>1, <2>2, <2>3 DEF Published, MaskMatchesTable, Filling, Clearing
  <2>5. Cardinality(Slot) = MaxHandlers
    <3>1. Cardinality(0 .. MaxHandlers - 1) =
            IF 0 > MaxHandlers - 1 THEN 0 ELSE MaxHandlers - 1 - 0 + 1
      BY MaxHandlersAssumption, FS_Interval
    <3> QED BY <3>1, MaxHandlersAssumption DEF Slot
  <2>6. Cardinality(Map!Registered) = MaxHandlers BY <2>4, <2>5, RegistrySize
  <2>7. Map!Cardinality(Map!Registered) = MaxHandlers BY <2>6, SameCardinality
  <2> QED BY <1>1, <2>7 DEF Map!Refuse, Map!Answered, Answer
<1> QED BY <1>2, <1>3

\* Writing the type registers it.
LEMMA RegisterImplemented ==
  ASSUME IInv, IInv', WriteType
  PROVE  Map!Register(Top.type, Top.callback)
<1> DEFINE i == Top.idx
           t == Top.type
<1>1. /\ TypeOK /\ AddInv /\ Depth > 0 /\ At("type")
      /\ UNCHANGED <<handlers_usage_mask, served>>
      /\ handlers' = [handlers EXCEPT ![i].type = t]
      /\ Answer("add_handler", t, TRUE) /\ Leave
  BY DEF IInv, WriteType, At
<1>2. /\ Top \in Frame /\ t \in Types /\ Top.callback \in Callbacks
      /\ Holding(t) = {} /\ i \in handlers_usage_mask /\ handlers[i].type = NULL
      /\ handlers[i].callback = Top.callback /\ i \in Slot
  BY <1>1, TopFrame DEF AddInv, Adding, Frame, Steps
<1>3. t # NULL BY <1>2, PointersAssumption
<1>4. /\ handlers'[i].type = t /\ handlers'[i].callback = Top.callback
      /\ \A j \in Slot : j # i => handlers'[j] = handlers[j]
  BY <1>1, <1>2 DEF TypeOK, Handler
<1>5. handlers_usage_mask \subseteq Slot BY <1>1 DEF TypeOK
<1> DEFINE cb == Top.callback
<1> HIDE DEF i, t, cb
<1>6. Published' = Published \cup {i} /\ i \notin Published
  BY <1>1, <1>2, <1>3, <1>4, <1>5 DEF Published
<1>7. PublishedTypes' = PublishedTypes \cup {t}
  <2>1. \A j \in Published : j \in Slot /\ handlers'[j].type = handlers[j].type
    BY <1>4, <1>5, <1>6 DEF Published
  <2> QED BY <1>4, <1>6, <2>1 DEF PublishedTypes
<1>8. t \notin PublishedTypes BY <1>2 DEF PublishedTypes, Published, Holding
<1>9. Map!Registered = PublishedTypes /\ Map!Registered' = PublishedTypes'
      /\ \A j \in Published : Registry[handlers[j].type] = handlers[j].callback
  BY RegistryHolds DEF RegistryFacts, Map!Registered, Registry
<1>10. \A j \in Published' : Registry'[handlers'[j].type] = handlers'[j].callback
  <2>1. IInv' OBVIOUS
  <2>2. RegistryFacts' BY <2>1, RegistryHolds, PTL
  <2> QED BY <2>2 DEF RegistryFacts
<1>11. Registry' = [u \in PublishedTypes \cup {t} |-> IF u = t THEN cb ELSE Registry[u]]
  <2>1. Registry' = [u \in PublishedTypes \cup {t} |-> Registry'[u]]
    BY <1>7 DEF Registry
  <2>2. Registry'[t] = cb BY <1>4, <1>6, <1>10 DEF cb
  <2>3. ASSUME NEW u \in PublishedTypes PROVE Registry'[u] = Registry[u]
    <3>1. PICK j \in Published : handlers[j].type = u BY DEF PublishedTypes
    <3>2. handlers'[j] = handlers[j] /\ j \in Published'
      BY <1>4, <1>5, <1>6 DEF Published
    <3> QED BY <1>9, <1>10, <3>1, <3>2
  <2> QED BY <1>8, <2>1, <2>2, <2>3
<1>12. Map!Cardinality(Map!Registered) < MaxHandlers
  <2>1. IsFiniteSet(Slot) /\ Cardinality(Slot) = MaxHandlers
    <3>1. /\ IsFiniteSet(0 .. MaxHandlers - 1)
          /\ Cardinality(0 .. MaxHandlers - 1) =
               IF 0 > MaxHandlers - 1 THEN 0 ELSE MaxHandlers - 1 - 0 + 1
      BY MaxHandlersAssumption, FS_Interval
    <3> QED BY <3>1, MaxHandlersAssumption DEF Slot
  <2>2. i \in Slot BY <1>2
  <2>3. IsFiniteSet(Slot \ {i}) /\ Cardinality(Slot \ {i}) = MaxHandlers - 1
    BY <2>1, <2>2, FS_RemoveElement
  <2>4. Published \in SUBSET (Slot \ {i}) BY <1>5, <1>6 DEF Published
  <2>5. Cardinality(Published) <= MaxHandlers - 1 /\ Cardinality(Published) \in Nat
    BY <2>3, <2>4, FS_Subset, FS_CardinalityType, RegistrySize
  <2> QED BY <2>5, RegistrySize, SameCardinality, MaxHandlersAssumption
<1>13. HalfDone /\ HalfDone' = FALSE /\ UNCHANGED ServedMessage
  <2>1. CallerActive' BY <1>1, LeaveInv
  <2>2. ~HalfDone' BY <2>1, NotHalfDone, PTL
  <2>3. HalfDone BY <1>1 DEF HalfDone
  <2> QED BY <1>1, <2>2, <2>3, HalfDoneBoolean, NothingShown
<1> QED
  BY <1>1, <1>8, <1>9, <1>11, <1>12, <1>13 DEF Map!Register, Map!Answered, Answer, t, cb

\* Zeroing a slot forgets what it held.
LEMMA ForgetImplemented ==
  ASSUME IInv, IInv', ClearSlot
  PROVE  Map!Forget({handlers[Top.idx].type} \cap Types)
<1> DEFINE i == Top.idx
           gone == {handlers[i].type} \cap Types
<1>1. /\ TypeOK /\ NoTypeTwice /\ Depth > 0
      /\ UNCHANGED <<handlers_usage_mask, answer, served>>
      /\ handlers' = [handlers EXCEPT ![i] = ZeroHandler]
  BY DEF IInv, ClearSlot, At
<1>2. i \in Slot BY <1>1, TopFrame DEF Frame, Steps
<1>3. ZeroHandler.type = NULL BY DEF ZeroHandler
<1>4. handlers'[i] = ZeroHandler /\ \A j \in Slot : j # i => handlers'[j] = handlers[j]
  BY <1>1, <1>2 DEF TypeOK
<1>5. handlers_usage_mask \subseteq Slot /\ \A j \in Slot : handlers[j].type \in Types \cup {NULL}
  BY <1>1 DEF TypeOK, Handler
<1> HIDE DEF i
<1>6. Published' = Published \ {i}
  BY <1>1, <1>3, <1>4, <1>5 DEF Published
<1>7. \A j \in Published : j \in Slot /\ handlers[j].type \in Types /\ (handlers[j].type \in gone <=> j = i)
  <2> SUFFICES ASSUME NEW j \in Published
               PROVE  j \in Slot /\ handlers[j].type \in Types /\ (handlers[j].type \in gone <=> j = i)
    OBVIOUS
  <2>1. j \in handlers_usage_mask /\ handlers[j].type # NULL /\ j \in Slot
        /\ handlers[j].type \in Types
    BY <1>5 DEF Published
  <2>2. ASSUME handlers[j].type = handlers[i].type PROVE j = i
    <3>1. i \in handlers_usage_mask
      <4>1. MaskMatchesTable BY DEF IInv
      <4>2. i \notin handlers_usage_mask => handlers[i] = ZeroHandler
        BY <1>2, <4>1 DEF MaskMatchesTable
      <4> QED BY <4>2, <2>1, <2>2, <1>3
    <3> QED BY <1>1, <2>1, <2>2, <3>1 DEF NoTypeTwice
  <2> QED BY <2>1, <2>2
<1> HIDE DEF gone
<1>8. PublishedTypes' = PublishedTypes \ gone
  <2>1. PublishedTypes' = { handlers'[j].type : j \in Published \ {i} }
    BY <1>6 DEF PublishedTypes
  <2>2. \A j \in Published \ {i} : handlers'[j].type = handlers[j].type BY <1>4, <1>7
  <2> QED BY <1>7, <2>1, <2>2 DEF PublishedTypes
<1>9. Map!Registered = PublishedTypes
      /\ \A j \in Published : Registry[handlers[j].type] = handlers[j].callback
  BY RegistryHolds DEF RegistryFacts
<1>10. \A j \in Published' : Registry'[handlers'[j].type] = handlers'[j].callback
  <2>1. IInv' OBVIOUS
  <2>2. RegistryFacts' BY <2>1, RegistryHolds, PTL
  <2> QED BY <2>2 DEF RegistryFacts
<1>11. Registry' = [u \in PublishedTypes \ gone |-> Registry[u]]
  <2>1. Registry' = [u \in PublishedTypes \ gone |-> Registry'[u]] BY <1>8 DEF Registry
  <2>2. ASSUME NEW u \in PublishedTypes \ gone PROVE Registry'[u] = Registry[u]
    <3>1. PICK j \in Published : handlers[j].type = u BY DEF PublishedTypes
    <3>2. j # i BY <1>7, <3>1
    <3>3. handlers'[j] = handlers[j] /\ j \in Published' BY <1>4, <1>6, <1>7, <3>2
    <3> QED BY <1>9, <1>10, <3>1, <3>3
  <2> QED BY <2>1, <2>2
<1>12. HalfDone /\ UNCHANGED <<HalfDone, ServedMessage>>
  <2> DEFINE f == IF Top.idx + 1 \in Slot THEN [Top EXCEPT !.idx = @ + 1] ELSE [Top EXCEPT !.at = "mask"]
  <2>1. stack' = [stack EXCEPT ![Depth] = f] /\ At("memset") BY DEF ClearSlot, Top
  <2>2. Top \in Frame /\ Top.at = "memset" BY <1>1, <2>1, TopFrame DEF At
  <2>3. f \in Frame /\ f.at \in {"memset", "mask"} BY <2>2 DEF Frame, Steps
  <2> HIDE DEF f
  <2>4. Depth' = Depth /\ Top' = f BY <1>1, <2>1, <2>3, StepInv
  <2>5. HalfDone /\ HalfDone' BY <1>1, <2>1, <2>3, <2>4 DEF HalfDone, Clearing, At
  <2> QED BY <1>1, <2>5, HalfDoneBoolean, NothingShown
<1>13. Map!Forget(gone) BY <1>1, <1>9, <1>11, <1>12 DEF Map!Forget
<1> QED BY <1>13 DEF gone, i

-----------------------------------------------------------------------------
\* The registry is the map that HandlerMap describes: add_handler, clear_handlers and
\* unmarshal, step by step and interrupted anywhere by dispatches of any message, do to
\* it what its operations say and answer what they say.
THEOREM MapImplemented == Spec => ImplementsMap
<1>1. ASSUME MapInv, [Next]_vars PROVE MapInv'
  <2>1. IInv' BY <1>1, InductiveStep DEF MapInv
  <2>2. CASE Next BY <1>1, <2>1, <2>2, CallInvStep DEF MapInv
  <2>3. CASE UNCHANGED vars BY <1>1, <2>1, <2>3 DEF MapInv, CallInv, vars, Depth
  <2> QED BY <1>1, <2>2, <2>3
<1>2. ASSUME MapInv, MapInv', [Next]_vars
      PROVE  [Map!MapNext]_<<Registry, HalfDone, answer, ServedMessage>>
  <2> DEFINE Idle == UNCHANGED <<Registry, HalfDone, answer, ServedMessage>>
             Goal == Map!MapNext \/ Idle
  <2> SUFFICES Goal
    OBVIOUS
  <2>1. IInv /\ IInv' /\ CallInv /\ TypeOK BY <1>2 DEF MapInv, IInv
  <2>2. ASSUME UNCHANGED <<handlers, handlers_usage_mask>>
        PROVE  UNCHANGED Registry
    BY <2>2 DEF Registry, PublishedTypes, SlotOf, Published
  <2>3. ASSUME Depth > 0
        PROVE  Top \in Frame /\ (Adding => Top.type \in Types /\ Top.callback \in Callbacks)
    BY <2>1, <2>3, TopFrame DEF IInv, AddInv
  <2>4. CASE FindDuplicate
    <3>1. Depth > 0 /\ At("find") /\ Adding BY <2>4 DEF FindDuplicate, At, Adding
    <3>2. Top.type \in Types BY <2>3, <3>1
    <3>3. CASE Holding(Top.type) # {}
      <4>1. Answer("add_handler", Top.type, FALSE)
            /\ UNCHANGED <<handlers, handlers_usage_mask, served>>
        BY <2>4, <3>3 DEF FindDuplicate
      <4>2. ~HalfDone /\ ~HalfDone'
        <5>1. CallerActive' BY <2>1, <2>4, <3>1, <3>3, LeaveInv DEF FindDuplicate
        <5> QED BY <3>1, <5>1, NotHalfDone, PTL
      <4>3. Map!Refuse(Top.type) BY <2>1, <3>2, <3>3, <4>1, <4>2, RefuseImplemented
      <4> QED BY <3>2, <4>3 DEF Map!MapNext
    <3>4. CASE Holding(Top.type) = {}
      <4>1. Goto("take") /\ UNCHANGED <<handlers, handlers_usage_mask, answer, served>>
        BY <2>4, <3>4 DEF FindDuplicate
      <4>2. At("take")' BY <2>1, <3>1, <4>1, Moved DEF Steps
      <4>3. ~HalfDone /\ ~HalfDone' BY <3>1, <4>2, NotHalfDone, PTL
      <4>4. UNCHANGED HalfDone BY <4>3, HalfDoneBoolean
      <4> QED BY <2>2, <4>1, <4>4, NothingShown
    <3> QED BY <3>3, <3>4
  <2>5. CASE TakeSlot
    <3>1. Depth > 0 /\ At("take") /\ Adding BY <2>5 DEF TakeSlot, At, Adding
    <3>2. Top.type \in Types BY <2>3, <3>1
    <3>3. CASE Unused = {}
      <4>1. Answer("add_handler", Top.type, FALSE)
            /\ UNCHANGED <<handlers, handlers_usage_mask, served>>
        BY <2>5, <3>3 DEF TakeSlot
      <4>2. ~HalfDone /\ ~HalfDone'
        <5>1. CallerActive' BY <2>1, <2>5, <3>1, <3>3, LeaveInv DEF TakeSlot
        <5> QED BY <3>1, <5>1, NotHalfDone, PTL
      <4>3. Map!Refuse(Top.type) BY <2>1, <3>1, <3>2, <3>3, <4>1, <4>2, RefuseImplemented
      <4> QED BY <3>2, <4>3 DEF Map!MapNext
    <3>4. CASE Unused # {}
      <4>1. PICK i \in Unused :
              /\ handlers_usage_mask' = handlers_usage_mask \cup {i}
              /\ stack' = [stack EXCEPT ![Depth].at = "callback", ![Depth].idx = i]
        BY <2>5, <3>4 DEF TakeSlot
      <4>2. UNCHANGED <<handlers, answer, served>> BY <2>5, <3>4 DEF TakeSlot
      <4>3. handlers[i].type = NULL
        BY <2>1, <4>1 DEF IInv, MaskMatchesTable, ZeroHandler, Unused
      <4>4. Published' = Published BY <4>1, <4>2, <4>3 DEF Published
      <4>5. Registry' = Registry BY <2>1, <4>2, <4>4, SameRegistry
      <4>6. ~HalfDone BY <3>1, NotHalfDone
      <4>7. HalfDone'
        <5> DEFINE f == [Top EXCEPT !.at = "callback", !.idx = i]
        <5>1. f \in Frame /\ f.at = "callback"
          BY <2>3, <3>1, <4>1 DEF Frame, Steps, Unused
        <5>2. stack' = [stack EXCEPT ![Depth] = f]
          BY <2>1, <3>1, <4>1 DEF TypeOK, Top, Depth
        <5> HIDE DEF f
        <5>3. Depth' = Depth /\ Top' = f BY <2>1, <3>1, <5>1, <5>2, StepInv
        <5> QED BY <3>1, <5>1, <5>3 DEF HalfDone, At
      <4>8. Map!Begin
        BY <4>2, <4>5, <4>6, <4>7, HalfDoneBoolean, NothingShown DEF Map!Begin
      <4> QED BY <4>8 DEF Map!MapNext
    <3> QED BY <3>3, <3>4
  <2>6. CASE WriteCallback
    <3> DEFINE i == Top.idx
    <3>1. /\ At("callback") /\ Depth > 0 /\ UNCHANGED <<handlers_usage_mask, answer, served>>
          /\ handlers' = [handlers EXCEPT ![i].callback = Top.callback]
      BY <2>6 DEF WriteCallback, At
    <3>2. i \in Slot /\ handlers[i].type = NULL
      BY <2>1, <2>3, <3>1 DEF IInv, AddInv, Frame, Steps
    <3>3. /\ handlers'[i].type = NULL
          /\ \A j \in Slot : j # i => handlers'[j] = handlers[j]
          /\ handlers_usage_mask \subseteq Slot
      BY <2>1, <3>1, <3>2 DEF TypeOK, Handler
    <3> HIDE DEF i
    <3>4. Published' = Published /\ \A j \in Published : j # i /\ j \in Slot
      BY <3>1, <3>2, <3>3 DEF Published
    <3>5. Registry' = Registry BY <2>1, <3>3, <3>4, SameRegistry
    <3>6. At("type")' BY <2>1, <2>6, <3>1, Moved DEF WriteCallback, Steps
    <3>7. HalfDone /\ HalfDone' BY <3>1, <3>6 DEF HalfDone
    <3>8. UNCHANGED HalfDone BY <3>7, HalfDoneBoolean
    <3> QED BY <3>1, <3>5, <3>8, NothingShown
  <2>7. CASE WriteType
    <3>1. Depth > 0 /\ Adding BY <2>7 DEF WriteType, At, Adding
    <3>2. Top.type \in Types /\ Top.callback \in Callbacks BY <2>3, <3>1
    <3>3. Map!Register(Top.type, Top.callback) BY <2>1, <2>7, RegisterImplemented
    <3> QED BY <3>2, <3>3 DEF Map!MapNext
  <2>8. CASE ClearSlot
    <3>1. Map!Forget({handlers[Top.idx].type} \cap Types) BY <2>1, <2>8, ForgetImplemented
    <3>2. {handlers[Top.idx].type} \cap Types \in SUBSET Types OBVIOUS
    <3> QED BY <3>1, <3>2 DEF Map!MapNext
  <2>9. CASE ClearMask
    <3>1. /\ At("mask") /\ handlers_usage_mask' = {} /\ UNCHANGED <<handlers, answer, served>>
      BY <2>9 DEF ClearMask
    <3>2. \A j \in Slot : handlers[j].type = NULL
      BY <2>1, <3>1 DEF IInv, ClearInv, ZeroHandler
    <3>3. Published = {} /\ Published' = {}
      BY <2>1, <3>1, <3>2 DEF Published, TypeOK
    <3>4. Registry' = Registry BY <2>1, <3>3, SameRegistry
    <3>5. CallerActive' BY <2>1, <2>9, <3>1, LeaveInv DEF ClearMask, At
    <3>6. HalfDone /\ ~HalfDone'
      <4>1. ~HalfDone' BY <3>5, NotHalfDone, PTL
      <4> QED BY <3>1, <4>1 DEF HalfDone, Clearing
    <3>7. Map!Cleared
      BY <3>1, <3>4, <3>6, HalfDoneBoolean, NothingShown DEF Map!Cleared
    <3> QED BY <3>7 DEF Map!MapNext
  <2>10. CASE CallbackReturns
    <3>1. /\ At("call") /\ Depth > 0 /\ Answer("unmarshal", Top.type, TRUE) /\ Leave
          /\ UNCHANGED <<handlers, handlers_usage_mask, served>>
      BY <2>10 DEF CallbackReturns, At
    <3>2. Top.type \in Types /\ served # NULL
      <4>1. Depth \in 1 .. Depth BY <2>1, <3>1, TopFrame
      <4> QED BY <2>1, <3>1, <4>1 DEF CallInv, At, Top
    <3>3. Registry' = Registry BY <2>2, <3>1
    <3>4. ~HalfDone /\ ~HalfDone'
      <4>1. CallerActive /\ CallerActive' BY <2>1, <3>1, LeaveInv DEF CallerActive, At
      <4> QED BY <4>1, NotHalfDone, PTL
    <3>5. ServedMessage # NULL
      <4>1. served \in Dispatched BY <2>1, <3>2 DEF TypeOK
      <4>2. [type |-> served.type, callback |-> served.callback] \in Handler
        BY <4>1 DEF Dispatched, Handler
      <4> QED BY <3>2, <4>2, NullAssumption DEF ServedMessage
    <3>6. UNCHANGED <<HalfDone, ServedMessage>> BY <3>1, <3>4, HalfDoneBoolean, NothingShown
    <3>7. Map!Served(Top.type)
      BY <3>1, <3>3, <3>4, <3>5, <3>6 DEF Map!Served, Map!Answered, Answer
    <3> QED BY <3>2, <3>7 DEF Map!MapNext
  <2>11. ASSUME NEW type \in Types \cup {NULL}, unmarshal(type) PROVE Goal
    <3>1. CASE Holding(type) # {}
      <4>1. /\ CallerActive /\ Dispatch(type) /\ answer' = answer
            /\ Enter("call", type, NULL)
            /\ UNCHANGED <<handlers, handlers_usage_mask>>
        BY <2>11, <3>1 DEF unmarshal, Enter
      <4>2. type \in Types BY <2>1, <3>1, <4>1, CallerKnows
      <4>3. CallerActive'
        <5> DEFINE f == [at |-> "call", type |-> type, callback |-> NULL, idx |-> 0]
        <5>1. f \in Frame /\ f.at = "call" BY <4>2, MaxHandlersAssumption DEF Frame, Steps, Slot
        <5>2. Len(stack') = Depth + 1 /\ stack'[Depth + 1] = f
          BY <2>1, <4>1, <5>1, Entered DEF IInv
        <5> HIDE DEF f
        <5> QED BY <5>1, <5>2 DEF CallerActive, Top, Depth
      <4>4. ~HalfDone /\ ~HalfDone' BY <4>1, <4>3, NotHalfDone, PTL
      <4>5. UNCHANGED HalfDone BY <4>4, HalfDoneBoolean
      <4>6. Map!Serve(type) BY <2>1, <3>1, <4>1, <4>2, <4>5, ServeImplemented
      <4> QED BY <4>2, <4>6 DEF Map!MapNext
    <3>2. CASE Holding(type) = {}
      <4>1. /\ CallerActive /\ Answer("unmarshal", type, FALSE)
            /\ UNCHANGED <<handlers, handlers_usage_mask, stack, served>>
        BY <2>11, <3>2 DEF unmarshal
      <4>2. Registry' = Registry BY <2>2, <4>1
      <4>3. type \notin PublishedTypes BY <3>2 DEF PublishedTypes, Published, Holding
      <4>4. type \notin Map!Registered BY <2>1, <4>3, RegistryHolds DEF RegistryFacts
      <4>5. ~HalfDone BY <4>1, NotHalfDone
      <4>6. UNCHANGED <<HalfDone, ServedMessage>>
        BY <4>1, NothingShown DEF HalfDone, Clearing, At, Top, Depth
      <4>7. Map!NotServed(type)
        BY <4>1, <4>2, <4>4, <4>5, <4>6 DEF Map!NotServed, Map!Answered, Answer
      <4> QED BY <4>7 DEF Map!MapNext
    <3> QED BY <3>1, <3>2
  <2>12. ASSUME NEW type \in InterruptTypes, Interrupt(type) PROVE Goal
    <3>1. /\ Holding(type) # {} /\ Dispatch(type)
          /\ UNCHANGED <<handlers, handlers_usage_mask, stack, answer>>
      BY <2>12 DEF Interrupt
    <3>2. UNCHANGED HalfDone BY <3>1 DEF HalfDone, Clearing, At, Top, Depth
    <3>3. CASE type \in Types
      <4>1. Map!Serve(type) BY <2>1, <3>1, <3>2, <3>3, ServeImplemented
      <4> QED BY <3>3, <4>1 DEF Map!MapNext
    <3>4. CASE type = NULL
      <4> DEFINE i == find_handler(type)
      <4>1. /\ i \in handlers_usage_mask /\ handlers[i].type = NULL
            /\ ServedMessage' = [type |-> NULL, callback |-> handlers[i].callback]
        BY <2>1, <3>1, <3>4, DispatchType, DispatchShown
      <4> HIDE DEF i
      <4>2. i \in Slot /\ handlers[i].callback \in Callbacks \cup {NULL}
        BY <2>1, <4>1 DEF TypeOK, Handler
      <4>3. HalfDone
        BY <2>1, <4>1, <4>2 DEF IInv, MaskMatchesTable, Filling, HalfDone
      <4>4. Map!Misserve(handlers[i].callback)
        BY <2>2, <3>1, <3>2, <4>1, <4>3 DEF Map!Misserve
      <4> QED BY <4>2, <4>4 DEF Map!MapNext
    <3> QED BY <3>3, <3>4, InterruptAssumption
  <2>13. CASE clear_handlers
    <3>1. /\ Enter("memset", NULL, NULL)
          /\ UNCHANGED <<handlers, handlers_usage_mask, answer, served>>
      BY <2>13 DEF clear_handlers
    <3> DEFINE f == [at |-> "memset", type |-> NULL, callback |-> NULL, idx |-> 0]
    <3>2. f \in Frame /\ f.at = "memset" BY MaxHandlersAssumption DEF Frame, Steps, Slot
    <3>3. Len(stack') = Depth + 1 /\ stack'[Depth + 1] = f BY <2>1, <3>1, <3>2, Entered DEF IInv
    <3> HIDE DEF f
    <3>4. HalfDone' BY <2>1, <3>2, <3>3 DEF HalfDone, Clearing, At, Top, Depth, TypeOK
    <3>5. ~HalfDone BY <3>1, NotHalfDone DEF Enter
    <3>6. Map!Begin
      BY <2>2, <3>1, <3>4, <3>5, HalfDoneBoolean, NothingShown DEF Map!Begin
    <3> QED BY <3>6 DEF Map!MapNext
  <2>14. ASSUME NEW type \in Types, NEW callback \in Callbacks, add_handler(type, callback)
         PROVE  Goal
    <3>1. /\ Enter("find", type, callback) /\ CallerActive
          /\ UNCHANGED <<handlers, handlers_usage_mask, answer, served>>
      BY <2>14 DEF add_handler, Enter
    <3> DEFINE f == [at |-> "find", type |-> type, callback |-> callback, idx |-> 0]
    <3>2. f \in Frame /\ f.at = "find" BY MaxHandlersAssumption DEF Frame, Steps, Slot
    <3>3. Len(stack') = Depth + 1 /\ stack'[Depth + 1] = f BY <2>1, <3>1, <3>2, Entered DEF IInv
    <3> HIDE DEF f
    <3>4. At("find")' BY <2>1, <3>2, <3>3 DEF At, Top, Depth, TypeOK
    <3>5. ~HalfDone /\ ~HalfDone' BY <3>1, <3>4, NotHalfDone, PTL
    <3>6. UNCHANGED HalfDone BY <3>5, HalfDoneBoolean
    <3> QED BY <2>2, <3>1, <3>6, NothingShown
  <2>15. CASE UNCHANGED vars
    <3>1. UNCHANGED <<handlers, handlers_usage_mask, stack, answer, served>> BY <2>15 DEF vars
    <3>2. UNCHANGED HalfDone BY <3>1 DEF HalfDone, Clearing, At, Top, Depth
    <3> QED BY <2>2, <3>1, <3>2, NothingShown
  <2> HIDE DEF Goal
  <2> QED
    BY <1>2, <2>4, <2>5, <2>6, <2>7, <2>8, <2>9, <2>10, <2>11, <2>12, <2>13, <2>14, <2>15
    DEF Next, Calls, Main, Interrupts
<1> QED
  BY <1>1, <1>2, InitMapInv, EmptyImplemented, PTL
  DEF Spec, ImplementsMap, Map!MapSpec, Map!mapVars
=============================================================================
