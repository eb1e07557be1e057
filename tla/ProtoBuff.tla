----------------------------- MODULE ProtoBuff ------------------------------
(***************************************************************************)
(* src/ProtoBuff.c: the registry of message handlers and the dispatch of   *)
(* incoming messages to them.                                              *)
(*                                                                         *)
(* The table is a static array of sixteen slots and a 16-bit usage mask.   *)
(* add_handler and clear_handlers write it in several steps.  Two kinds of *)
(* code can see the steps or the results of one another:                   *)
(*  - a callback runs inside unmarshal, on the same stack, and may itself  *)
(*    add handlers, clear them or unmarshal another message;               *)
(*  - the array is volatile: an interrupt may come between any two steps   *)
(*    of the main program and dispatch a message of its own, to its end.   *)
(* The interrupt's own callbacks leave the registry alone.                 *)
(*                                                                         *)
(* Which type a message has is decided by decode_unionmessage_type; here   *)
(* it is an input: one of Types, or NULL for a message of no known type.   *)
(***************************************************************************)
EXTENDS Integers, Sequences, FiniteSets

CONSTANTS
  MaxHandlers,    \* PROTOBUFF_MAX_HANDLERS: 16
  Types,          \* the pb_field_t tables that may be registered
  Callbacks,      \* the callbacks that may be registered
  NULL,           \* the null pointer
  InterruptTypes, \* types of the messages an interrupt may dispatch
  MaxDepth        \* bound: calls in progress on the main stack

ASSUME MaxHandlersAssumption == MaxHandlers \in Nat /\ MaxHandlers > 0
ASSUME PointersAssumption    == NULL \notin Types \cup Callbacks
ASSUME InterruptAssumption   == InterruptTypes \subseteq Types \cup {NULL}
ASSUME DepthAssumption       == MaxDepth \in Nat

VARIABLES
  handlers,             \* static volatile Handler handlers[]
  handlers_usage_mask,  \* the set of the bits that are one
  stack,                \* the calls in progress in the main program, innermost last
  answer,               \* history: the call that returned last and its result
  served                \* history: the last dispatch that called a callback

vars == <<handlers, handlers_usage_mask, stack, answer, served>>

Slot == 0 .. MaxHandlers - 1

Handler == [type : Types \cup {NULL}, callback : Callbacks \cup {NULL}]

ZeroHandler == [type |-> NULL, callback |-> NULL]

\* A call in progress: the step it takes next, its arguments and the slot that
\* its local idx names.
\*   "find", "take", "callback", "type"   add_handler
\*   "memset", "mask"                     clear_handlers
\*   "call"                               unmarshal, while the callback runs
Steps == {"find", "take", "callback", "type", "memset", "mask", "call"}

Frame ==
  [ at       : Steps,
    type     : Types \cup {NULL},
    callback : Callbacks \cup {NULL},
    idx      : Slot ]

\* A dispatch: the type of the message, the callback of the slot that was found, and
\* the step of the main program that was due, "idle" when no call was in progress.
Dispatched ==
  [ type     : Types \cup {NULL},
    callback : Callbacks \cup {NULL},
    during   : Steps \cup {"idle"} ]

\* The null pointer is not one of the records.
ASSUME NullAssumption == NULL \notin Handler \cup Dispatched

Init ==
  /\ handlers = [i \in Slot |-> ZeroHandler]
  /\ handlers_usage_mask = {}
  /\ stack = <<>>
  /\ answer = NULL
  /\ served = NULL

-----------------------------------------------------------------------------
Depth == Len(stack)

Top == stack[Depth]

At(step) == Depth > 0 /\ Top.at = step

\* The main program may call the module: nothing is in progress, or a callback is.
CallerActive == Depth > 0 => Top.at = "call"

Enter(step, type, callback) ==
  /\ CallerActive
  /\ Depth < MaxDepth
  /\ stack' = Append(stack, [at |-> step, type |-> type, callback |-> callback, idx |-> 0])

Goto(step) == stack' = [stack EXCEPT ![Depth].at = step]

Leave == stack' = SubSeq(stack, 1, Depth - 1)

Answer(call, type, result) ==
  answer' = [call |-> call, type |-> type, result |-> result]

\* The used slots that hold a type; find_handler returns the least one.
Holding(type) == { i \in handlers_usage_mask : handlers[i].type = type }

find_handler(type) ==
  CHOOSE i \in Holding(type) : \A j \in Holding(type) : i <= j

-----------------------------------------------------------------------------
\* add_handler()

add_handler(type, callback) ==
  /\ Enter("find", type, callback)
  /\ UNCHANGED <<handlers, handlers_usage_mask, answer, served>>

FindDuplicate ==
  /\ At("find")
  /\ IF Holding(Top.type) # {}
     THEN Leave /\ Answer("add_handler", Top.type, FALSE)
     ELSE Goto("take") /\ UNCHANGED answer
  /\ UNCHANGED <<handlers, handlers_usage_mask, served>>

\* Mutant of Unused: the search goes one slot too far.
UnusedPastEnd == (0 .. MaxHandlers) \ handlers_usage_mask

\* get_unused_idx(): the lowest bit that is zero is set; -1 when all are set.
Unused == Slot \ handlers_usage_mask

\* Mutant of TakeSlot: the last slot is never used.
TakeSlotButLast ==
  /\ At("take")
  /\ \/ /\ Cardinality(Unused) <= 1
        /\ Leave
        /\ Answer("add_handler", Top.type, FALSE)
        /\ UNCHANGED handlers_usage_mask
     \/ \E i \in Unused :
          /\ Cardinality(Unused) > 1
          /\ \A j \in Unused : i <= j
          /\ handlers_usage_mask' = handlers_usage_mask \cup {i}
          /\ stack' = [stack EXCEPT ![Depth].at = "callback", ![Depth].idx = i]
          /\ UNCHANGED answer
  /\ UNCHANGED <<handlers, served>>

TakeSlot ==
  /\ At("take")
  /\ \/ /\ Unused = {}
        /\ Leave
        /\ Answer("add_handler", Top.type, FALSE)
        /\ UNCHANGED handlers_usage_mask
     \/ \E i \in Unused :
          /\ \A j \in Unused : i <= j
          /\ handlers_usage_mask' = handlers_usage_mask \cup {i}
          /\ stack' = [stack EXCEPT ![Depth].at = "callback", ![Depth].idx = i]
          /\ UNCHANGED answer
  /\ UNCHANGED <<handlers, served>>

\* Mutant of WriteCallback: the type is written before the callback.
WriteTypeFirst ==
  \/ /\ At("callback")
     /\ handlers' = [handlers EXCEPT ![Top.idx].type = Top.type]
     /\ Goto("late")
     /\ UNCHANGED <<handlers_usage_mask, answer, served>>
  \/ /\ At("late")
     /\ handlers' = [handlers EXCEPT ![Top.idx].callback = Top.callback]
     /\ Leave
     /\ Answer("add_handler", Top.type, TRUE)
     /\ UNCHANGED <<handlers_usage_mask, served>>

WriteCallback ==
  /\ At("callback")
  /\ handlers' = [handlers EXCEPT ![Top.idx].callback = Top.callback]
  /\ Goto("type")
  /\ UNCHANGED <<handlers_usage_mask, answer, served>>

\* From here on a message of this type finds the slot.
WriteType ==
  /\ At("type")
  /\ handlers' = [handlers EXCEPT ![Top.idx].type = Top.type]
  /\ Leave
  /\ Answer("add_handler", Top.type, TRUE)
  /\ UNCHANGED <<handlers_usage_mask, served>>

-----------------------------------------------------------------------------
\* clear_handlers()

clear_handlers ==
  /\ Enter("memset", NULL, NULL)
  /\ UNCHANGED <<handlers, handlers_usage_mask, answer, served>>

\* Mutant of ClearSlot: only the mask is cleared.
ClearNothing ==
  /\ At("memset")
  /\ Goto("mask")
  /\ UNCHANGED <<handlers, handlers_usage_mask, answer, served>>

\* memset() zeroes the slots one after the other.
ClearSlot ==
  /\ At("memset")
  /\ handlers' = [handlers EXCEPT ![Top.idx] = ZeroHandler]
  /\ stack' = IF Top.idx + 1 \in Slot
              THEN [stack EXCEPT ![Depth].idx = @ + 1]
              ELSE [stack EXCEPT ![Depth].at = "mask"]
  /\ UNCHANGED <<handlers_usage_mask, answer, served>>

ClearMask ==
  /\ At("mask")
  /\ handlers_usage_mask' = {}
  /\ Leave
  /\ UNCHANGED <<handlers, answer, served>>

-----------------------------------------------------------------------------
\* unmarshal(), from the lookup of the type to the return of the callback.

Dispatch(type) ==
  served' = [type     |-> type,
             callback |-> handlers[find_handler(type)].callback,
             during   |-> IF Depth > 0 THEN Top.at ELSE "idle"]

unmarshal(type) ==
  /\ IF Holding(type) # {}
     THEN /\ Enter("call", type, NULL)
          /\ Dispatch(type)
          /\ UNCHANGED answer
     ELSE /\ CallerActive
          /\ Depth < MaxDepth
          /\ Answer("unmarshal", type, FALSE)
          /\ UNCHANGED <<stack, served>>
  /\ UNCHANGED <<handlers, handlers_usage_mask>>

\* The result is true whatever the callback made of the message.
CallbackReturns ==
  /\ At("call")
  /\ Leave
  /\ Answer("unmarshal", Top.type, TRUE)
  /\ UNCHANGED <<handlers, handlers_usage_mask, served>>

\* An interrupt dispatches a message, between two steps of the main program.  A
\* message of no known type finds a slot that is taken and shows no type.
Interrupt(type) ==
  /\ Holding(type) # {}
  /\ Dispatch(type)
  /\ UNCHANGED <<handlers, handlers_usage_mask, stack, answer>>

-----------------------------------------------------------------------------
Calls ==
  \/ \E type \in Types, callback \in Callbacks : add_handler(type, callback)
  \/ clear_handlers
  \/ \E type \in Types \cup {NULL} : unmarshal(type)

Main ==
  \/ FindDuplicate
  \/ TakeSlot
  \/ WriteCallback
  \/ WriteType
  \/ ClearSlot
  \/ ClearMask
  \/ CallbackReturns

Interrupts == \E type \in InterruptTypes : Interrupt(type)

Next == Calls \/ Main \/ Interrupts

Spec == Init /\ [][Next]_vars

-----------------------------------------------------------------------------
\* Properties.

\* Every variable has the shape the code gives it.
TypeOK ==
  /\ handlers \in [Slot -> Handler]
  /\ handlers_usage_mask \subseteq Slot
  /\ stack \in Seq(Frame)
  /\ answer \in [call   : {"add_handler", "unmarshal"},
                 type   : Types \cup {NULL},
                 result : BOOLEAN] \cup {NULL}
  /\ served \in Dispatched \cup {NULL}

\* No type is registered in two slots: add_handler looks for the type before it takes
\* a slot, and every call made from a callback of the main program has ended by then.
NoTypeTwice ==
  \A i, j \in handlers_usage_mask :
    handlers[i].type = handlers[j].type /\ handlers[i].type # NULL => i = j

\* The slot that add_handler is filling: taken, not yet published.
Filling(i) == (At("callback") \/ At("type")) /\ Top.idx = i

Clearing == At("memset") \/ At("mask")

\* add_handler has taken a slot and not published it yet, or clear_handlers is at work.
HalfDone == At("callback") \/ At("type") \/ Clearing

\* Mask and table agree at every moment an interrupt can look: a slot whose bit
\* is zero is all zero (so a slot taken again shows no callback of its previous
\* owner), a slot that shows a type has its bit and its callback, and only a slot
\* being filled, or cleared, has its bit and no type.
MaskMatchesTable ==
  \A i \in Slot :
    /\ i \notin handlers_usage_mask => handlers[i] = ZeroHandler
    /\ handlers[i].type # NULL => handlers[i].callback # NULL
    /\ i \in handlers_usage_mask /\ handlers[i].type = NULL => Filling(i) \/ Clearing

\* What an interrupt can meet.  A message of a known type is given to a registered
\* function at every moment.  One of no known type is served, not turned away, only by
\* an interrupt that finds add_handler or clear_handlers half done; and only before
\* add_handler has written the callback, or while clear_handlers is at work, is what it
\* is given to the null pointer.
MisservedOnlyHalfDone ==
  served # NULL =>
    /\ served.type = NULL => served.during \in {"callback", "type", "memset", "mask"}
    /\ served.callback = NULL => served.type = NULL /\ served.during # "type"
=============================================================================
