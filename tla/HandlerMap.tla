----------------------------- MODULE HandlerMap -----------------------------
(***************************************************************************)
(* What the handler registry of ProtoBuff promises: a finite map from      *)
(* message types to callbacks, of bounded size.  A type is registered at   *)
(* most once; a message is given to the callback registered for its type   *)
(* or to nobody; clearing forgets registrations, not necessarily all at    *)
(* the same instant for an interrupt that looks at the map meanwhile.      *)
(* One thing it does not promise: while a registration or a clearing is    *)
(* under way, a message of an unknown type is not always turned away.      *)
(***************************************************************************)
EXTENDS Integers, FiniteSets

CONSTANTS
  Capacity,     \* how many types can be registered: a natural number
  Types,        \* the message types
  Callbacks,    \* the functions that may be registered
  Unknown,      \* the type of a message that is none of Types
  None          \* nothing was answered, or served, yet

VARIABLES
  registry,     \* the callback of each registered type
  changing,     \* the main program is registering a type or clearing the map
  answer,       \* the call that returned last and its result
  served        \* the message that was dispatched last, and to which callback

mapVars == <<registry, changing, answer, served>>

Registered == DOMAIN registry

Answered(call, type, result) == answer' = [call |-> call, type |-> type, result |-> result]

Empty ==
  /\ registry = [t \in {} |-> None]
  /\ changing = FALSE
  /\ answer = None
  /\ served = None

\* A change begins; from here to its end the main program does nothing else.
Begin ==
  /\ ~changing
  /\ changing' = TRUE
  /\ UNCHANGED <<registry, answer, served>>

Register(type, callback) ==
  /\ changing
  /\ type \notin Registered
  /\ Cardinality(Registered) < Capacity
  /\ registry' = [t \in Registered \cup {type} |->
                    IF t = type THEN callback ELSE registry[t]]
  /\ changing' = FALSE
  /\ Answered("add_handler", type, TRUE)
  /\ UNCHANGED served

Refuse(type) ==
  /\ ~changing
  /\ type \in Registered \/ Cardinality(Registered) = Capacity
  /\ Answered("add_handler", type, FALSE)
  /\ UNCHANGED <<registry, changing, served>>

Forget(types) ==
  /\ changing
  /\ registry' = [t \in Registered \ types |-> registry[t]]
  /\ UNCHANGED <<changing, answer, served>>

\* The map has been cleared.
Cleared ==
  /\ changing
  /\ changing' = FALSE
  /\ UNCHANGED <<registry, answer, served>>

Serve(type) ==
  /\ type \in Registered
  /\ served' = [type |-> type, callback |-> registry[type]]
  /\ UNCHANGED <<registry, changing, answer>>

\* During a change, a message of no known type may be given to any callback, or to
\* the null pointer.
Misserve(callback) ==
  /\ changing
  /\ served' = [type |-> Unknown, callback |-> callback]
  /\ UNCHANGED <<registry, changing, answer>>

\* The callback of a served message has returned.
Served(type) ==
  /\ ~changing
  /\ served # None
  /\ Answered("unmarshal", type, TRUE)
  /\ UNCHANGED <<registry, changing, served>>

NotServed(type) ==
  /\ ~changing
  /\ type \notin Registered
  /\ Answered("unmarshal", type, FALSE)
  /\ UNCHANGED <<registry, changing, served>>

MapNext ==
  \/ Begin
  \/ Cleared
  \/ \E type \in Types : \/ \E callback \in Callbacks : Register(type, callback)
                         \/ Refuse(type)
                         \/ Serve(type)
                         \/ Served(type)
  \/ \E types \in SUBSET Types : Forget(types)
  \/ \E type \in Types \cup {Unknown} : NotServed(type)
  \/ \E callback \in Callbacks \cup {None} : Misserve(callback)

MapSpec == Empty /\ [][MapNext]_mapVars
=============================================================================
