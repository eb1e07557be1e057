---------------------------- MODULE ProtoBuffMap ----------------------------
(***************************************************************************)
(* The table and mask of ProtoBuff implement HandlerMap: the registry is   *)
(* what the slots that show a type hold.  A registration takes effect when *)
(* add_handler writes the type, the last of its steps.  A change is under  *)
(* way from the step that takes the slot, or from the entry into           *)
(* clear_handlers, to the end of the call.                                 *)
(***************************************************************************)
EXTENDS ProtoBuff

Published == { i \in handlers_usage_mask : handlers[i].type # NULL }

PublishedTypes == { handlers[i].type : i \in Published }

SlotOf(type) == CHOOSE i \in Published : handlers[i].type = type

Registry == [type \in PublishedTypes |-> handlers[SlotOf(type)].callback]

\* The last dispatch, without the moment it came at.
ServedMessage ==
  IF served = NULL THEN NULL ELSE [type |-> served.type, callback |-> served.callback]

Map == INSTANCE HandlerMap
         WITH Capacity <- MaxHandlers, Unknown <- NULL, None <- NULL,
              registry <- Registry, changing <- HalfDone, served <- ServedMessage

\* add_handler refuses a type exactly when it is registered or every slot holds
\* another type, a message of a known type reaches the callback registered last for
\* its type or nobody, also from an interrupt, one of no known type is served by an
\* interrupt in the middle of a change at most, and the registry changes in no other way.
ImplementsMap == Map!MapSpec
=============================================================================
