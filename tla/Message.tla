---- MODULE Message ----
(***************************************************************************)
(* The messages of message.pyx: what each class writes after the fields    *)
(* of _MessageBase into its header (serial), which of its members are      *)
(* subcomponents, and from which place, counted from the end of the        *)
(* header, deserial_members reads a field back.  A field stands for its    *)
(* value; the address and uid of an actor_ref are fields of their own.     *)
(***************************************************************************)
EXTENDS Integers, Sequences

BaseSerial == <<"message_type", "message_id", "protocol", "message_trace", "profiling_context">>
BaseMembers == [message_id |-> 2, protocol |-> 3, message_trace |-> 4, profiling_context |-> 5]

\* A class: header fields, places of the fields from the end, subcomponents.
Class(serial, members, subs) == [serial |-> serial, members |-> members, subs |-> subs]
NoMembers == [f \in {} |-> 0]
RefMembers == [ref_address |-> 2, ref_uid |-> 1]

ControlMessage ==
    Class(<<"address", "control_message_type">>,
          [address |-> 2, control_message_type |-> 1], <<"content">>)
ResultMessage == Class(<<>>, NoMembers, <<"result">>)
ErrorMessage ==
    Class(<<"address", "pid">>, [address |-> 2, pid |-> 1], <<"error_type", "error", "traceback">>)
CreateActorMessage ==
    Class(<<"actor_id", "allocate_strategy", "from_main">>,
          [actor_id |-> 3, allocate_strategy |-> 2, from_main |-> 1],
          <<"actor_cls", "args", "kwargs">>)
DestroyActorMessage ==
    Class(<<"ref_address", "ref_uid", "from_main">>,
          [ref_address |-> 3, ref_uid |-> 2, from_main |-> 1], <<>>)
HasActorMessage == Class(<<"ref_address", "ref_uid">>, RefMembers, <<>>)
ActorRefMessage == Class(<<"ref_address", "ref_uid">>, RefMembers, <<>>)
SendMessage == Class(<<"ref_address", "ref_uid">>, RefMembers, <<"content">>)
CancelMessage ==
    Class(<<"address", "cancel_message_id">>, [address |-> 2, cancel_message_id |-> 1], <<>>)
CopyToBuffersMessage == Class(<<>>, NoMembers, <<"content">>)

\* _message_type_to_message_cls; TellMessage and CopyToFileObjectsMessage
\* inherit everything but their type.
ClassOf ==
    [control |-> ControlMessage, result |-> ResultMessage, error |-> ErrorMessage,
     create_actor |-> CreateActorMessage, destroy_actor |-> DestroyActorMessage,
     has_actor |-> HasActorMessage, actor_ref |-> ActorRefMessage, send |-> SendMessage,
     tell |-> SendMessage, cancel |-> CancelMessage,
     copy_to_buffers |-> CopyToBuffersMessage, copy_to_fileobjs |-> CopyToBuffersMessage]
MessageType == DOMAIN ClassOf

\* MessageSerializer.serial: the header of a message of type t.
Serialized(t) == [BaseSerial EXCEPT ![1] = t] \o ClassOf[t].serial

\* MessageSerializer.deserial: the members read from a header.
Members(header) ==
    LET cls == ClassOf[header[1]]
    IN [f \in DOMAIN BaseMembers \cup DOMAIN cls.members |->
          IF f \in DOMAIN cls.members THEN header[Len(header) + 1 - cls.members[f]]
          ELSE header[BaseMembers[f]]]
====
