------------------------------- MODULE TopicData -------------------------------
(***************************************************************************)
(* Messages of one topic on their way from DDSTopicDataWriter::writeMessage*)
(* through the generated code to the object the reader's listener made.    *)
(*                                                                         *)
(* External: for a write, the DataWriter takes a payload from its pool,    *)
(* large enough according to its memory policy, has the TypeSupport fill   *)
(* it, and answers an error if it cannot; PREALLOCATED payloads have       *)
(* m_typeSize bytes, DYNAMIC_RESERVE ones what getSerializedSizeProvider   *)
(* says, PREALLOCATED_WITH_REALLOC (the default) ones at least either.     *)
(* Preallocated payloads are used again, with what they held before.       *)
(* Samples arrive whole or not at all.                                     *)
(***************************************************************************)
EXTENDS HelloWorldTypes

CONSTANTS
  Messages,     \* for each type name, the messages the application writes
  MaxWrites     \* bound: calls of writeMessage

ASSUME MaxWritesAssumption == MaxWrites \in Nat

ASSUME MessagesAssumption ==
  /\ Messages["DataBase"] \subseteq [baseId : Nat]
  /\ Messages["ChildData"] \subseteq [baseId : Nat, childId : Nat]
  /\ Messages["HelloWorldOne"] \subseteq [index : Nat, points : Nat]
  /\ Messages["HelloWorldTwo"] \subseteq
       [baseId : Nat, index : Nat, message : Nat,
        children : Seq([baseId : Nat, childId : Nat])]

None == [none |-> TRUE]
Policies == {"PREALLOCATED", "PREALLOCATED_WITH_REALLOC", "DYNAMIC_RESERVE"}

VARIABLES
  topicType,      \* name of the topic's type
  representation, \* of the DataWriter
  policy,         \* of the DataWriter's payload pool
  stage,          \* "idle", "reserved" (payload taken), "sending"
  message,        \* the argument of the last writeMessage
  payload,        \* the payload of the pool
  instance,       \* the instance the sample belongs to
  answer,         \* of the last writeMessage
  received,       \* what the reader made of the last sample that arrived
  writes

qos == <<topicType, representation, policy>>
vars == <<qos, stage, message, payload, instance, answer, received, writes>>

\* What IDL and generator declare: the largest message of each type.
WithinBounds(m) ==
  CASE topicType = "HelloWorldOne" -> m.points <= MaxPoints
    [] topicType = "HelloWorldTwo" ->
         m.message <= MaxMessage /\ Len(m.children) <= MaxChildren
    [] OTHER -> TRUE

\* Types; a payload's valid bytes are bytes it has; all samples are of one instance.
TypeOK ==
  /\ topicType \in TypeNames
  /\ representation \in Representations
  /\ policy \in Policies
  /\ stage \in {"idle", "reserved", "sending"}
  /\ message \in Messages[topicType] \cup {None}
  /\ payload.length \in 0..payload.max_size
  /\ instance = <<>>
  /\ answer \in {"none", "true", "false"}
  /\ received # None => received.sent \in Messages[topicType]
  /\ writes \in 0..MaxWrites

Init ==
  /\ topicType \in TypeNames
  /\ representation \in Representations
  /\ policy \in Policies
  /\ stage = "idle"
  /\ message = None
  /\ payload = [data |-> <<>>, length |-> 0, max_size |-> 0]
  /\ instance = <<>>
  /\ answer = "none"
  /\ received = None
  /\ writes = 0

\* The payload the pool gives for a message of the given size.
PayloadFor(size) ==
  CASE policy = "PREALLOCATED" ->
         [payload EXCEPT !.max_size = TypeSize(topicType)]
    [] policy = "PREALLOCATED_WITH_REALLOC" ->
         [payload EXCEPT !.max_size =
            CHOOSE max \in {@, size, TypeSize(topicType)} :
              \A n \in {@, size, TypeSize(topicType)} : n <= max]
    [] policy = "DYNAMIC_RESERVE" ->
         [data |-> <<>>, length |-> 0, max_size |-> size]

\* DataWriter::write, up to the call of serialize.
Reserve(m) ==
  /\ stage = "idle"
  /\ writes < MaxWrites
  /\ stage' = "reserved"
  /\ message' = m
  /\ payload' = PayloadFor(SerializedSize(topicType, m, representation))
  /\ instance' = InstanceOf(topicType, m)
  /\ answer' = "none"
  /\ writes' = writes + 1
  /\ UNCHANGED <<qos, received>>

\* TopicDataType::serialize; the sample is sent unless it failed.
Fill ==
  /\ stage = "reserved"
  /\ LET result == Serialize(topicType, message, payload, representation)
     IN /\ payload' = result.payload
        /\ stage' = IF result.ok THEN "sending" ELSE "idle"
        /\ answer' = IF result.ok THEN "true" ELSE "false"
  /\ UNCHANGED <<qos, message, instance, received, writes>>

\* take_next_sample: TopicDataType::deserialize of the sample that arrived.
Take ==
  /\ stage = "sending"
  /\ stage' = "idle"
  /\ received' = LET result == Deserialize(topicType, payload)
                 IN [sent |-> message, ok |-> result.ok, data |-> result.data]
  /\ UNCHANGED <<qos, message, payload, instance, answer, writes>>

Lose ==
  /\ stage = "sending"
  /\ stage' = "idle"
  /\ UNCHANGED <<qos, message, payload, instance, answer, received, writes>>

Next ==
  \/ \E m \in Messages[topicType] : Reserve(m)
  \/ Fill
  \/ Take
  \/ Lose

Spec == Init /\ [][Next]_vars
-----------------------------------------------------------------------------
\* Properties.

(***************************************************************************)
(* calculate_serialized_size and serialize are generated separately, yet   *)
(* the size asked for is to the byte what is written, in both              *)
(* representations: a DYNAMIC_RESERVE payload is neither short nor long.   *)
(***************************************************************************)
SizeIsExact ==
  stage = "sending" =>
    payload.length = SerializedSize(topicType, message, representation)

(***************************************************************************)
(* writeMessage only fails for a message that exceeds what the IDL and the *)
(* generator declare, and only with fixed payloads: the literal            *)
(* max_cdr_typesize covers every message within the bounds.  (Of texts     *)
(* without a NUL inside, which Fast CDR refuses whatever their length.)    *)
(***************************************************************************)
OnlyOversizedRefused ==
  answer = "false" => policy = "PREALLOCATED" /\ ~WithinBounds(message)

(***************************************************************************)
(* What arrives is what was written, every member of base and elements,    *)
(* whatever the payload held before and whichever representation the       *)
(* writer chose; nothing that arrives fails to deserialise.                *)
(***************************************************************************)
ReceivedIsSent ==
  received # None => received.ok /\ received.data = received.sent
=============================================================================
