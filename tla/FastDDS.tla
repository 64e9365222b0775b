------------------------------- MODULE FastDDS -------------------------------
(***************************************************************************)
(* The part of the Fast DDS API (2.14, the version docker/dockerfile       *)
(* builds) that the wrapper calls, as far as the wrapper can observe it:   *)
(* one DomainParticipant with its Publisher and Subscriber, the types      *)
(* registered with it, its Topics, and the DataWriters and DataReaders     *)
(* attached to them.  None of this code is in the repository.  Every call  *)
(* is atomic here, because Fast DDS locks internally; whether a creation   *)
(* succeeds is Fast DDS's choice, so callers must cope with both answers.  *)
(*                                                                         *)
(* Pointers are ids drawn from small pools that stand for heap addresses:  *)
(* an id is free again as soon as its object is deleted, so a stale        *)
(* pointer may come to denote a different, younger object.                 *)
(***************************************************************************)
CONSTANTS
  TopicNames,   \* topic names, the keys of the wrapper's map
  TypeNames,    \* names of the data types (TopicDataType::getName)
  TypeObjs,     \* addresses of TopicDataType objects
  TopicIds,     \* addresses of Topic objects
  Endpoints,    \* addresses of DDSTopicDataWriter / DDSTopicDataReader objects
  None          \* "no entry", "no object"

ASSUME NoneAssumption ==
  None \notin TopicNames \cup TypeNames \cup TypeObjs \cup TopicIds \cup Endpoints

VARIABLES
  participant,  \* m_participant: "null", "live", or "deleted" once it is freed
  publisher,    \* m_publisher: "garbage" while unassigned, "null" or "live"
  subscriber,   \* m_subscriber: likewise
  types,        \* registered TypeSupport object of each type name
  objType,      \* type name of each allocated TopicDataType object
  topicName,    \* name of each live Topic object
  topicType,    \* type name of each live Topic object
  epKind,       \* "writer" or "reader" for each allocated endpoint wrapper
  epTopic       \* Topic of its DataWriter / DataReader; None: a null one

entityVars == <<participant, publisher, subscriber>>
typeVars == <<types, objType>>
topicVars == <<topicName, topicType>>
endpointVars == <<epKind, epTopic>>

Kinds == {"none", "writer", "reader"}

DDSTypeOK ==
  /\ participant \in {"null", "live", "deleted"}
  /\ publisher \in {"garbage", "null", "live"}
  /\ subscriber \in {"garbage", "null", "live"}
  /\ types \in [TypeNames -> TypeObjs \cup {None}]
  /\ objType \in [TypeObjs -> TypeNames \cup {None}]
  /\ topicName \in [TopicIds -> TopicNames \cup {None}]
  /\ topicType \in [TopicIds -> TypeNames \cup {None}]
  /\ epKind \in [Endpoints -> Kinds]
  /\ epTopic \in [Endpoints -> TopicIds \cup {None}]

DDSInit ==
  /\ participant = "null"
  /\ publisher = "garbage"
  /\ subscriber = "garbage"
  /\ types = [ty \in TypeNames |-> None]
  /\ objType = [o \in TypeObjs |-> None]
  /\ topicName = [i \in TopicIds |-> None]
  /\ topicType = [i \in TopicIds |-> None]
  /\ epKind = [e \in Endpoints |-> "none"]
  /\ epTopic = [e \in Endpoints |-> None]

-----------------------------------------------------------------------------
LiveTopic(i) == topicName[i] # None

\* A TypeSupport shares ownership with the participant it is registered with.
TypeRegistered(o) == \E ty \in TypeNames : types[ty] = o

(***************************************************************************)
(* DomainParticipant::register_type answers RETCODE_PRECONDITION_NOT_MET   *)
(* when another TypeSupport object is registered under the same name, and  *)
(* the participant never forgets a type the wrapper registered: nothing    *)
(* calls unregister_type.                                                  *)
(***************************************************************************)
RegisterTypeRefused(o) == types[objType[o]] \notin {None, o}

register_type(o) == types' = [types EXCEPT ![objType[o]] = o]

(***************************************************************************)
(* DomainParticipant::create_topic never creates a second topic of the     *)
(* same name, nor one whose type is not registered.                        *)
(***************************************************************************)
create_topic(n, ty, i) ==
  /\ \A j \in TopicIds : topicName[j] # n
  /\ types[ty] # None
  /\ ~LiveTopic(i)
  /\ topicName' = [topicName EXCEPT ![i] = n]
  /\ topicType' = [topicType EXCEPT ![i] = ty]

(***************************************************************************)
(* DomainParticipant::delete_topic answers RETCODE_PRECONDITION_NOT_MET    *)
(* while a DataWriter or DataReader is attached to the topic.              *)
(***************************************************************************)
TopicReferenced(i) == \E e \in Endpoints : epTopic[e] = i

delete_topic(i) ==
  /\ topicName' = [topicName EXCEPT ![i] = None]
  /\ topicType' = [topicType EXCEPT ![i] = None]

\* DomainParticipantFactory::delete_participant refuses while this holds.
has_active_entities ==
  \/ publisher = "live"
  \/ subscriber = "live"
  \/ \E i \in TopicIds : LiveTopic(i)

\* What m_publisher / m_subscriber point at, seen from an endpoint wrapper.
ParentPointer(kind) ==
  IF participant = "deleted" THEN "deleted"
  ELSE IF kind = "writer" THEN publisher ELSE subscriber
=============================================================================
