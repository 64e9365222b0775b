------------------------ MODULE DomainParticipantInv ------------------------
(***************************************************************************)
(* The inductive invariant behind the safety properties of                 *)
(* DomainParticipant.  The properties speak of the states in which the     *)
(* lock is free; the invariant adds what holds in the middle of each       *)
(* critical section.                                                       *)
(***************************************************************************)
EXTENDS DomainParticipant

\* m_topicLock is held by exactly the thread that is between find and return.
LockInv == \A t \in Threads : topicLock = t <=> pc[t] \notin {"idle", "lock"}

\* What the arguments and locals of a thread are at each statement.
CallInv ==
  \A t \in Threads :
    /\ pc[t] = "idle" <=> op[t] = "none"
    /\ pc[t] # "idle" => name[t] # None /\ stage = "alive"
    /\ obj[t] # None <=> op[t] = "registerTopic"
    /\ pc[t] \in {"register_type", "create_topic", "insert"} => op[t] = "registerTopic"
    /\ pc[t] \in {"delete_topic", "erase"} => op[t] = "unregisterTopic"
    /\ pc[t] = "create_endpoint" => op[t] \in CreateOps

\* m_publisher and m_subscriber are assigned when there is a participant, and
\* as long as one of them lives, delete_participant is refused.
EntityInv ==
  /\ stage = "unborn" => participant = "null"
  /\ stage = "alive" => participant # "deleted"
  /\ participant = "live" => publisher # "garbage" /\ subscriber # "garbage"
  /\ publisher = "live" \/ subscriber = "live" => participant = "live"

\* Type objects: none is leaked, shared by two calls, or freed while registered.
ObjInv ==
  /\ TypeObjectsOwned
  /\ \A t \in Threads : obj[t] # None =>
       /\ objType[obj[t]] # None
       /\ TypeRegistered(obj[t]) <=> pc[t] \in {"create_topic", "insert"}
  /\ \A t, u \in Threads : obj[t] # None /\ obj[t] = obj[u] => t = u

\* Topics exist in a live participant, have a registered type, and share
\* neither name nor type; the topic a thread is about to create is the first
\* of its type.
TopicInv ==
  /\ \A i \in TopicIds : LiveTopic(i) <=> topicType[i] # None
  /\ \A i \in TopicIds : LiveTopic(i) => participant = "live" /\ types[topicType[i]] # None
  /\ \A i, j \in TopicIds : LiveTopic(i) /\ topicName[i] = topicName[j] => i = j
  /\ OneTopicPerDataType
  /\ \A t \in Threads : pc[t] = "create_topic" =>
       \A i \in TopicIds : topicType[i] # objType[obj[t]]

\* The map and the participant agree up to the one change in progress.
MapInv ==
  /\ \A n \in TopicNames : mapTopics[n] # None =>
       \/ topicName[mapTopics[n]] = n
       \/ \E t \in Threads : pc[t] = "erase" /\ name[t] = n
  /\ \A i \in TopicIds : LiveTopic(i) =>
       \/ mapTopics[topicName[i]] = i
       \/ \E t \in Threads : pc[t] = "insert" /\ tid[t] = i
  /\ \A t \in Threads :
       /\ pc[t] \in {"register_type", "create_topic", "insert"} => mapTopics[name[t]] = None
       /\ pc[t] = "insert" /\ tid[t] # Null => topicName[tid[t]] = name[t]
       /\ pc[t] \in {"create_endpoint", "delete_topic"} =>
            tid[t] # Null /\ topicName[tid[t]] = name[t]
       /\ pc[t] = "erase" => \A i \in TopicIds : topicName[i] # name[t]

\* An endpoint wrapper's parent is alive, and its topic exists and is mapped.
EndpointInv ==
  \A e \in Endpoints :
    /\ epKind[e] = "none" => epTopic[e] = None
    /\ epKind[e] # "none" => ParentPointer(epKind[e]) = "live"
    /\ epTopic[e] # None =>
         LiveTopic(epTopic[e]) /\ mapTopics[topicName[epTopic[e]]] = epTopic[e]

IInv ==
  /\ TypeOK
  /\ LockInv
  /\ CallInv
  /\ EntityInv
  /\ ObjInv
  /\ TopicInv
  /\ MapInv
  /\ EndpointInv
  /\ NoWildDereference
=============================================================================
