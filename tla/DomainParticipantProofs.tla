----------------------- MODULE DomainParticipantProofs -----------------------
(***************************************************************************)
(* Proofs about DomainParticipant, for any sets of threads, names, types,  *)
(* addresses and endpoints: the invariant IInv of DomainParticipantInv is  *)
(* inductive, the safety properties follow from it, and the concurrent     *)
(* operations implement the atomic registry: each action is one step of    *)
(* TopicRegistry, or none.                                                 *)
(***************************************************************************)
EXTENDS DomainParticipantInv, TLAPS

\* Before the constructor has run nothing exists that could disagree.
LEMMA InitIInv == Init => IInv
<1> SUFFICES ASSUME Init PROVE IInv
  OBVIOUS
<1> USE DEF Init, DDSInit
<1>1. TypeOK
  BY DEF TypeOK, DDSTypeOK, Kinds, Steps, Results, Ops, NameOps, CreateOps
<1>2. LockInv /\ CallInv /\ EntityInv /\ NoWildDereference
  BY ThreadAssumption DEF LockInv, CallInv, EntityInv, NoWildDereference
<1>3. ObjInv /\ TopicInv /\ MapInv /\ EndpointInv
  BY DEF ObjInv, TypeObjectsOwned, TypeRegistered, TopicInv, LiveTopic, OneTopicPerDataType,
         MapInv, EndpointInv
<1> QED
  BY <1>1, <1>2, <1>3 DEF IInv

\* Whichever creation fails, a parent that is live has a live participant.
LEMMA ConstructStep ==
  ASSUME IInv, Construct
  PROVE  IInv'
<1> USE DEF IInv
<1> USE DEF Construct, entityVars, typeVars, topicVars, endpointVars,
        lockVars, argVars
<1>1. TypeOK'
  BY DEF TypeOK, DDSTypeOK, Kinds, Steps, Results, Ops, NameOps, CreateOps
<1>2. LockInv'
  BY ThreadAssumption DEF LockInv, TypeOK
<1>3. CallInv'
  BY NoneAssumption, ThreadAssumption DEF CallInv, TypeOK, NameOps, CreateOps
<1>4. EntityInv'
  BY DEF EntityInv
<1>5. ObjInv'
  BY DEF ObjInv, TypeObjectsOwned, TypeRegistered, TypeOK, DDSTypeOK, CallInv
<1>6. TopicInv'
  BY DEF TopicInv, LiveTopic, OneTopicPerDataType, TypeOK, DDSTypeOK, LockInv
<1>7. MapInv'
  BY DEF MapInv, LiveTopic, TypeOK, DDSTypeOK, LockInv
<1>8. EndpointInv'
  <2>1. \A e \in Endpoints : epKind[e] = "none" /\ epTopic[e] = None
    BY DEF EndpointInv, EntityInv, ParentPointer, TypeOK, DDSTypeOK, LiveTopic, TopicInv
  <2> QED
    BY <2>1 DEF EndpointInv
<1>9. NoWildDereference'
  BY DEF NoWildDereference
<1> QED
  BY <1>1, <1>2, <1>3, <1>4, <1>5, <1>6, <1>7, <1>8, <1>9

\* delete_participant is refused while a Publisher, Subscriber or Topic exists.
LEMMA DestroyStep ==
  ASSUME IInv, Destroy
  PROVE  IInv'
<1> USE DEF IInv
<1> USE DEF Destroy, entityVars, typeVars, topicVars, endpointVars,
        lockVars, argVars
<1>1. TypeOK'
  BY DEF TypeOK, DDSTypeOK, Kinds, Steps, Results, Ops, NameOps, CreateOps
<1>2. LockInv'
  BY ThreadAssumption DEF LockInv, TypeOK
<1>3. CallInv'
  BY NoneAssumption, ThreadAssumption DEF CallInv, TypeOK, NameOps, CreateOps
<1>4. EntityInv'
  BY DEF EntityInv, has_active_entities, TypeOK, DDSTypeOK
<1>5. ObjInv'
  BY DEF ObjInv, TypeObjectsOwned, TypeRegistered, TypeOK, DDSTypeOK, CallInv
<1>6. TopicInv'
  BY DEF TopicInv, LiveTopic, OneTopicPerDataType, has_active_entities
<1>7. MapInv'
  BY DEF MapInv, LiveTopic, TypeOK, DDSTypeOK, LockInv
<1>8. EndpointInv'
  BY DEF EndpointInv, LiveTopic, ParentPointer, EntityInv, has_active_entities
<1>9. NoWildDereference'
  BY DEF NoWildDereference
<1> QED
  BY <1>1, <1>2, <1>3, <1>4, <1>5, <1>6, <1>7, <1>8, <1>9

\* A null data type is refused before anything is touched.
LEMMA RegisterNullTypeStep ==
  ASSUME IInv, NEW t \in Threads, RegisterNullType(t)
  PROVE  IInv'
<1> USE DEF IInv
<1> USE DEF RegisterNullType, entityVars, typeVars, topicVars, endpointVars,
        lockVars, argVars
<1>1. TypeOK'
  BY DEF TypeOK, DDSTypeOK, Kinds, Steps, Results, Ops, NameOps, CreateOps
<1>2. LockInv'
  BY ThreadAssumption DEF LockInv, TypeOK
<1>3. CallInv'
  BY NoneAssumption, ThreadAssumption DEF CallInv, TypeOK, NameOps, CreateOps
<1>4. EntityInv'
  BY DEF EntityInv
<1>5. ObjInv'
  BY DEF ObjInv, TypeObjectsOwned, TypeRegistered, TypeOK, DDSTypeOK, CallInv
<1>6. TopicInv'
  BY DEF TopicInv, LiveTopic, OneTopicPerDataType, TypeOK, DDSTypeOK, LockInv
<1>7. MapInv'
  BY DEF MapInv, LiveTopic, TypeOK, DDSTypeOK, LockInv
<1>8. EndpointInv'
  BY DEF EndpointInv, LiveTopic, TypeOK, DDSTypeOK, ParentPointer, MapInv
<1>9. NoWildDereference'
  BY DEF NoWildDereference
<1> QED
  BY <1>1, <1>2, <1>3, <1>4, <1>5, <1>6, <1>7, <1>8, <1>9

\* The call takes over a type object that no other call and no type name has.
LEMMA CallRegisterTopicStep ==
  ASSUME IInv, NEW t \in Threads, NEW n \in TopicNames, NEW ty \in TypeNames,
         NEW o \in TypeObjs, CallRegisterTopic(t, n, ty, o)
  PROVE  IInv'
<1> USE DEF IInv
<1> USE DEF CallRegisterTopic, entityVars, typeVars, topicVars, endpointVars,
        lockVars, argVars
<1>1. TypeOK'
  BY DEF TypeOK, DDSTypeOK, Kinds, Steps, Results, Ops, NameOps, CreateOps
<1>2. LockInv'
  BY ThreadAssumption DEF LockInv, TypeOK
<1>3. CallInv'
  BY NoneAssumption, ThreadAssumption DEF CallInv, TypeOK, NameOps, CreateOps
<1>4. EntityInv'
  BY DEF EntityInv
<1>5. ObjInv'
  <2> USE NoneAssumption DEF ObjInv, TypeObjectsOwned, TypeRegistered, TypeOK, DDSTypeOK
  <2>1. ~TypeRegistered(o) /\ \A u \in Threads : obj[u] # o
    OBVIOUS
  <2>2. \A ty2 \in TypeNames : types[ty2] # None => objType'[types[ty2]] = ty2
    BY <2>1
  <2>3. \A x \in TypeObjs : objType'[x] # None =>
          TypeRegistered(x)' \/ \E u \in Threads : pc'[u] # "idle" /\ obj'[u] = x
    BY <2>1
  <2>4. ASSUME NEW u \in Threads, obj'[u] # None
        PROVE  /\ objType'[obj'[u]] # None
               /\ (\E ty2 \in TypeNames : types[ty2] = obj'[u])
                    <=> pc'[u] \in {"create_topic", "insert"}
    <3>1. CASE u = t
      <4>1. obj'[u] = o /\ objType'[o] = ty /\ pc'[u] = "lock"
        BY <3>1
      <4> QED
        BY <2>1, <4>1
    <3>2. CASE u # t
      <4>1. /\ obj'[u] = obj[u] /\ pc'[u] = pc[u]
            /\ obj[u] \in TypeObjs /\ objType'[obj[u]] = objType[obj[u]]
        BY <2>1, <2>4, <3>2
      <4> QED
        BY <2>4, <4>1
    <3> QED
      BY <3>1, <3>2
  <2>5. \A u, v \in Threads : obj'[u] # None /\ obj'[u] = obj'[v] => u = v
    BY <2>1
  <2> QED
    BY <2>2, <2>3, <2>4, <2>5
<1>6. TopicInv'
  <2>1. \A u \in Threads : pc'[u] = "create_topic" =>
          pc[u] = "create_topic" /\ obj'[u] = obj[u] /\ objType'[obj[u]] = objType[obj[u]]
    BY DEF ObjInv, CallInv, TypeOK, DDSTypeOK
  <2> QED
    BY <2>1 DEF TopicInv, LiveTopic, OneTopicPerDataType
<1>7. MapInv'
  BY DEF MapInv, LiveTopic, TypeOK, DDSTypeOK, LockInv
<1>8. EndpointInv'
  BY DEF EndpointInv, LiveTopic, TypeOK, DDSTypeOK, ParentPointer, MapInv
<1>9. NoWildDereference'
  BY DEF NoWildDereference
<1> QED
  BY <1>1, <1>2, <1>3, <1>4, <1>5, <1>6, <1>7, <1>8, <1>9

\* The other three calls start without a type object.
LEMMA CallWithNameStep ==
  ASSUME IInv, NEW t \in Threads, NEW o \in NameOps, NEW n \in TopicNames,
         CallWithName(t, o, n)
  PROVE  IInv'
<1> USE DEF IInv
<1> USE DEF CallWithName, entityVars, typeVars, topicVars, endpointVars,
        lockVars, argVars
<1>1. TypeOK'
  BY DEF TypeOK, DDSTypeOK, Kinds, Steps, Results, Ops, NameOps, CreateOps
<1>2. LockInv'
  BY ThreadAssumption DEF LockInv, TypeOK
<1>3. CallInv'
  BY NoneAssumption, ThreadAssumption DEF CallInv, TypeOK, NameOps, CreateOps
<1>4. EntityInv'
  BY DEF EntityInv
<1>5. ObjInv'
  BY DEF ObjInv, TypeObjectsOwned, TypeRegistered, TypeOK, DDSTypeOK, CallInv
<1>6. TopicInv'
  BY DEF TopicInv, LiveTopic, OneTopicPerDataType, TypeOK, DDSTypeOK, LockInv
<1>7. MapInv'
  BY DEF MapInv, LiveTopic, TypeOK, DDSTypeOK, LockInv
<1>8. EndpointInv'
  BY DEF EndpointInv, LiveTopic, TypeOK, DDSTypeOK, ParentPointer, MapInv
<1>9. NoWildDereference'
  BY DEF NoWildDereference
<1> QED
  BY <1>1, <1>2, <1>3, <1>4, <1>5, <1>6, <1>7, <1>8, <1>9

\* The lock was free, so no other thread is past it.
LEMMA AcquireLockStep ==
  ASSUME IInv, NEW t \in Threads, AcquireLock(t)
  PROVE  IInv'
<1> USE DEF IInv
<1> USE DEF AcquireLock, Goto, entityVars, typeVars, topicVars, endpointVars,
        lockVars, argVars
<1>1. TypeOK'
  BY DEF TypeOK, DDSTypeOK, Kinds, Steps, Results, Ops, NameOps, CreateOps
<1>2. LockInv'
  BY ThreadAssumption DEF LockInv, TypeOK
<1>3. CallInv'
  BY NoneAssumption, ThreadAssumption DEF CallInv, TypeOK, NameOps, CreateOps
<1>4. EntityInv'
  BY DEF EntityInv
<1>5. ObjInv'
  BY DEF ObjInv, TypeObjectsOwned, TypeRegistered, TypeOK, DDSTypeOK, CallInv
<1>6. TopicInv'
  BY DEF TopicInv, LiveTopic, OneTopicPerDataType, TypeOK, DDSTypeOK, LockInv
<1>7. MapInv'
  BY DEF MapInv, LiveTopic, TypeOK, DDSTypeOK, LockInv
<1>8. EndpointInv'
  BY DEF EndpointInv, LiveTopic, TypeOK, DDSTypeOK, ParentPointer, MapInv
<1>9. NoWildDereference'
  BY DEF NoWildDereference
<1> QED
  BY <1>1, <1>2, <1>3, <1>4, <1>5, <1>6, <1>7, <1>8, <1>9

\* A thread that found the name holds the pointer the map has: a live topic.
LEMMA FindHitStep ==
  ASSUME IInv, NEW t \in Threads, FindHit(t)
  PROVE  IInv'
<1> USE DEF IInv
<1> USE DEF FindHit, Return, DropTypeSupport, Goto, entityVars, typeVars, topicVars,
        endpointVars, lockVars, argVars
<1>0. name[t] \in TopicNames /\ mapTopics[name[t]] \in TopicIds
  BY DEF TypeOK, CallInv
<1>1. TypeOK'
  <2>1. CASE op[t] = "registerTopic"
    BY <2>1 DEF TypeOK, DDSTypeOK, Steps, Results
  <2>2. CASE op[t] # "registerTopic"
    BY <1>0, <2>2 DEF TypeOK, DDSTypeOK, Steps
  <2> QED
    BY <2>1, <2>2
<1>2. LockInv'
  BY ThreadAssumption DEF LockInv, TypeOK
<1>3. CallInv'
  <2>1. CASE op[t] = "registerTopic"
    BY <2>1, NoneAssumption DEF CallInv, TypeOK
  <2>2. CASE op[t] # "registerTopic"
    BY <2>2 DEF CallInv, TypeOK, Ops, NameOps, CreateOps
  <2> QED
    BY <2>1, <2>2
<1>4. EntityInv'
  BY DEF EntityInv
<1>5. ObjInv'
  BY DEF ObjInv, TypeObjectsOwned, TypeRegistered, TypeOK, DDSTypeOK, CallInv
<1>6. TopicInv'
  BY DEF TopicInv, LiveTopic, OneTopicPerDataType, TypeOK, DDSTypeOK, LockInv
<1>7. MapInv'
  <2> USE DEF MapInv, LiveTopic, TypeOK, DDSTypeOK, LockInv
  <2>1. CASE op[t] = "registerTopic"
    BY <2>1
  <2>2. CASE op[t] # "registerTopic"
    <3>1. topicName[mapTopics[name[t]]] = name[t]
      BY <1>0
    <3> QED
      BY <1>0, <2>2, <3>1, ThreadAssumption
  <2> QED
    BY <2>1, <2>2
<1>8. EndpointInv'
  BY DEF EndpointInv, LiveTopic, TypeOK, DDSTypeOK, ParentPointer, MapInv
<1>9. NoWildDereference'
  BY DEF NoWildDereference
<1> QED
  BY <1>1, <1>2, <1>3, <1>4, <1>5, <1>6, <1>7, <1>8, <1>9

\* A thread that missed the name returns, or goes on with a name that is not mapped.
LEMMA FindMissStep ==
  ASSUME IInv, NEW t \in Threads, FindMiss(t)
  PROVE  IInv'
<1> USE DEF IInv
<1> USE DEF FindMiss, Return, DropTypeSupport, Goto, entityVars, typeVars, topicVars,
        endpointVars, lockVars, argVars
<1>1. TypeOK'
  BY DEF TypeOK, DDSTypeOK, Kinds, Steps, Results, Ops, NameOps, CreateOps
<1>2. LockInv'
  BY ThreadAssumption DEF LockInv, TypeOK
<1>3. CallInv'
  BY NoneAssumption, ThreadAssumption DEF CallInv, TypeOK, NameOps, CreateOps
<1>4. EntityInv'
  BY DEF EntityInv
<1>5. ObjInv'
  BY DEF ObjInv, TypeObjectsOwned, TypeRegistered, TypeOK, DDSTypeOK, CallInv
<1>6. TopicInv'
  BY DEF TopicInv, LiveTopic, OneTopicPerDataType, TypeOK, DDSTypeOK, LockInv
<1>7. MapInv'
  BY DEF MapInv, LiveTopic, TypeOK, DDSTypeOK, LockInv
<1>8. EndpointInv'
  BY DEF EndpointInv, LiveTopic, TypeOK, DDSTypeOK, ParentPointer, MapInv
<1>9. NoWildDereference'
  BY DEF NoWildDereference
<1> QED
  BY <1>1, <1>2, <1>3, <1>4, <1>5, <1>6, <1>7, <1>8, <1>9

\* A type that is accepted was not registered, so no topic has it yet.
LEMMA RegisterTypeStep ==
  ASSUME IInv, NEW t \in Threads, RegisterType(t)
  PROVE  IInv'
<1> USE DEF IInv
<1> USE DEF RegisterType, Return, DropTypeSupport, Goto, register_type, entityVars, typeVars,
       topicVars, endpointVars, lockVars, argVars
<1>1. TypeOK'
  BY DEF TypeOK, DDSTypeOK, Kinds, Steps, Results, Ops, NameOps, CreateOps
<1>2. LockInv'
  BY ThreadAssumption DEF LockInv, TypeOK
<1>3. CallInv'
  BY NoneAssumption, ThreadAssumption DEF CallInv, TypeOK, NameOps, CreateOps
<1>4. EntityInv'
  BY DEF EntityInv
<1>5. ObjInv'
  <2> USE DEF TypeRegistered, TypeOK, DDSTypeOK
  <2>0. /\ obj[t] \in TypeObjs /\ ~TypeRegistered(obj[t])
        /\ objType[obj[t]] \in TypeNames
    BY DEF CallInv, ObjInv
  <2>1. CASE RegisterTypeRefused(obj[t])
    BY <2>1 DEF ObjInv, TypeObjectsOwned, RegisterTypeRefused
  <2>2. CASE ~RegisterTypeRefused(obj[t])
    <3>1. \A ty \in TypeNames : types'[ty] =
            IF ty = objType[obj[t]] THEN obj[t] ELSE types[ty]
      BY <2>0, <2>2 DEF RegisterTypeRefused
    <3>2. types[objType[obj[t]]] = None
      BY <2>0, <2>2 DEF RegisterTypeRefused
    <3>3. \A x \in TypeObjs : TypeRegistered(x)' <=> x = obj[t] \/ TypeRegistered(x)
      BY <2>0, <3>1, <3>2, NoneAssumption
    <3>4. objType' = objType /\ obj' = obj
          /\ \A u \in Threads : pc'[u] = IF u = t THEN "create_topic" ELSE pc[u]
      BY <2>2 DEF RegisterTypeRefused
    <3>5. TypeObjectsOwned'
      BY <2>0, <3>1, <3>2, <3>3, <3>4 DEF ObjInv, TypeObjectsOwned
    <3> QED
      BY <2>0, <3>3, <3>4, <3>5 DEF ObjInv
  <2> QED
    BY <2>1, <2>2
<1>6. TopicInv'
  <2> USE DEF TypeOK, DDSTypeOK
  <2>0. obj[t] \in TypeObjs /\ objType[obj[t]] \in TypeNames
    BY DEF CallInv, ObjInv
  <2>1. CASE RegisterTypeRefused(obj[t])
    BY <2>1 DEF TopicInv, LiveTopic, OneTopicPerDataType, LockInv
  <2>2. CASE ~RegisterTypeRefused(obj[t])
    <3>1. types[objType[obj[t]]] = None
      BY <2>0, <2>2 DEF RegisterTypeRefused, ObjInv, CallInv, TypeRegistered
    <3>2. \A i \in TopicIds : topicType[i] # objType[obj[t]]
      BY <2>0, <3>1, NoneAssumption DEF TopicInv
    <3> QED
      BY <2>0, <2>2, <3>1, <3>2, NoneAssumption
      DEF TopicInv, LiveTopic, OneTopicPerDataType, LockInv
  <2> QED
    BY <2>1, <2>2
<1>7. MapInv'
  BY DEF MapInv, LiveTopic, TypeOK, DDSTypeOK, LockInv
<1>8. EndpointInv'
  BY DEF EndpointInv, LiveTopic, TypeOK, DDSTypeOK, ParentPointer, MapInv
<1>9. NoWildDereference'
  BY DEF NoWildDereference
<1> QED
  BY <1>1, <1>2, <1>3, <1>4, <1>5, <1>6, <1>7, <1>8, <1>9

\* The new topic is the one entry that the map does not have yet.
LEMMA CreateTopicStep ==
  ASSUME IInv, NEW t \in Threads, CreateTopic(t)
  PROVE  IInv'
<1> USE DEF IInv
<1> USE DEF CreateTopic, Goto, create_topic, entityVars, typeVars, topicVars, endpointVars,
        lockVars, argVars
<1>0. /\ name[t] \in TopicNames /\ obj[t] \in TypeObjs
      /\ objType[obj[t]] \in TypeNames
  BY DEF TypeOK, DDSTypeOK, CallInv, ObjInv
<1>1. TypeOK'
  BY <1>0 DEF TypeOK, DDSTypeOK, Steps
<1>2. LockInv'
  BY ThreadAssumption DEF LockInv, TypeOK
<1>3. CallInv'
  BY NoneAssumption, ThreadAssumption DEF CallInv, TypeOK, NameOps, CreateOps
<1>4. EntityInv'
  BY DEF EntityInv
<1>5. ObjInv'
  BY DEF ObjInv, TypeObjectsOwned, TypeRegistered, TypeOK, DDSTypeOK, CallInv
<1>6. TopicInv'
  BY DEF TopicInv, LiveTopic, OneTopicPerDataType, TypeOK, DDSTypeOK, LockInv
<1>7. MapInv'
  <2> USE DEF LiveTopic, TypeOK, DDSTypeOK
  <2>1. CASE tid' = [tid EXCEPT ![t] = Null] /\ UNCHANGED topicVars
    BY <2>1, ThreadAssumption DEF MapInv, LockInv
  <2>2. ASSUME NEW i \in TopicIds, create_topic(name[t], objType[obj[t]], i),
               tid' = [tid EXCEPT ![t] = i]
        PROVE  MapInv'
    <3>1. \A j \in TopicIds : topicName'[j] = IF j = i THEN name[t] ELSE topicName[j]
      BY <2>2
    <3>2. \A n \in TopicNames : mapTopics[n] # i
      BY <2>2, NoneAssumption DEF MapInv, LockInv
    <3>3. \A u \in Threads : u # t => pc[u] \in {"idle", "lock"} /\ pc'[u] = pc[u]
      BY DEF LockInv
    <3> QED
      BY <1>0, <2>2, <3>1, <3>2, <3>3, NoneAssumption, ThreadAssumption DEF MapInv, LockInv
  <2> QED
    BY <2>1, <2>2
<1>8. EndpointInv'
  BY DEF EndpointInv, LiveTopic, TypeOK, DDSTypeOK, ParentPointer, MapInv
<1>9. NoWildDereference'
  BY DEF NoWildDereference
<1> QED
  BY <1>1, <1>2, <1>3, <1>4, <1>5, <1>6, <1>7, <1>8, <1>9

\* With the entry inserted, map and participant agree again.
LEMMA InsertStep ==
  ASSUME IInv, NEW t \in Threads, Insert(t)
  PROVE  IInv'
<1> USE DEF IInv
<1> USE DEF Insert, Return, DropTypeSupport, Goto, entityVars, typeVars, topicVars,
        endpointVars, lockVars, argVars
<1>1. TypeOK'
  BY DEF TypeOK, DDSTypeOK, Kinds, Steps, Results, Ops, NameOps, CreateOps
<1>2. LockInv'
  BY ThreadAssumption DEF LockInv, TypeOK
<1>3. CallInv'
  BY NoneAssumption, ThreadAssumption DEF CallInv, TypeOK, NameOps, CreateOps
<1>4. EntityInv'
  BY DEF EntityInv
<1>5. ObjInv'
  BY DEF ObjInv, TypeObjectsOwned, TypeRegistered, TypeOK, DDSTypeOK, CallInv
<1>6. TopicInv'
  BY DEF TopicInv, LiveTopic, OneTopicPerDataType, TypeOK, DDSTypeOK, LockInv
<1>7. MapInv'
  <2> USE DEF MapInv, LiveTopic, TypeOK, DDSTypeOK, LockInv
  <2>0. name[t] \in TopicNames
    BY DEF CallInv
  <2>1. CASE tid[t] = Null
    BY <2>1, ThreadAssumption
  <2>2. CASE tid[t] # Null
    BY <2>0, <2>2, NoneAssumption, ThreadAssumption DEF TopicInv
  <2> QED
    BY <2>1, <2>2
<1>8. EndpointInv'
  BY DEF EndpointInv, LiveTopic, TypeOK, DDSTypeOK, ParentPointer, MapInv
<1>9. NoWildDereference'
  BY DEF NoWildDereference
<1> QED
  BY <1>1, <1>2, <1>3, <1>4, <1>5, <1>6, <1>7, <1>8, <1>9

\* The endpoint is made on a mapped topic by a live parent, or is null.
LEMMA CreateEndpointStep ==
  ASSUME IInv, NEW t \in Threads, CreateEndpoint(t)
  PROVE  IInv'
<1> USE DEF IInv
<1> USE DEF CreateEndpoint, Return, DropTypeSupport, Goto, TopicPointer, entityVars, typeVars,
       topicVars, endpointVars, lockVars, argVars
<1>0. tid[t] \in TopicIds /\ EndpointKind(op[t]) \in {"writer", "reader"}
  BY DEF MapInv, TypeOK, EndpointKind
<1>1. TypeOK'
  BY <1>0 DEF TypeOK, DDSTypeOK, Kinds, Steps, Results
<1>2. LockInv'
  BY ThreadAssumption DEF LockInv, TypeOK
<1>3. CallInv'
  BY NoneAssumption, ThreadAssumption DEF CallInv, TypeOK, NameOps, CreateOps
<1>4. EntityInv'
  BY DEF EntityInv
<1>5. ObjInv'
  BY DEF ObjInv, TypeObjectsOwned, TypeRegistered, TypeOK, DDSTypeOK, CallInv
<1>6. TopicInv'
  BY DEF TopicInv, LiveTopic, OneTopicPerDataType, TypeOK, DDSTypeOK, LockInv
<1>7. MapInv'
  BY DEF MapInv, LiveTopic, TypeOK, DDSTypeOK, LockInv
<1>8. EndpointInv'
  <2>1. mapTopics[topicName[tid[t]]] = tid[t]
    BY <1>0 DEF MapInv, LiveTopic, LockInv
  <2> QED
    BY <1>0, <2>1 DEF EndpointInv, LiveTopic, TypeOK, DDSTypeOK, ParentPointer
<1>9. NoWildDereference'
  BY DEF NoWildDereference
<1> QED
  BY <1>1, <1>2, <1>3, <1>4, <1>5, <1>6, <1>7, <1>8, <1>9

\* Only an unreferenced topic is deleted: no endpoint loses its topic.
LEMMA DeleteTopicStep ==
  ASSUME IInv, NEW t \in Threads, DeleteTopic(t)
  PROVE  IInv'
<1> USE DEF IInv
<1> USE DEF DeleteTopic, Return, DropTypeSupport, Goto, TopicPointer, delete_topic,
       entityVars, typeVars, topicVars, endpointVars, lockVars, argVars
<1>1. TypeOK'
  BY DEF TypeOK, DDSTypeOK, Kinds, Steps, Results, Ops, NameOps, CreateOps
<1>2. LockInv'
  BY ThreadAssumption DEF LockInv, TypeOK
<1>3. CallInv'
  BY NoneAssumption, ThreadAssumption DEF CallInv, TypeOK, NameOps, CreateOps
<1>4. EntityInv'
  BY DEF EntityInv
<1>5. ObjInv'
  BY DEF ObjInv, TypeObjectsOwned, TypeRegistered, TypeOK, DDSTypeOK, CallInv
<1>6. TopicInv'
  BY DEF TopicInv, LiveTopic, OneTopicPerDataType, TypeOK, DDSTypeOK, LockInv
<1>7. MapInv'
  BY DEF MapInv, LiveTopic, TypeOK, DDSTypeOK, LockInv
<1>8. EndpointInv'
  <2>1. CASE TopicReferenced(tid[t])
    BY <2>1 DEF EndpointInv, LiveTopic, ParentPointer
  <2>2. CASE ~TopicReferenced(tid[t])
    BY <2>2 DEF EndpointInv, TopicReferenced, LiveTopic, TypeOK, DDSTypeOK, ParentPointer
  <2> QED
    BY <2>1, <2>2
<1>9. NoWildDereference'
  BY DEF NoWildDereference
<1> QED
  BY <1>1, <1>2, <1>3, <1>4, <1>5, <1>6, <1>7, <1>8, <1>9

\* With the entry erased, map and participant agree again.
LEMMA EraseStep ==
  ASSUME IInv, NEW t \in Threads, Erase(t)
  PROVE  IInv'
<1> USE DEF IInv
<1> USE DEF Erase, Return, DropTypeSupport, Goto, entityVars, typeVars, topicVars, endpointVars,
        lockVars, argVars
<1>1. TypeOK'
  BY DEF TypeOK, DDSTypeOK, Kinds, Steps, Results, Ops, NameOps, CreateOps
<1>2. LockInv'
  BY ThreadAssumption DEF LockInv, TypeOK
<1>3. CallInv'
  BY NoneAssumption, ThreadAssumption DEF CallInv, TypeOK, NameOps, CreateOps
<1>4. EntityInv'
  BY DEF EntityInv
<1>5. ObjInv'
  BY DEF ObjInv, TypeObjectsOwned, TypeRegistered, TypeOK, DDSTypeOK, CallInv
<1>6. TopicInv'
  BY DEF TopicInv, LiveTopic, OneTopicPerDataType, TypeOK, DDSTypeOK, LockInv
<1>7. MapInv'
  BY DEF MapInv, LiveTopic, TypeOK, DDSTypeOK, LockInv
<1>8. EndpointInv'
  BY DEF EndpointInv, LiveTopic, TypeOK, DDSTypeOK, ParentPointer, MapInv
<1>9. NoWildDereference'
  BY DEF NoWildDereference
<1> QED
  BY <1>1, <1>2, <1>3, <1>4, <1>5, <1>6, <1>7, <1>8, <1>9

\* A pointer that is not live is null: it dangles nowhere.
LEMMA CrashStep ==
  ASSUME IInv, NEW t \in Threads, Crash(t)
  PROVE  IInv'
<1> USE DEF IInv
<1> USE DEF Crash, entityVars, typeVars, topicVars, endpointVars,
        lockVars, argVars
<1>1. TypeOK'
  BY DEF TypeOK, DDSTypeOK, Fault
<1>2. LockInv'
  BY ThreadAssumption DEF LockInv, TypeOK
<1>3. CallInv'
  BY NoneAssumption, ThreadAssumption DEF CallInv, TypeOK, NameOps, CreateOps
<1>4. EntityInv'
  BY DEF EntityInv
<1>5. ObjInv'
  BY DEF ObjInv, TypeObjectsOwned, TypeRegistered, TypeOK, DDSTypeOK, CallInv
<1>6. TopicInv'
  BY DEF TopicInv, LiveTopic, OneTopicPerDataType, TypeOK, DDSTypeOK, LockInv
<1>7. MapInv'
  BY DEF MapInv, LiveTopic, TypeOK, DDSTypeOK, LockInv
<1>8. EndpointInv'
  BY DEF EndpointInv, LiveTopic, TypeOK, DDSTypeOK, ParentPointer, MapInv
<1>9. NoWildDereference'
  <2>1. /\ participant \in {"null", "live"}
        /\ participant = "live" => publisher # "garbage" /\ subscriber # "garbage"
    BY DEF EntityInv, CallInv, Derefs, TypeOK, DDSTypeOK
  <2>2. CASE pc[t] \in {"register_type", "create_topic"}
    BY <2>1, <2>2 DEF NoWildDereference, Derefs, Fault
  <2>3. ASSUME pc[t] \in {"delete_topic", "create_endpoint"}
        PROVE  TopicPointer(tid[t]) = "live" /\ participant = "live"
    BY <2>3, NoneAssumption
    DEF MapInv, TopicInv, TypeOK, DDSTypeOK, CallInv, LiveTopic, TopicPointer
  <2>4. CASE pc[t] = "delete_topic"
    BY <2>3, <2>4 DEF Derefs
  <2>5. CASE pc[t] = "create_endpoint"
    <3>1. ParentPointer(EndpointKind(op[t])) \notin {"deleted", "garbage"}
      BY <2>1, <2>3, <2>5 DEF ParentPointer, TypeOK, DDSTypeOK
    <3> QED
      BY <2>3, <2>5, <3>1 DEF NoWildDereference, Derefs, Fault
  <2>6. pc[t] \in {"register_type", "create_topic", "delete_topic", "create_endpoint"}
    BY DEF Derefs
  <2> QED
    BY <2>2, <2>4, <2>5, <2>6
<1> QED
  BY <1>1, <1>2, <1>3, <1>4, <1>5, <1>6, <1>7, <1>8, <1>9

\* A destructor's parent is live or null, because its participant was not deleted.
LEMMA CloseEndpointStep ==
  ASSUME IInv, NEW e \in Endpoints, CloseEndpoint(e)
  PROVE  IInv'
<1> USE DEF IInv
<1> USE DEF CloseEndpoint, entityVars, typeVars, topicVars, endpointVars,
        lockVars, argVars
<1>1. TypeOK'
  BY DEF TypeOK, DDSTypeOK, Fault, Kinds
<1>2. LockInv'
  BY ThreadAssumption DEF LockInv, TypeOK
<1>3. CallInv'
  BY NoneAssumption, ThreadAssumption DEF CallInv, TypeOK, NameOps, CreateOps
<1>4. EntityInv'
  BY DEF EntityInv
<1>5. ObjInv'
  BY DEF ObjInv, TypeObjectsOwned, TypeRegistered, TypeOK, DDSTypeOK, CallInv
<1>6. TopicInv'
  BY DEF TopicInv, LiveTopic, OneTopicPerDataType, TypeOK, DDSTypeOK, LockInv
<1>7. MapInv'
  BY DEF MapInv, LiveTopic, TypeOK, DDSTypeOK, LockInv
<1>8. EndpointInv'
  BY DEF EndpointInv, LiveTopic, TypeOK, DDSTypeOK, ParentPointer, MapInv
<1>9. NoWildDereference'
  BY DEF NoWildDereference, CloseDerefs, Fault, EndpointInv
<1> QED
  BY <1>1, <1>2, <1>3, <1>4, <1>5, <1>6, <1>7, <1>8, <1>9

\* Writing through a null DataWriter changes only how the program ends.
LEMMA WriteToNullStep ==
  ASSUME IInv, NEW e \in Endpoints, WriteToNull(e)
  PROVE  IInv'
<1> USE DEF IInv
<1> USE DEF WriteToNull, entityVars, typeVars, topicVars, endpointVars, lockVars, argVars
<1>1. TypeOK' /\ LockInv' /\ CallInv' /\ EntityInv'
  BY DEF TypeOK, DDSTypeOK, LockInv, CallInv, EntityInv
<1>2. ObjInv' /\ TopicInv'
  BY DEF ObjInv, TypeObjectsOwned, TypeRegistered, TopicInv, LiveTopic, OneTopicPerDataType
<1>3. MapInv' /\ EndpointInv' /\ NoWildDereference'
  BY DEF MapInv, LiveTopic, EndpointInv, ParentPointer, NoWildDereference
<1> QED
  BY <1>1, <1>2, <1>3

\* The lemmas above, put together: every step of Next and a stutter keep IInv.
LEMMA NextStep ==
  ASSUME IInv, [Next]_vars
  PROVE  IInv'
<1>1. CASE UNCHANGED vars
  BY <1>1
  DEF vars, entityVars, typeVars, topicVars, endpointVars, wrapperVars, IInv, TypeOK, DDSTypeOK,
      LockInv, CallInv, EntityInv, ObjInv, TypeObjectsOwned, TypeRegistered, TopicInv,
      LiveTopic, OneTopicPerDataType, MapInv, EndpointInv, ParentPointer, NoWildDereference
<1>2. CASE Construct
  BY <1>2, ConstructStep
<1>3. CASE Destroy
  BY <1>3, DestroyStep
<1>4. ASSUME NEW t \in Threads, Call(t)
      PROVE  IInv'
  BY <1>4, RegisterNullTypeStep, CallRegisterTopicStep, CallWithNameStep DEF Call
<1>5. ASSUME NEW t \in Threads, AcquireLock(t)
      PROVE  IInv'
  BY <1>5, AcquireLockStep
<1>6. ASSUME NEW t \in Threads, Critical(t)
      PROVE  IInv'
  BY <1>6, FindHitStep, FindMissStep, RegisterTypeStep, CreateTopicStep, InsertStep,
     CreateEndpointStep, DeleteTopicStep, EraseStep, CrashStep DEF Critical
<1>7. ASSUME NEW e \in Endpoints, CloseEndpoint(e)
      PROVE  IInv'
  BY <1>7, CloseEndpointStep
<1>8. ASSUME NEW e \in Endpoints, WriteToNull(e)
      PROVE  IInv'
  BY <1>8, WriteToNullStep
<1> QED
  BY <1>1, <1>2, <1>3, <1>4, <1>5, <1>6, <1>7, <1>8 DEF Next

-----------------------------------------------------------------------------
\* The inductive invariant holds in every reachable state, for any number of
\* threads, names, types, addresses and endpoints.
THEOREM Invariance == Spec => []IInv
<1>1. Init => IInv
  BY InitIInv
<1>2. IInv /\ [Next]_vars => IInv'
  BY NextStep
<1> QED
  BY <1>1, <1>2, PTL DEF Spec

\* Every variable keeps its type: no operation stores or returns a pointer
\* of the wrong kind (in particular, no null Topic in m_mapTopics).
THEOREM TypeCorrect == Spec => []TypeOK
<1>1. IInv => TypeOK
  BY DEF IInv
<1> QED
  BY <1>1, Invariance, PTL

\* Whenever m_topicLock is free, m_mapTopics holds exactly the existing topics.
THEOREM MapCorrect == Spec => []MapMirrorsParticipant
<1>1. IInv => MapMirrorsParticipant
  <2> SUFFICES ASSUME IInv, topicLock = None
               PROVE  /\ \A n \in TopicNames : mapTopics[n] # None =>
                           topicName[mapTopics[n]] = n
                      /\ \A i \in TopicIds : LiveTopic(i) => mapTopics[topicName[i]] = i
    BY DEF MapMirrorsParticipant
  <2>1. \A t \in Threads : pc[t] \in {"idle", "lock"}
    BY ThreadAssumption DEF IInv, LockInv
  <2> QED
    BY <2>1 DEF IInv, MapInv
<1> QED
  BY <1>1, Invariance, PTL

\* An endpoint's topic and parent are alive for as long as the endpoint is,
\* even after the DDSDomainParticipant has been destroyed.
THEOREM EndpointsSafe == Spec => []EndpointsAnchored
<1>1. IInv => EndpointsAnchored
  BY DEF IInv, EndpointInv, EndpointsAnchored, TypeOK, DDSTypeOK
<1> QED
  BY <1>1, Invariance, PTL

\* No statement of the class follows a dangling or an uninitialised pointer.
THEOREM NoWildPointer == Spec => []NoWildDereference
<1>1. IInv => NoWildDereference
  BY DEF IInv
<1> QED
  BY <1>1, Invariance, PTL

\* A step that ends the program follows a creation that failed.
LEMMA CrashOnlyAfterFailureStep ==
  ASSUME IInv, CrashOnlyAfterFailure, [Next]_vars
  PROVE  CrashOnlyAfterFailure'
<1> USE DEF CrashOnlyAfterFailure, entityVars, typeVars, topicVars, endpointVars
<1>1. CASE UNCHANGED vars
  BY <1>1 DEF vars, wrapperVars
<1>2. CASE fault = "none" /\ UNCHANGED fault
  BY <1>2
<1>3. ASSUME NEW t \in Threads, Crash(t)
      PROVE  CrashOnlyAfterFailure'
  <2>1. CASE participant = "live"
    <3>1. pc[t] \in {"delete_topic", "create_endpoint"} => TopicPointer(tid[t]) = "live"
      BY NoneAssumption DEF TopicPointer, IInv, MapInv, CallInv, TypeOK, DDSTypeOK, LiveTopic
    <3>2. pc[t] = "create_endpoint" /\ ParentPointer(EndpointKind(op[t])) # "live"
      BY <1>3, <2>1, <3>1 DEF Crash, Derefs
    <3> QED
      BY <1>3, <2>1, <3>2 DEF ParentPointer, IInv, EntityInv, TypeOK, DDSTypeOK, Crash
  <2>2. CASE participant # "live"
    <3>1. participant = "null"
      BY <1>3, <2>2 DEF Crash, Derefs, IInv, CallInv, EntityInv, TypeOK, DDSTypeOK
    <3> QED
      BY <1>3, <3>1 DEF Crash
  <2> QED
    BY <2>1, <2>2
<1>4. ASSUME NEW e \in Endpoints, CloseEndpoint(e) \/ WriteToNull(e)
      PROVE  UNCHANGED fault \/ CrashOnlyAfterFailure'
  BY <1>4 DEF CloseEndpoint, CloseDerefs, WriteToNull, IInv, EndpointInv
<1> QED
  BY <1>1, <1>2, <1>3, <1>4
  DEF Next, Construct, Destroy, Call, RegisterNullType, CallRegisterTopic, CallWithName,
      AcquireLock, Critical, FindHit, FindMiss, RegisterType, CreateTopic, Insert,
      CreateEndpoint, DeleteTopic, Erase, Return

\* Only a creation that Fast DDS refused and nobody checked ends the program.
THEOREM CrashSafety == Spec => []CrashOnlyAfterFailure
<1>1. Init => CrashOnlyAfterFailure
  BY DEF Init, CrashOnlyAfterFailure
<1> QED
  BY <1>1, CrashOnlyAfterFailureStep, Invariance, PTL DEF Spec

\* Two topics never share a data type.
THEOREM TypesNotShared == Spec => []OneTopicPerDataType
<1>1. IInv => OneTopicPerDataType
  BY DEF IInv, TopicInv
<1> QED
  BY <1>1, Invariance, PTL

\* The raw TopicDataType pointers handed to registerTopic are freed exactly
\* when nothing refers to them any more.
THEOREM TypeObjectsSafe == Spec => []TypeObjectsOwned
<1>1. IInv => TypeObjectsOwned
  BY DEF IInv, ObjInv
<1> QED
  BY <1>1, Invariance, PTL

(***************************************************************************)
(* Only register_type and create_topic could revive a spent type, and a    *)
(* type object that reaches create_topic is the one registered.            *)
(***************************************************************************)
LEMMA SpentStep ==
  ASSUME IInv, [Next]_vars, NEW ty \in TypeNames, Spent(ty)
  PROVE  Spent(ty)'
<1> USE DEF Spent, entityVars, typeVars, topicVars, endpointVars, lockVars, argVars
<1>1. CASE UNCHANGED vars
  BY <1>1 DEF vars, wrapperVars
<1>2. CASE Construct
  BY <1>2 DEF Construct
<1>3. CASE Destroy
  BY <1>3 DEF Destroy
<1>4. ASSUME NEW t \in Threads, Call(t)
      PROVE  Spent(ty)'
  <2>1. CASE RegisterNullType(t)
    BY <2>1 DEF RegisterNullType
  <2>2. ASSUME NEW n \in TopicNames, NEW ty2 \in TypeNames, NEW o \in TypeObjs,
               CallRegisterTopic(t, n, ty2, o)
        PROVE  Spent(ty)'
    BY <2>2 DEF CallRegisterTopic, IInv, TypeOK, DDSTypeOK, CallInv, ObjInv
  <2>3. ASSUME NEW o \in NameOps, NEW n \in TopicNames, CallWithName(t, o, n)
        PROVE  Spent(ty)'
    BY <2>3 DEF CallWithName, IInv, TypeOK
  <2> QED
    BY <1>4, <2>1, <2>2, <2>3 DEF Call
<1>5. ASSUME NEW t \in Threads, AcquireLock(t)
      PROVE  Spent(ty)'
  BY <1>5 DEF AcquireLock, Goto, IInv, TypeOK
<1>6. ASSUME NEW t \in Threads, Critical(t)
      PROVE  Spent(ty)'
  <2> USE DEF Goto, IInv, TypeOK, DDSTypeOK, LockInv
  <2>1. CASE FindHit(t) \/ FindMiss(t)
    BY <2>1 DEF FindHit, FindMiss, Return
  <2>2. CASE RegisterType(t)
    <3>1. obj[t] \in TypeObjs /\ objType[obj[t]] \in TypeNames
      BY <2>2 DEF RegisterType, CallInv, ObjInv
    <3>2. CASE RegisterTypeRefused(obj[t])
      BY <2>2, <3>2 DEF RegisterType, Return
    <3>3. CASE ~RegisterTypeRefused(obj[t])
      <4>1. types[objType[obj[t]]] = None
        BY <2>2, <3>1, <3>3
        DEF RegisterType, RegisterTypeRefused, ObjInv, CallInv, TypeRegistered
      <4> QED
        BY <2>2, <3>1, <3>3, <4>1 DEF RegisterType, register_type
    <3> QED
      BY <3>2, <3>3
  <2>3. CASE CreateTopic(t)
    BY <2>3 DEF CreateTopic, create_topic, CallInv
  <2>4. CASE Insert(t) \/ Erase(t) \/ CreateEndpoint(t)
    BY <2>4 DEF Insert, Erase, CreateEndpoint, Return
  <2>5. CASE DeleteTopic(t)
    BY <2>5, NoneAssumption DEF DeleteTopic, delete_topic, Return
  <2>6. CASE Crash(t)
    BY <2>6 DEF Crash
  <2> QED
    BY <1>6, <2>1, <2>2, <2>3, <2>4, <2>5, <2>6 DEF Critical
<1>7. ASSUME NEW e \in Endpoints, CloseEndpoint(e)
      PROVE  Spent(ty)'
  BY <1>7 DEF CloseEndpoint
<1>8. ASSUME NEW e \in Endpoints, WriteToNull(e)
      PROVE  Spent(ty)'
  BY <1>8 DEF WriteToNull
<1> QED
  BY <1>1, <1>2, <1>3, <1>4, <1>5, <1>6, <1>7, <1>8 DEF Next

\* A data type whose topic is gone never gets a topic again.
THEOREM SpentForever == Spec => SpentTypeStaysSpent
<1>1. IInv /\ [Next]_vars => [\A ty \in TypeNames : Spent(ty) => Spent(ty)']_vars
  BY SpentStep
<1> QED
  BY <1>1, Invariance, PTL DEF Spec, SpentTypeStaysSpent
-----------------------------------------------------------------------------

\* The registry's variables, as Registry substitutes them.
RegistryTopics == [n \in TopicNames |-> TypeOfTopic(n)]
Taken == {ty \in TypeNames :
            /\ types[ty] # None
            /\ \A t \in Threads : pc[t] = "create_topic" => objType[obj[t]] # ty}
Users == [n \in TopicNames |->
            {e \in Endpoints : epTopic[e] # None /\ topicName[epTopic[e]] = n}]
RequestOf(t) == [op |-> op[t], name |-> name[t],
                 type |-> IF obj[t] = None THEN None ELSE objType[obj[t]]]
Request == [t \in Threads |-> IF pc[t] = "idle" THEN None ELSE RequestOf(t)]
Answer == [t \in Threads |-> IF pc[t] \in {"insert", "erase"} THEN "true" ELSE None]

Abstract == <<RegistryTopics, Taken, Users, Request, Answer, ret>>

-----------------------------------------------------------------------------
\* Topics.

TypeOf(tn, tt, n) ==
  IF \E i \in TopicIds : tn[i] = n THEN tt[CHOOSE i \in TopicIds : tn[i] = n] ELSE None

\* A name that one topic has gives that topic's type.
LEMMA TypeOfKnown ==
  ASSUME NEW tn, NEW tt, NEW i \in TopicIds, NEW n, tn[i] = n,
         \A j \in TopicIds : tn[j] = n => j = i
  PROVE  TypeOf(tn, tt, n) = tt[i]
<1>1. (CHOOSE j \in TopicIds : tn[j] = n) = i
  OBVIOUS
<1> QED
  BY <1>1 DEF TypeOf

\* A name that no topic has gives none.
LEMMA TypeOfAbsent ==
  ASSUME NEW tn, NEW tt, NEW n, \A i \in TopicIds : tn[i] # n
  PROVE  TypeOf(tn, tt, n) = None
  BY DEF TypeOf

\* Both, in the states of the wrapper.
LEMMA RegisteredFacts ==
  ASSUME IInv, NEW n \in TopicNames
  PROVE  /\ \A i \in TopicIds : topicName[i] = n => RegistryTopics[n] = topicType[i] /\ RegistryTopics[n] # None
         /\ (\A i \in TopicIds : topicName[i] # n) => RegistryTopics[n] = None
<1>1. RegistryTopics[n] = TypeOf(topicName, topicType, n)
  BY DEF RegistryTopics, TypeOfTopic, TypeOf
<1>2. None \notin TopicNames
  BY NoneAssumption
<1>3. ASSUME NEW i \in TopicIds, topicName[i] = n
      PROVE  RegistryTopics[n] = topicType[i] /\ RegistryTopics[n] # None
  <2>1. \A j \in TopicIds : topicName[j] = n => j = i
    BY <1>2, <1>3 DEF IInv, TopicInv, LiveTopic
  <2>2. RegistryTopics[n] = topicType[i]
    BY <1>1, <1>3, <2>1, TypeOfKnown
  <2>3. topicType[i] # None
    BY <1>2, <1>3 DEF IInv, TopicInv, LiveTopic
  <2> QED
    BY <2>2, <2>3
<1>4. ASSUME \A i \in TopicIds : topicName[i] # n
      PROVE  RegistryTopics[n] = None
  BY <1>1, <1>4, TypeOfAbsent
<1> QED
  BY <1>3, <1>4

\* Under the lock, the map says which names have a topic.
LEMMA MapSays ==
  ASSUME IInv, NEW t \in Threads, NEW n \in TopicNames,
         pc[t] \notin {"idle", "lock", "insert", "erase"}
  PROVE  /\ mapTopics[n] # None => RegistryTopics[n] # None
         /\ mapTopics[n] = None => RegistryTopics[n] = None /\ Users[n] = {}
<1>1. \A u \in Threads : pc[u] \notin {"insert", "erase"}
  BY DEF IInv, LockInv
<1>2. ASSUME mapTopics[n] # None
      PROVE  RegistryTopics[n] # None
  <2>1. mapTopics[n] \in TopicIds /\ topicName[mapTopics[n]] = n
    BY <1>1, <1>2 DEF IInv, MapInv, TypeOK
  <2> QED
    BY <2>1, RegisteredFacts
<1>3. ASSUME mapTopics[n] = None
      PROVE  RegistryTopics[n] = None /\ Users[n] = {}
  <2>1. \A i \in TopicIds : topicName[i] # n
    BY <1>1, <1>3, NoneAssumption DEF IInv, MapInv, LiveTopic
  <2>2. \A e \in Endpoints : epTopic[e] # None => epTopic[e] \in TopicIds
    BY DEF IInv, TypeOK, DDSTypeOK
  <2> QED
    BY <2>1, <2>2, RegisteredFacts DEF Users
<1> QED
  BY <1>2, <1>3
-----------------------------------------------------------------------------
\* What stays as it is.

\* Topics.
LEMMA SameTopics ==
  ASSUME UNCHANGED topicVars
  PROVE  RegistryTopics' = RegistryTopics
  BY DEF topicVars, RegistryTopics, TypeOfTopic

\* Endpoints and their topics.
LEMMA SameUsers ==
  ASSUME UNCHANGED <<topicName, epTopic>>
  PROVE  Users' = Users
  BY DEF Users

\* Types that were used up.
LEMMA SameTaken ==
  ASSUME types' = types,
         \A u \in Threads : /\ pc'[u] = "create_topic" <=> pc[u] = "create_topic"
                            /\ pc[u] = "create_topic" => objType'[obj'[u]] = objType[obj[u]]
  PROVE  Taken' = Taken
  BY DEF Taken

\* The next statement of a call is another statement of the same call.
LEMMA SameRequest ==
  ASSUME IInv, NEW t \in Threads, pc[t] # "idle", NEW step, step # "idle",
         pc' = [pc EXCEPT ![t] = step], UNCHANGED <<objType, argVars>>
  PROVE  Request' = Request
<1>1. \A u \in Threads : pc'[u] = "idle" <=> pc[u] = "idle"
  BY DEF IInv, TypeOK
<1>2. \A u \in Threads : RequestOf(u)' = RequestOf(u)
  BY DEF RequestOf, argVars
<1> QED
  BY <1>1, <1>2 DEF Request

\* A call keeps its type object while others return theirs.
LEMMA OthersKeepTheirs ==
  ASSUME IInv, NEW t \in Threads, NEW u \in Threads \ {t}, DropTypeSupport(t), obj[u] # None
  PROVE  objType'[obj[u]] = objType[obj[u]]
<1>1. obj[u] # obj[t] /\ obj[u] \in TypeObjs
  BY DEF IInv, ObjInv, TypeOK
<1> QED
  BY <1>1 DEF DropTypeSupport

\* A return ends one call and no other.
LEMMA ReturnFacts ==
  ASSUME IInv, NEW t \in Threads, NEW r, Return(t, r), pc[t] \notin {"idle", "lock", "create_topic"}
  PROVE  /\ Request[t] = RequestOf(t)
         /\ Request' = [Request EXCEPT ![t] = None]
         /\ ret' = [ret EXCEPT ![t] = r]
         /\ pc[t] \notin {"insert", "erase"} => Answer' = Answer /\ Answer[t] = None
         /\ pc[t] \in {"insert", "erase"} => Answer' = [Answer EXCEPT ![t] = None] /\ Answer[t] = "true"
         /\ types' = types => Taken' = Taken
<1>1. /\ pc' = [pc EXCEPT ![t] = "idle"] /\ op' = [op EXCEPT ![t] = "none"]
      /\ name' = [name EXCEPT ![t] = None] /\ obj' = [obj EXCEPT ![t] = None]
      /\ ret' = [ret EXCEPT ![t] = r] /\ DropTypeSupport(t)
  BY DEF Return, Goto
<1>2. pc'[t] = "idle" /\ \A u \in Threads \ {t} :
        pc'[u] = pc[u] /\ op'[u] = op[u] /\ name'[u] = name[u] /\ obj'[u] = obj[u]
  BY <1>1 DEF IInv, TypeOK
<1>3. \A u \in Threads \ {t} : obj[u] # None => objType'[obj[u]] = objType[obj[u]]
  BY <1>1, OthersKeepTheirs
<1>4. \A u \in Threads \ {t} : RequestOf(u)' = RequestOf(u)
  BY <1>2, <1>3 DEF RequestOf
<1>5. Request' = [Request EXCEPT ![t] = None]
  BY <1>2, <1>4 DEF Request
<1>6. /\ pc[t] \notin {"insert", "erase"} => Answer' = Answer /\ Answer[t] = None
      /\ pc[t] \in {"insert", "erase"} => Answer' = [Answer EXCEPT ![t] = None] /\ Answer[t] = "true"
  BY <1>2 DEF Answer
<1>7. ASSUME types' = types PROVE Taken' = Taken
  <2>1. \A u \in Threads : pc[u] # "create_topic" /\ pc'[u] # "create_topic"
    BY <1>2 DEF IInv, LockInv
  <2> QED
    BY <1>7, <2>1, SameTaken
<1> QED
  BY <1>1, <1>5, <1>6, <1>7 DEF Request
-----------------------------------------------------------------------------
\* The actions of the registry, over the states of the wrapper.

Decide(t, r) ==
  \/ /\ Answer' = [Answer EXCEPT ![t] = r]
     /\ UNCHANGED <<Request, ret>>
  \/ /\ ret' = [ret EXCEPT ![t] = r]
     /\ Request' = [Request EXCEPT ![t] = None]
     /\ UNCHANGED Answer

Awaits(t, ops) == Request[t] # None /\ Answer[t] = None /\ Request[t].op \in ops

\* A call begins.
LEMMA InvokeIs ==
  ASSUME NEW t \in Threads, NEW r \in Registry!Requests,
         Request[t] = None, Request' = [Request EXCEPT ![t] = r],
         ret' = [ret EXCEPT ![t] = "none"],
         UNCHANGED <<RegistryTopics, Taken, Users, Answer>>
  PROVE  Registry!Next
<1>1. Registry!Invoke(t)
  BY DEF Registry!Invoke, Registry!registry, RegistryTopics, Taken, Users, Request, RequestOf, Answer
<1> QED
  BY <1>1 DEF Registry!Next

\* A null data type is refused.
LEMMA RefuseIs ==
  ASSUME NEW t \in Threads, Request[t] = None, ret' = [ret EXCEPT ![t] = "false"],
         UNCHANGED <<RegistryTopics, Taken, Users, Request, Answer>>
  PROVE  Registry!Next
<1>1. Registry!Refuse(t)
  BY DEF Registry!Refuse, Registry!registry, RegistryTopics, Taken, Users, Request, RequestOf, Answer
<1> QED
  BY <1>1 DEF Registry!Next

\* An answer that was decided is given.
LEMMA ReplyIs ==
  ASSUME NEW t \in Threads, Answer[t] # None, ret' = [ret EXCEPT ![t] = Answer[t]],
         Request' = [Request EXCEPT ![t] = None], Answer' = [Answer EXCEPT ![t] = None],
         UNCHANGED <<RegistryTopics, Taken, Users>>
  PROVE  Registry!Next
<1>1. Registry!Reply(t)
  BY DEF Registry!Reply, Registry!registry, RegistryTopics, Taken, Users, Request, RequestOf, Answer
<1> QED
  BY <1>1 DEF Registry!Next

\* registerTopic: the three outcomes.
LEMMA RegisterIs ==
  ASSUME NEW t \in Threads, Awaits(t, {"registerTopic"}),
         NEW n, n = Request[t].name, NEW ty, ty = Request[t].type,
         \/ /\ RegistryTopics[n] # None
            /\ Decide(t, "true")
            /\ UNCHANGED <<RegistryTopics, Taken, Users>>
         \/ /\ RegistryTopics[n] = None /\ ty \in Taken
            /\ Decide(t, "false")
            /\ UNCHANGED <<RegistryTopics, Taken, Users>>
         \/ /\ RegistryTopics[n] = None /\ ty \notin Taken
            /\ Taken' = Taken \cup {ty}
            /\ RegistryTopics' \in {RegistryTopics, [RegistryTopics EXCEPT ![n] = ty]}
            /\ Decide(t, "true")
            /\ UNCHANGED Users
  PROVE  Registry!Next
<1>1. Registry!Register(t)
  BY DEF Registry!Register, Registry!Pending, Registry!Settle, Registry!registry,
         Awaits, Decide, RegistryTopics, Taken, Users, Request, RequestOf, Answer
<1> QED
  BY <1>1 DEF Registry!Next

\* unregisterTopic: the two outcomes.
LEMMA UnregisterIs ==
  ASSUME NEW t \in Threads, Awaits(t, {"unregisterTopic"}),
         NEW n, n = Request[t].name,
         \/ /\ Users[n] # {}
            /\ Decide(t, "false")
            /\ UNCHANGED <<RegistryTopics, Taken, Users>>
         \/ /\ Users[n] = {}
            /\ RegistryTopics' = [RegistryTopics EXCEPT ![n] = None]
            /\ Decide(t, "true")
            /\ UNCHANGED <<Taken, Users>>
  PROVE  Registry!Next
<1>1. Registry!Unregister(t)
  BY DEF Registry!Unregister, Registry!Pending, Registry!Settle, Registry!registry,
         Awaits, Decide, RegistryTopics, Taken, Users, Request, RequestOf, Answer
<1> QED
  BY <1>1 DEF Registry!Next

\* createDataWriter and createDataReader: the two outcomes.
LEMMA OpenIs ==
  ASSUME NEW t \in Threads, Awaits(t, CreateOps),
         NEW n, n = Request[t].name,
         \/ /\ RegistryTopics[n] = None
            /\ Decide(t, "nullptr")
            /\ UNCHANGED <<RegistryTopics, Taken, Users>>
         \/ /\ RegistryTopics[n] # None
            /\ Decide(t, "endpoint")
            /\ \E e \in Endpoints \ UNION {Users[m] : m \in TopicNames} :
                 Users' \in {Users, [Users EXCEPT ![n] = @ \cup {e}]}
            /\ UNCHANGED <<RegistryTopics, Taken>>
  PROVE  Registry!Next
<1>1. Registry!Open(t)
  BY DEF Registry!Open, Registry!Pending, Registry!Settle, Registry!registry, Registry!OpenOps,
         CreateOps, Awaits, Decide, RegistryTopics, Taken, Users, Request, RequestOf, Answer
<1> QED
  BY <1>1 DEF Registry!Next

\* An endpoint goes.
LEMMA CloseIs ==
  ASSUME NEW e \in Endpoints, Users' = [n \in TopicNames |-> Users[n] \ {e}],
         UNCHANGED <<RegistryTopics, Taken, Request, Answer, ret>>
  PROVE  Registry!Next
<1>1. Registry!Close(e)
  BY DEF Registry!Close, RegistryTopics, Taken, Users, Request, RequestOf, Answer
<1> QED
  BY <1>1 DEF Registry!Next

\* Nothing happens.
LEMMA StutterIs ==
  ASSUME UNCHANGED Abstract
  PROVE  UNCHANGED Registry!vars
  BY DEF Abstract, Registry!vars, RegistryTopics, Taken, Users, Request, RequestOf, Answer
-----------------------------------------------------------------------------
\* The actions of the wrapper.

RegistryStep == Registry!Next \/ UNCHANGED Registry!vars

\* A thread in a call asks the registry for its operation.
LEMMA RequestFacts ==
  ASSUME IInv, NEW t \in Threads, pc[t] # "idle"
  PROVE  /\ Request[t] = RequestOf(t) /\ Request[t] # None
         /\ Request[t].op = op[t] /\ Request[t].name = name[t]
         /\ name[t] \in TopicNames
         /\ op[t] = "registerTopic" => Request[t].type = objType[obj[t]] /\ obj[t] \in TypeObjs
                                       /\ objType[obj[t]] \in TypeNames
<1>1. op[t] \in Ops /\ name[t] \in TopicNames
  BY DEF IInv, CallInv, TypeOK
<1>2. obj[t] # None => obj[t] \in TypeObjs /\ objType[obj[t]] \in TypeNames
  BY DEF IInv, ObjInv, TypeOK, DDSTypeOK
<1>3. RequestOf(t) \in [op : Ops, name : TopicNames, type : TypeNames \cup {None}]
  BY <1>1, <1>2 DEF RequestOf
<1>4. Request[t] = RequestOf(t)
  BY DEF Request
<1>5. op[t] = "registerTopic" => obj[t] # None
  BY DEF IInv, CallInv
<1>6. Request[t] # None
  BY <1>3, <1>4, RequestAssumption
<1> QED
  BY <1>1, <1>2, <1>4, <1>5, <1>6 DEF RequestOf

\* A call that has decided nothing yet waits for the registry.
LEMMA AwaitsFacts ==
  ASSUME IInv, NEW t \in Threads, pc[t] \notin {"idle", "insert", "erase"}, NEW ops, op[t] \in ops
  PROVE  Awaits(t, ops)
  BY RequestFacts DEF Awaits, Answer

\* registerTopic(n, nullptr)
LEMMA RegisterNullTypeIs ==
  ASSUME IInv, NEW t \in Threads, RegisterNullType(t)
  PROVE  RegistryStep
<1>1. Request[t] = None
  BY DEF RegisterNullType, Request
<1>2. UNCHANGED <<RegistryTopics, Taken, Users, Request, Answer>>
  BY DEF RegisterNullType, entityVars, typeVars, topicVars, endpointVars, argVars,
         RegistryTopics, TypeOfTopic, Taken, Users, Request, RequestOf, Answer
<1>3. ret' = [ret EXCEPT ![t] = "false"]
  BY DEF RegisterNullType
<1> QED
  BY <1>1, <1>2, <1>3, RefuseIs DEF RegistryStep

\* registerTopic(n, dataType): the new object is nobody else's.
LEMMA CallRegisterTopicIs ==
  ASSUME IInv, NEW t \in Threads, NEW n \in TopicNames, NEW ty \in TypeNames, NEW o \in TypeObjs,
         CallRegisterTopic(t, n, ty, o)
  PROVE  RegistryStep
<1> DEFINE r == [op |-> "registerTopic", name |-> n, type |-> ty]
<1>1. /\ pc[t] = "idle" /\ objType[o] = None /\ objType' = [objType EXCEPT ![o] = ty]
      /\ pc' = [pc EXCEPT ![t] = "lock"] /\ op' = [op EXCEPT ![t] = "registerTopic"]
      /\ name' = [name EXCEPT ![t] = n] /\ obj' = [obj EXCEPT ![t] = o]
      /\ ret' = [ret EXCEPT ![t] = "none"] /\ types' = types /\ UNCHANGED <<topicVars, endpointVars>>
  BY DEF CallRegisterTopic
<1>2. pc'[t] = "lock" /\ op'[t] = "registerTopic" /\ name'[t] = n /\ obj'[t] = o /\ objType'[o] = ty
      /\ \A u \in Threads \ {t} :
           pc'[u] = pc[u] /\ op'[u] = op[u] /\ name'[u] = name[u] /\ obj'[u] = obj[u]
  BY <1>1 DEF IInv, TypeOK, DDSTypeOK
<1>3. \A u \in Threads : obj[u] # None => obj[u] # o /\ obj[u] \in TypeObjs
  BY <1>1 DEF IInv, ObjInv, TypeOK
<1>4. \A u \in Threads : obj[u] # None => objType'[obj[u]] = objType[obj[u]]
  BY <1>1, <1>3 DEF IInv, TypeOK, DDSTypeOK
<1>5. \A u \in Threads \ {t} : RequestOf(u)' = RequestOf(u)
  BY <1>2, <1>4 DEF RequestOf
<1>6. RequestOf(t)' = r
  <2>1. o # None
    BY NoneAssumption
  <2> QED
    BY <1>2, <2>1 DEF RequestOf
<1>7. Request[t] = None /\ Request' = [Request EXCEPT ![t] = r]
  <2> HIDE DEF r
  <2> QED
    BY <1>1, <1>2, <1>5, <1>6 DEF Request
<1>8. RegistryTopics' = RegistryTopics /\ Users' = Users
  BY <1>1, SameTopics, SameUsers DEF topicVars, endpointVars
<1>9. Taken' = Taken
  <2>1. \A u \in Threads : pc[u] = "create_topic" => u # t /\ obj[u] # None
    BY <1>1 DEF IInv, CallInv
  <2>2. \A u \in Threads : (pc'[u] = "create_topic" <=> pc[u] = "create_topic")
                           /\ (pc[u] = "create_topic" => objType'[obj'[u]] = objType[obj[u]])
    BY <1>1, <1>2, <1>4, <2>1
  <2> QED
    BY <1>1, <2>2, SameTaken
<1>10. Answer' = Answer
  BY <1>1, <1>2 DEF Answer
<1>11. r \in Registry!Requests
  BY DEF Registry!Requests
<1> QED
  BY <1>1, <1>7, <1>8, <1>9, <1>10, <1>11, InvokeIs DEF RegistryStep

\* unregisterTopic(n), createDataWriter(n), createDataReader(n)
LEMMA CallWithNameIs ==
  ASSUME IInv, NEW t \in Threads, NEW o \in NameOps, NEW n \in TopicNames, CallWithName(t, o, n)
  PROVE  RegistryStep
<1> DEFINE r == [op |-> o, name |-> n, type |-> None]
<1>1. /\ pc[t] = "idle" /\ pc' = [pc EXCEPT ![t] = "lock"] /\ op' = [op EXCEPT ![t] = o]
      /\ name' = [name EXCEPT ![t] = n] /\ UNCHANGED <<obj, types, objType, topicVars, endpointVars>>
      /\ ret' = [ret EXCEPT ![t] = "none"]
  BY DEF CallWithName, typeVars
<1>2. pc'[t] = "lock" /\ op'[t] = o /\ name'[t] = n
      /\ \A u \in Threads \ {t} : pc'[u] = pc[u] /\ op'[u] = op[u] /\ name'[u] = name[u]
  BY <1>1 DEF IInv, TypeOK
<1>3. obj[t] = None
  BY <1>1 DEF IInv, CallInv
<1>4. \A u \in Threads \ {t} : RequestOf(u)' = RequestOf(u)
  BY <1>1, <1>2 DEF RequestOf
<1>5. RequestOf(t)' = r
  BY <1>1, <1>2, <1>3 DEF RequestOf
<1>6. Request[t] = None /\ Request' = [Request EXCEPT ![t] = r]
  <2> HIDE DEF r
  <2> QED
    BY <1>1, <1>2, <1>4, <1>5 DEF Request
<1>7. RegistryTopics' = RegistryTopics /\ Users' = Users
  BY <1>1, SameTopics, SameUsers DEF topicVars, endpointVars
<1>8. Taken' = Taken
  BY <1>1, <1>2, SameTaken
<1>9. Answer' = Answer
  BY <1>1, <1>2 DEF Answer
<1>10. r \in Registry!Requests
  BY DEF Registry!Requests, Registry!OpenOps, NameOps, CreateOps
<1> QED
  BY <1>1, <1>6, <1>7, <1>8, <1>9, <1>10, InvokeIs DEF RegistryStep

\* The lookup under the lock decides the calls that change nothing.
LEMMA FindHitIs ==
  ASSUME IInv, NEW t \in Threads, FindHit(t)
  PROVE  RegistryStep
<1>1. pc[t] = "find" /\ mapTopics[name[t]] # None /\ types' = types
      /\ RegistryTopics' = RegistryTopics /\ Users' = Users
  BY SameTopics, SameUsers DEF FindHit, topicVars, endpointVars
<1>2. name[t] \in TopicNames /\ Request[t].name = name[t]
  BY <1>1, RequestFacts
<1>3. CASE op[t] = "registerTopic"
  <2>1. Return(t, "true")
    BY <1>3 DEF FindHit
  <2>2. RegistryTopics[name[t]] # None
    BY <1>1, <1>2, MapSays
  <2>3. Decide(t, "true") /\ Taken' = Taken
    BY <1>1, <2>1, ReturnFacts DEF Decide
  <2>4. Awaits(t, {"registerTopic"})
    BY <1>1, <1>3, AwaitsFacts
  <2> QED
    BY <1>1, <1>2, <2>2, <2>3, <2>4, RegisterIs DEF RegistryStep
<1>4. CASE op[t] # "registerTopic"
  <2>1. PICK step \in {"delete_topic", "create_endpoint"} :
          pc' = [pc EXCEPT ![t] = step] /\ UNCHANGED <<objType, argVars, ret>>
    BY <1>4 DEF FindHit, Goto
  <2>2. Request' = Request
    BY <1>1, <2>1, SameRequest
  <2>3. Answer' = Answer
    BY <1>1, <2>1 DEF Answer, IInv, TypeOK
  <2>4. Taken' = Taken
    BY <1>1, <2>1, SameTaken DEF argVars, IInv, TypeOK
  <2> QED
    BY <1>1, <2>1, <2>2, <2>3, <2>4, StutterIs DEF Abstract, RegistryStep
<1> QED
  BY <1>3, <1>4

\* A miss: the topic does not exist, hence has no endpoints either.
LEMMA FindMissIs ==
  ASSUME IInv, NEW t \in Threads, FindMiss(t)
  PROVE  RegistryStep
<1>1. pc[t] = "find" /\ mapTopics[name[t]] = None /\ types' = types
      /\ RegistryTopics' = RegistryTopics /\ Users' = Users
  BY SameTopics, SameUsers DEF FindMiss, topicVars, endpointVars
<1>2. name[t] \in TopicNames /\ Request[t].name = name[t]
  BY <1>1, RequestFacts
<1>3. RegistryTopics[name[t]] = None /\ Users[name[t]] = {}
  BY <1>1, <1>2, MapSays
<1>4. CASE op[t] = "registerTopic"
  <2>1. pc' = [pc EXCEPT ![t] = "register_type"] /\ UNCHANGED <<objType, argVars, ret>>
    BY <1>4 DEF FindMiss, Goto
  <2>2. Request' = Request
    BY <1>1, <2>1, SameRequest
  <2>3. Answer' = Answer
    BY <1>1, <2>1 DEF Answer, IInv, TypeOK
  <2>4. Taken' = Taken
    BY <1>1, <2>1, SameTaken DEF argVars, IInv, TypeOK
  <2> QED
    BY <1>1, <2>1, <2>2, <2>3, <2>4, StutterIs DEF Abstract, RegistryStep
<1>5. CASE op[t] = "unregisterTopic"
  <2>1. Return(t, "true")
    BY <1>5 DEF FindMiss
  <2>2. Decide(t, "true") /\ Taken' = Taken
    BY <1>1, <2>1, ReturnFacts DEF Decide
  <2>3. Awaits(t, {"unregisterTopic"})
    BY <1>1, <1>5, AwaitsFacts
  <2>4. RegistryTopics' = [RegistryTopics EXCEPT ![name[t]] = None]
    BY <1>1, <1>3 DEF RegistryTopics
  <2> QED
    BY <1>1, <1>2, <1>3, <2>2, <2>3, <2>4, UnregisterIs DEF RegistryStep
<1>6. CASE op[t] \in CreateOps
  <2>1. Return(t, "nullptr")
    BY <1>6 DEF FindMiss, CreateOps
  <2>2. Decide(t, "nullptr") /\ Taken' = Taken
    BY <1>1, <2>1, ReturnFacts DEF Decide
  <2>3. Awaits(t, CreateOps)
    BY <1>1, <1>6, AwaitsFacts
  <2> QED
    BY <1>1, <1>2, <1>3, <2>2, <2>3, OpenIs DEF RegistryStep
<1> QED
  BY <1>1, <1>4, <1>5, <1>6 DEF IInv, CallInv, TypeOK, Ops, NameOps

\* A fresh type is registered unseen; a type that was used up is refused.
LEMMA RegisterTypeIs ==
  ASSUME IInv, NEW t \in Threads, RegisterType(t)
  PROVE  RegistryStep
<1> DEFINE ty == objType[obj[t]]
<1>1. pc[t] = "register_type" /\ RegistryTopics' = RegistryTopics /\ Users' = Users
  BY SameTopics, SameUsers DEF RegisterType, topicVars, endpointVars
<1>2. op[t] = "registerTopic"
  BY <1>1 DEF IInv, CallInv
<1>3. /\ name[t] \in TopicNames /\ Request[t].name = name[t] /\ Request[t].type = ty
      /\ ty \in TypeNames /\ obj[t] \in TypeObjs
  BY <1>1, <1>2, RequestFacts
<1>4. \A u \in Threads : pc[u] # "create_topic"
  BY <1>1 DEF IInv, LockInv
<1>5. CASE RegisterTypeRefused(obj[t])
  <2>1. Return(t, "false") /\ types' = types
    BY <1>5 DEF RegisterType
  <2>2. Decide(t, "false") /\ Taken' = Taken
    BY <1>1, <2>1, ReturnFacts DEF Decide
  <2>3. ty \in Taken
    BY <1>3, <1>4, <1>5 DEF RegisterTypeRefused, Taken
  <2>4. mapTopics[name[t]] = None
    BY <1>1 DEF IInv, MapInv
  <2>5. RegistryTopics[name[t]] = None
    BY <1>1, <1>3, <2>4, MapSays
  <2>6. Awaits(t, {"registerTopic"})
    BY <1>1, <1>2, AwaitsFacts
  <2> HIDE DEF ty
  <2> QED
    BY <1>1, <1>3, <2>2, <2>3, <2>5, <2>6, RegisterIs DEF RegistryStep
<1>6. CASE ~RegisterTypeRefused(obj[t])
  <2>1. types' = [types EXCEPT ![ty] = obj[t]] /\ pc' = [pc EXCEPT ![t] = "create_topic"]
        /\ UNCHANGED <<objType, argVars, ret>>
    BY <1>6 DEF RegisterType, register_type, Goto
  <2>2. Request' = Request
    BY <1>1, <2>1, SameRequest
  <2>3. Answer' = Answer
    BY <1>1, <2>1 DEF Answer, IInv, TypeOK
  <2>4. ~TypeRegistered(obj[t]) /\ obj[t] # None
    BY <1>1, <1>2 DEF IInv, ObjInv, CallInv
  <2>5. types[ty] = None
    BY <1>3, <1>6, <2>4 DEF RegisterTypeRefused, TypeRegistered
  <2>6. Taken = {x \in TypeNames : types[x] # None}
    BY <1>4 DEF Taken
  <2>7. pc'[t] = "create_topic" /\ \A u \in Threads : pc'[u] = "create_topic" => u = t
    BY <1>4, <2>1 DEF IInv, TypeOK
  <2>8. Taken' = {x \in TypeNames : types'[x] # None /\ x # ty}
    BY <1>3, <2>1, <2>7 DEF Taken, argVars
  <2>9. Taken' = Taken
    BY <1>3, <2>1, <2>5, <2>6, <2>8 DEF IInv, TypeOK, DDSTypeOK
  <2> QED
    BY <1>1, <2>1, <2>2, <2>3, <2>9, StutterIs DEF Abstract, RegistryStep
<1> QED
  BY <1>5, <1>6

\* registerTopic takes effect when Fast DDS creates the topic, or declines to.
LEMMA CreateTopicIs ==
  ASSUME IInv, NEW t \in Threads, CreateTopic(t)
  PROVE  RegistryStep
<1> DEFINE ty == objType[obj[t]]
           n == name[t]
<1>1. /\ pc[t] = "create_topic" /\ pc' = [pc EXCEPT ![t] = "insert"]
      /\ UNCHANGED <<typeVars, endpointVars, argVars, ret>>
  BY DEF CreateTopic, Goto
<1>2. op[t] = "registerTopic"
  BY <1>1 DEF IInv, CallInv
<1>3. /\ n \in TopicNames /\ Request[t].name = n /\ Request[t].type = ty
      /\ ty \in TypeNames /\ obj[t] \in TypeObjs
  BY <1>1, <1>2, RequestFacts
<1>4. Request' = Request
  BY <1>1, SameRequest DEF typeVars
<1>5. Answer[t] = None /\ Answer' = [Answer EXCEPT ![t] = "true"]
  BY <1>1 DEF Answer, IInv, TypeOK
<1>6. Decide(t, "true") /\ Awaits(t, {"registerTopic"})
  BY <1>1, <1>2, <1>4, <1>5, AwaitsFacts DEF Decide
<1>7. \A u \in Threads : pc[u] = "create_topic" => u = t
  BY <1>1 DEF IInv, LockInv
<1>8. types[ty] # None
  <2>1. TypeRegistered(obj[t])
    BY <1>1, <1>2 DEF IInv, ObjInv, CallInv
  <2>2. PICK x \in TypeNames : types[x] = obj[t]
    BY <2>1 DEF TypeRegistered
  <2>3. types[x] # None
    BY <1>3, <2>2, NoneAssumption
  <2>4. objType[types[x]] = x
    BY <2>3 DEF IInv, ObjInv, TypeObjectsOwned
  <2> QED
    BY <2>2, <2>3, <2>4
<1>9. ty \notin Taken /\ Taken' = Taken \cup {ty}
  <2>1. Taken = {x \in TypeNames : types[x] # None /\ x # ty}
    BY <1>1, <1>7 DEF Taken
  <2>2. \A u \in Threads : pc'[u] # "create_topic"
    BY <1>1, <1>7 DEF IInv, TypeOK
  <2>3. Taken' = {x \in TypeNames : types[x] # None}
    BY <1>1, <2>2 DEF Taken, typeVars
  <2> HIDE DEF ty
  <2> QED
    BY <1>3, <1>8, <2>1, <2>3
<1>10. mapTopics[n] = None
  BY <1>1 DEF IInv, MapInv
<1>11. \A i \in TopicIds : topicName[i] # n
  <2>1. \A u \in Threads : pc[u] \notin {"insert", "erase"}
    BY <1>1 DEF IInv, LockInv
  <2> QED
    BY <1>3, <1>10, <2>1, NoneAssumption DEF IInv, MapInv, LiveTopic
<1>12. RegistryTopics[n] = None
  BY <1>3, <1>11, RegisteredFacts
<1>13. RegistryTopics' \in {RegistryTopics, [RegistryTopics EXCEPT ![n] = ty]} /\ Users' = Users
  <2>1. CASE UNCHANGED topicVars
    BY <1>1, <2>1, SameTopics, SameUsers DEF topicVars, endpointVars
  <2>2. CASE \E i \in TopicIds : create_topic(n, ty, i)
    <3>1. PICK i \in TopicIds : create_topic(n, ty, i)
      BY <2>2
    <3> HIDE DEF ty, n
    <3>2. /\ topicName[i] = None /\ topicName' = [topicName EXCEPT ![i] = n]
          /\ topicType' = [topicType EXCEPT ![i] = ty]
      BY <3>1 DEF create_topic, LiveTopic
    <3>3. topicName'[i] = n /\ topicType'[i] = ty
          /\ \A j \in TopicIds \ {i} : topicName'[j] = topicName[j] /\ topicType'[j] = topicType[j]
      BY <3>2 DEF IInv, TypeOK, DDSTypeOK
    <3>4. RegistryTopics'[n] = ty
      <4>1. TypeOf(topicName', topicType', n) = topicType'[i]
        BY <1>11, <3>3, TypeOfKnown
      <4> QED
        BY <1>3, <3>3, <4>1 DEF RegistryTopics, TypeOfTopic, TypeOf
    <3>5. ASSUME NEW m \in TopicNames, m # n
          PROVE  RegistryTopics'[m] = RegistryTopics[m]
      <4>1. RegistryTopics'[m] = TypeOf(topicName', topicType', m)
        BY DEF RegistryTopics, TypeOfTopic, TypeOf
      <4>2. m # None
        BY NoneAssumption
      <4>3. CASE \E j \in TopicIds : topicName[j] = m
        <5>1. PICK j \in TopicIds : topicName[j] = m
          BY <4>3
        <5>2. j # i /\ topicName'[j] = m /\ topicType'[j] = topicType[j]
          BY <3>2, <3>3, <4>2, <5>1
        <5>3. \A k \in TopicIds : topicName[k] = m => k = j
          BY <4>2, <5>1 DEF IInv, TopicInv, LiveTopic
        <5>4. \A k \in TopicIds : topicName'[k] = m => k = j
          BY <3>3, <3>5, <5>3
        <5>5. TypeOf(topicName', topicType', m) = topicType'[j]
          BY <5>2, <5>4, TypeOfKnown
        <5> QED
          BY <4>1, <5>1, <5>2, <5>5, RegisteredFacts
      <4>4. CASE \A j \in TopicIds : topicName[j] # m
        <5>1. \A j \in TopicIds : topicName'[j] # m
          BY <3>3, <3>5, <4>4
        <5> QED
          BY <4>1, <4>4, <5>1, TypeOfAbsent, RegisteredFacts
      <4> QED
        BY <4>3, <4>4
    <3>6. RegistryTopics' = [RegistryTopics EXCEPT ![n] = ty]
      <4>1. RegistryTopics = [m \in TopicNames |-> RegistryTopics[m]]
            /\ RegistryTopics' = [m \in TopicNames |-> RegistryTopics'[m]]
        BY DEF RegistryTopics
      <4> QED
        BY <1>3, <3>4, <3>5, <4>1
    <3>7. Users' = Users
      <4>1. \A e \in Endpoints : epTopic[e] # None =>
              epTopic[e] \in TopicIds /\ topicName[epTopic[e]] # None
        BY DEF IInv, TypeOK, DDSTypeOK, EndpointInv, LiveTopic
      <4>2. \A e \in Endpoints : epTopic[e] # None => topicName'[epTopic[e]] = topicName[epTopic[e]]
        BY <3>2, <3>3, <4>1
      <4>3. epTopic' = epTopic
        BY <1>1 DEF endpointVars
      <4> QED
        BY <4>2, <4>3 DEF Users
    <3> QED
      BY <3>6, <3>7
  <2> QED
    BY <2>1, <2>2 DEF CreateTopic
<1> HIDE DEF ty, n
<1> QED
  BY <1>3, <1>6, <1>9, <1>12, <1>13, RegisterIs DEF RegistryStep

\* insert and erase only bring the map up to date and return.
LEMMA InsertEraseIs ==
  ASSUME IInv, NEW t \in Threads, Insert(t) \/ Erase(t)
  PROVE  RegistryStep
<1>1. pc[t] \in {"insert", "erase"} /\ Return(t, "true") /\ types' = types
      /\ RegistryTopics' = RegistryTopics /\ Users' = Users
  BY SameTopics, SameUsers DEF Insert, Erase, topicVars, endpointVars
<1>2. Request' = [Request EXCEPT ![t] = None] /\ ret' = [ret EXCEPT ![t] = "true"]
      /\ Answer' = [Answer EXCEPT ![t] = None] /\ Answer[t] = "true" /\ Taken' = Taken
  BY <1>1, ReturnFacts
<1>3. Answer[t] # None
  BY <1>2, RequestAssumption DEF Results
<1> QED
  BY <1>1, <1>2, <1>3, ReplyIs DEF RegistryStep

\* The endpoint is attached to the topic found under the lock, or to none.
LEMMA CreateEndpointIs ==
  ASSUME IInv, NEW t \in Threads, CreateEndpoint(t)
  PROVE  RegistryStep
<1> DEFINE n == name[t]
<1>1. pc[t] = "create_endpoint" /\ Return(t, "endpoint") /\ types' = types
      /\ RegistryTopics' = RegistryTopics /\ UNCHANGED topicName
  BY SameTopics DEF CreateEndpoint, topicVars
<1>2. op[t] \in CreateOps
  BY <1>1 DEF IInv, CallInv
<1>3. n \in TopicNames /\ Request[t].name = n
  BY <1>1, RequestFacts
<1>4. tid[t] # Null /\ topicName[tid[t]] = n /\ tid[t] \in TopicIds
  BY <1>1 DEF IInv, MapInv, TypeOK
<1>5. RegistryTopics[n] # None
  BY <1>3, <1>4, RegisteredFacts
<1>6. Decide(t, "endpoint") /\ Taken' = Taken
  BY <1>1, ReturnFacts DEF Decide
<1>7. Awaits(t, CreateOps)
  BY <1>1, <1>2, AwaitsFacts
<1>8. PICK e \in Endpoints : epKind[e] = "none" /\ epTopic' \in {epTopic, [epTopic EXCEPT ![e] = tid[t]]}
  BY DEF CreateEndpoint
<1>9. epTopic[e] = None
  BY <1>8 DEF IInv, EndpointInv
<1>10. e \in Endpoints \ UNION {Users[m] : m \in TopicNames}
  BY <1>9 DEF Users
<1>11. Users' \in {Users, [Users EXCEPT ![n] = @ \cup {e}]}
  <2>1. CASE epTopic' = epTopic
    BY <1>1, <2>1, SameUsers
  <2>2. CASE epTopic' = [epTopic EXCEPT ![e] = tid[t]]
    <3>1. epTopic'[e] = tid[t] /\ \A f \in Endpoints \ {e} : epTopic'[f] = epTopic[f]
      BY <2>2 DEF IInv, TypeOK, DDSTypeOK
    <3>2. tid[t] # None
      BY <1>4, NoneAssumption
    <3>3. \A m \in TopicNames : Users'[m] = IF m = n THEN Users[m] \cup {e} ELSE Users[m]
      BY <1>1, <1>4, <1>9, <3>1, <3>2 DEF Users
    <3>4. Users' = [m \in TopicNames |-> Users'[m]] /\ Users = [m \in TopicNames |-> Users[m]]
      BY DEF Users
    <3> HIDE DEF n
    <3> QED
      BY <1>3, <3>3, <3>4
  <2> QED
    BY <1>8, <2>1, <2>2
<1> HIDE DEF n
<1> QED
  BY <1>1, <1>3, <1>5, <1>6, <1>7, <1>10, <1>11, OpenIs DEF RegistryStep

\* unregisterTopic takes effect when Fast DDS deletes the topic, or refuses.
LEMMA DeleteTopicIs ==
  ASSUME IInv, NEW t \in Threads, DeleteTopic(t)
  PROVE  RegistryStep
<1> DEFINE n == name[t]
           i == tid[t]
<1>1. pc[t] = "delete_topic" /\ types' = types /\ UNCHANGED endpointVars
  BY DEF DeleteTopic
<1>2. op[t] = "unregisterTopic"
  BY <1>1 DEF IInv, CallInv
<1>3. n \in TopicNames /\ Request[t].name = n /\ n # None
  BY <1>1, RequestFacts, NoneAssumption
<1>4. i # Null /\ topicName[i] = n /\ i \in TopicIds
  BY <1>1 DEF IInv, MapInv, TypeOK
<1>5. Awaits(t, {"unregisterTopic"})
  BY <1>1, <1>2, AwaitsFacts
<1>6. \A j \in TopicIds : topicName[j] = n => j = i
  BY <1>3, <1>4 DEF IInv, TopicInv, LiveTopic
<1>7. \A e \in Endpoints : epTopic[e] # None => epTopic[e] \in TopicIds
  BY DEF IInv, TypeOK, DDSTypeOK
<1>8. CASE TopicReferenced(i)
  <2>1. Return(t, "false") /\ UNCHANGED topicVars
    BY <1>8 DEF DeleteTopic
  <2>2. RegistryTopics' = RegistryTopics /\ Users' = Users
    BY <1>1, <2>1, SameTopics, SameUsers DEF topicVars, endpointVars
  <2>3. Users[n] # {}
    BY <1>3, <1>4, <1>8, NoneAssumption DEF TopicReferenced, Users
  <2>4. Decide(t, "false") /\ Taken' = Taken
    BY <1>1, <2>1, ReturnFacts DEF Decide
  <2> HIDE DEF n, i
  <2> QED
    BY <1>3, <1>5, <2>2, <2>3, <2>4, UnregisterIs DEF RegistryStep
<1>9. CASE ~TopicReferenced(i)
  <2>1. /\ topicName' = [topicName EXCEPT ![i] = None] /\ topicType' = [topicType EXCEPT ![i] = None]
        /\ pc' = [pc EXCEPT ![t] = "erase"] /\ UNCHANGED <<objType, argVars, ret>>
    BY <1>9 DEF DeleteTopic, delete_topic, Goto
  <2>2. Request' = Request
    BY <1>1, <2>1, SameRequest
  <2>3. Answer' = [Answer EXCEPT ![t] = "true"]
    BY <1>1, <2>1 DEF Answer, IInv, TypeOK
  <2>4. Taken' = Taken
    BY <1>1, <2>1, SameTaken DEF argVars, IInv, TypeOK
  <2>5. Users[n] = {}
    BY <1>3, <1>6, <1>7, <1>9 DEF Users, TopicReferenced
  <2> HIDE DEF n, i
  <2>6. topicName'[i] = None
        /\ \A j \in TopicIds \ {i} : topicName'[j] = topicName[j] /\ topicType'[j] = topicType[j]
    BY <1>4, <2>1 DEF IInv, TypeOK, DDSTypeOK
  <2>7. Users' = Users
    <3>1. \A e \in Endpoints : epTopic[e] # None => topicName'[epTopic[e]] = topicName[epTopic[e]]
      BY <1>7, <1>9, <2>6 DEF TopicReferenced
    <3> QED
      BY <1>1, <3>1 DEF Users, endpointVars
  <2>8. RegistryTopics'[n] = None
    <3>1. \A j \in TopicIds : topicName'[j] # n
      BY <1>3, <1>6, <2>6
    <3>2. TypeOf(topicName', topicType', n) = None
      BY <3>1, TypeOfAbsent
    <3> QED
      BY <1>3, <3>2 DEF RegistryTopics, TypeOfTopic, TypeOf
  <2>9. ASSUME NEW m \in TopicNames, m # n
        PROVE  RegistryTopics'[m] = RegistryTopics[m]
    <3>1. RegistryTopics'[m] = TypeOf(topicName', topicType', m)
      BY DEF RegistryTopics, TypeOfTopic, TypeOf
    <3>2. m # None
      BY NoneAssumption
    <3>3. CASE \E j \in TopicIds : topicName[j] = m
      <4>1. PICK j \in TopicIds : topicName[j] = m
        BY <3>3
      <4>2. j # i /\ topicName'[j] = m /\ topicType'[j] = topicType[j]
        BY <1>4, <2>6, <2>9, <4>1
      <4>3. \A k \in TopicIds : topicName[k] = m => k = j
        BY <3>2, <4>1 DEF IInv, TopicInv, LiveTopic
      <4>4. \A k \in TopicIds : topicName'[k] = m => k = j
        BY <2>6, <3>2, <4>3
      <4>5. TypeOf(topicName', topicType', m) = topicType'[j]
        BY <4>2, <4>4, TypeOfKnown
      <4> QED
        BY <3>1, <4>1, <4>2, <4>5, RegisteredFacts
    <3>4. CASE \A j \in TopicIds : topicName[j] # m
      <4>1. \A j \in TopicIds : topicName'[j] # m
        BY <2>6, <3>2, <3>4
      <4> QED
        BY <3>1, <3>4, <4>1, TypeOfAbsent, RegisteredFacts
    <3> QED
      BY <3>3, <3>4
  <2>10. RegistryTopics' = [RegistryTopics EXCEPT ![n] = None]
    <3>1. RegistryTopics = [m \in TopicNames |-> RegistryTopics[m]]
          /\ RegistryTopics' = [m \in TopicNames |-> RegistryTopics'[m]]
      BY DEF RegistryTopics
    <3> QED
      BY <1>3, <2>8, <2>9, <3>1
  <2>11. Decide(t, "true")
    BY <2>1, <2>2, <2>3 DEF Decide
  <2> QED
    BY <1>3, <1>5, <2>4, <2>5, <2>7, <2>10, <2>11, UnregisterIs DEF RegistryStep
<1> QED
  BY <1>8, <1>9

\* A destructor takes an endpoint out, if the program survives it.
LEMMA CloseEndpointIs ==
  ASSUME IInv, NEW e \in Endpoints, CloseEndpoint(e)
  PROVE  RegistryStep
<1>1. UNCHANGED <<types, objType, topicName, topicVars, pc, op, name, obj, ret>>
  BY DEF CloseEndpoint, typeVars, topicVars, argVars
<1>2. UNCHANGED <<RegistryTopics, Taken, Request, Answer, ret>>
  BY <1>1, SameTopics DEF Taken, Request, RequestOf, Answer
<1>3. CASE epTopic' = [epTopic EXCEPT ![e] = None]
  <2>1. epTopic'[e] = None /\ \A f \in Endpoints \ {e} : epTopic'[f] = epTopic[f]
    BY <1>3 DEF IInv, TypeOK, DDSTypeOK
  <2>2. Users' = [n \in TopicNames |-> Users[n] \ {e}]
    BY <1>1, <2>1 DEF Users
  <2> QED
    BY <1>2, <2>2, CloseIs DEF RegistryStep
<1>4. CASE UNCHANGED endpointVars
  <2>1. Users' = Users
    BY <1>1, <1>4, SameUsers DEF endpointVars
  <2> QED
    BY <1>2, <2>1, StutterIs DEF Abstract, RegistryStep
<1> QED
  BY <1>3, <1>4 DEF CloseEndpoint

\* Construction, destruction, the lock and a crash are nothing to the registry.
LEMMA OthersAre ==
  ASSUME IInv, \/ Construct \/ Destroy
               \/ \E t \in Threads : AcquireLock(t) \/ Crash(t)
               \/ \E e \in Endpoints : WriteToNull(e)
               \/ UNCHANGED vars
  PROVE  RegistryStep
<1>1. UNCHANGED <<types, objType, topicVars, topicName, epTopic, op, name, obj, ret>>
  BY DEF Construct, Destroy, AcquireLock, Crash, WriteToNull, vars, typeVars, topicVars,
         endpointVars, argVars, wrapperVars
<1>2. UNCHANGED <<RegistryTopics, Users>>
  BY <1>1, SameTopics, SameUsers
<1>3. CASE UNCHANGED pc
  <2>1. UNCHANGED <<Taken, Request, Answer>>
    BY <1>1, <1>3 DEF Taken, Request, RequestOf, Answer
  <2> QED
    BY <1>1, <1>2, <2>1, StutterIs DEF Abstract, RegistryStep
<1>4. CASE \E t \in Threads : AcquireLock(t)
  <2>1. PICK t \in Threads : pc[t] = "lock" /\ pc' = [pc EXCEPT ![t] = "find"]
    BY <1>4 DEF AcquireLock, Goto
  <2>2. Request' = Request
    BY <1>1, <2>1, SameRequest DEF argVars
  <2>3. Answer' = Answer
    BY <2>1 DEF Answer, IInv, TypeOK
  <2>4. Taken' = Taken
    BY <1>1, <2>1, SameTaken DEF IInv, TypeOK
  <2> QED
    BY <1>1, <1>2, <2>2, <2>3, <2>4, StutterIs DEF Abstract, RegistryStep
<1> QED
  BY <1>3, <1>4 DEF Construct, Destroy, Crash, WriteToNull, vars, wrapperVars

\* Each step of the wrapper is a step of the registry, or none.
LEMMA StepImplements ==
  ASSUME IInv, [Next]_vars
  PROVE  [Registry!Next]_(Registry!vars)
<1>1. CASE \E t \in Threads : Call(t)
  BY <1>1, RegisterNullTypeIs, CallRegisterTopicIs, CallWithNameIs DEF Call, RegistryStep
<1>2. CASE \E t \in Threads : Critical(t) /\ ~Crash(t)
  BY <1>2, FindHitIs, FindMissIs, RegisterTypeIs, CreateTopicIs, InsertEraseIs, CreateEndpointIs,
     DeleteTopicIs DEF Critical, RegistryStep
<1>3. CASE \E e \in Endpoints : CloseEndpoint(e)
  BY <1>3, CloseEndpointIs DEF RegistryStep
<1>4. CASE \/ Construct \/ Destroy
           \/ \E t \in Threads : AcquireLock(t) \/ Crash(t)
           \/ \E e \in Endpoints : WriteToNull(e)
           \/ UNCHANGED vars
  BY <1>4, OthersAre DEF RegistryStep
<1> QED
  BY <1>1, <1>2, <1>3, <1>4 DEF Next

\* Before the constructor has run the registry is empty.
LEMMA InitImplements == Init => Registry!Init
<1> SUFFICES ASSUME Init PROVE Registry!Init
  OBVIOUS
<1>1. \A n \in TopicNames : TypeOfTopic(n) = None
  BY NoneAssumption DEF Init, DDSInit, TypeOfTopic
<1>2. \A t \in Threads : pc[t] = "idle"
  BY DEF Init
<1>3. {ty \in TypeNames :
         /\ types[ty] # None
         /\ \A t \in Threads : pc[t] = "create_topic" => objType[obj[t]] # ty} = {}
  BY DEF Init, DDSInit
<1>4. \A e \in Endpoints : epTopic[e] = None
  BY DEF Init, DDSInit
<1> QED
  BY <1>1, <1>2, <1>3, <1>4 DEF Registry!Init, Init

(***************************************************************************)
(* However many threads call it, and whatever Fast DDS refuses, the class  *)
(* is a registry of topics whose operations are atomic: each takes effect  *)
(* at one instant between its call and its return.                         *)
(***************************************************************************)
THEOREM RegistryImplemented == Spec => ImplementsRegistry
<1>1. IInv /\ [Next]_vars => [Registry!Next]_(Registry!vars)
  BY StepImplements
<1> QED
  BY <1>1, InitImplements, Invariance, PTL DEF Spec, ImplementsRegistry, Registry!Spec
=============================================================================
