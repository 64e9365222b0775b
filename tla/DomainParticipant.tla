-------------------------- MODULE DomainParticipant --------------------------
(***************************************************************************)
(* One DDSDomainParticipant object: its construction, the four operations  *)
(* that threads of the application call concurrently, and its destruction, *)
(* together with the destruction of the endpoint wrappers it handed out.   *)
(*                                                                         *)
(* m_topicLock serialises registerTopic, unregisterTopic, createDataWriter *)
(* and createDataReader.  It does not serialise the destructors of the     *)
(* endpoint wrappers, which go straight to Fast DDS.  An operation is      *)
(* therefore split at its lock and at each call into Fast DDS.             *)
(***************************************************************************)
EXTENDS FastDDS, FiniteSets, Naturals

CONSTANTS
  Threads,      \* application threads
  Null          \* nullptr, as a Topic pointer

ASSUME ThreadAssumption ==
  /\ None \notin Threads
  /\ Null \notin TopicIds \cup {None}

VARIABLES
  stage,        \* of the DDSDomainParticipant: "unborn", "alive", "destroyed"
  mapTopics,    \* m_mapTopics
  topicLock,    \* the thread that holds m_topicLock
  pc,           \* the statement each thread is about to execute
  op,           \* the operation it is in
  name,         \* its argument topicName
  obj,          \* its argument dataType (a TypeSupport owns it)
  tid,          \* its local variable Topic *topic
  ret,          \* what its last call returned; "none" during the next one
  fault         \* how the program died, if it did

lockVars == <<mapTopics, topicLock>>
argVars == <<op, name, obj>>
wrapperVars == <<stage, mapTopics, topicLock, pc, op, name, obj, tid, ret, fault>>
vars == <<entityVars, typeVars, topicVars, endpointVars, wrapperVars>>

CreateOps == {"createDataWriter", "createDataReader"}
NameOps == CreateOps \cup {"unregisterTopic"}
Ops == NameOps \cup {"registerTopic"}
Steps == {"idle", "lock", "find", "register_type", "create_topic", "insert",
          "create_endpoint", "delete_topic", "erase"}
\* "nullptr" and "endpoint" are what createDataWriter and createDataReader return.
Results == {"none", "true", "false", "nullptr", "endpoint"}

EndpointKind(o) == IF o = "createDataWriter" THEN "writer" ELSE "reader"

TypeOK ==
  /\ DDSTypeOK
  /\ stage \in {"unborn", "alive", "destroyed"}
  /\ mapTopics \in [TopicNames -> TopicIds \cup {None}]
  /\ topicLock \in Threads \cup {None}
  /\ pc \in [Threads -> Steps]
  /\ op \in [Threads -> Ops \cup {"none"}]
  /\ name \in [Threads -> TopicNames \cup {None}]
  /\ obj \in [Threads -> TypeObjs \cup {None}]
  /\ tid \in [Threads -> TopicIds \cup {Null}]
  /\ ret \in [Threads -> Results]
  /\ fault \in {"none", "null_deref", "wild_deref"}

Init ==
  /\ DDSInit
  /\ stage = "unborn"
  /\ mapTopics = [n \in TopicNames |-> None]
  /\ topicLock = None
  /\ pc = [t \in Threads |-> "idle"]
  /\ op = [t \in Threads |-> "none"]
  /\ name = [t \in Threads |-> None]
  /\ obj = [t \in Threads |-> None]
  /\ tid = [t \in Threads |-> Null]
  /\ ret = [t \in Threads |-> "none"]
  /\ fault = "none"

-----------------------------------------------------------------------------
(***************************************************************************)
(* The constructor.  When create_participant fails, m_publisher and        *)
(* m_subscriber are never assigned and keep whatever the heap held.        *)
(***************************************************************************)
Construct ==
  /\ stage = "unborn"
  /\ stage' = "alive"
  /\ \/ UNCHANGED entityVars
     \/ /\ participant' = "live"
        /\ subscriber' \in {"null", "live"}
        /\ publisher' \in {"null", "live"}
  /\ UNCHANGED <<typeVars, topicVars, endpointVars, lockVars, pc, argVars, tid, ret, fault>>

\* Mutant of Destroy: delete_contained_entities first, so nothing is refused.
Destroy_DeletesContained ==
  /\ stage = "alive"
  /\ \A t \in Threads : pc[t] = "idle"
  /\ stage' = "destroyed"
  /\ participant' = IF participant = "live" THEN "deleted" ELSE participant
  /\ UNCHANGED <<publisher, subscriber, typeVars, topicVars, endpointVars,
                 lockVars, pc, argVars, tid, ret, fault>>

(***************************************************************************)
(* The destructor: delete_participant, its return code ignored.  The code  *)
(* takes no lock, so its owner may run it only when no call is in          *)
(* progress.                                                               *)
(***************************************************************************)
Destroy ==
  /\ stage = "alive"
  /\ \A t \in Threads : pc[t] = "idle"
  /\ stage' = "destroyed"
  /\ participant' = IF participant = "live" /\ ~has_active_entities
                    THEN "deleted" ELSE participant
  /\ UNCHANGED <<publisher, subscriber, typeVars, topicVars, endpointVars,
                 lockVars, pc, argVars, tid, ret, fault>>

-----------------------------------------------------------------------------
\* Calls.

\* registerTopic(n, nullptr): rejected before the lock is taken.
RegisterNullType(t) ==
  /\ stage = "alive" /\ pc[t] = "idle"
  /\ ret' = [ret EXCEPT ![t] = "false"]
  /\ UNCHANGED <<entityVars, typeVars, topicVars, endpointVars, stage, lockVars, pc,
                 argVars, tid, fault>>

\* registerTopic(n, dataType): the TypeSupport takes the object over first.
CallRegisterTopic(t, n, ty, o) ==
  /\ stage = "alive" /\ pc[t] = "idle"
  /\ objType[o] = None
  /\ objType' = [objType EXCEPT ![o] = ty]
  /\ pc' = [pc EXCEPT ![t] = "lock"]
  /\ op' = [op EXCEPT ![t] = "registerTopic"]
  /\ name' = [name EXCEPT ![t] = n]
  /\ obj' = [obj EXCEPT ![t] = o]
  /\ ret' = [ret EXCEPT ![t] = "none"]
  /\ UNCHANGED <<entityVars, types, topicVars, endpointVars, stage, lockVars, tid, fault>>

\* Bound: a creation starts only if the heap has room for its wrapper.
HeapRoom ==
  Cardinality({t \in Threads : op[t] \in CreateOps})
    < Cardinality({e \in Endpoints : epKind[e] = "none"})

\* unregisterTopic(n), createDataWriter(n), createDataReader(n).
CallWithName(t, o, n) ==
  /\ stage = "alive" /\ pc[t] = "idle"
  /\ o \in CreateOps => HeapRoom
  /\ pc' = [pc EXCEPT ![t] = "lock"]
  /\ op' = [op EXCEPT ![t] = o]
  /\ name' = [name EXCEPT ![t] = n]
  /\ ret' = [ret EXCEPT ![t] = "none"]
  /\ UNCHANGED <<entityVars, typeVars, topicVars, endpointVars, stage, lockVars, obj,
                 tid, fault>>

Goto(t, step) == pc' = [pc EXCEPT ![t] = step]

\* Mutant of AcquireLock: the operation runs without the lock.
AcquireLock_Skipped(t) ==
  /\ pc[t] = "lock"
  /\ topicLock' = t
  /\ Goto(t, "find")
  /\ UNCHANGED <<entityVars, typeVars, topicVars, endpointVars, stage, mapTopics, argVars,
                 tid, ret, fault>>

\* std::lock_guard<std::mutex> guard(m_topicLock)
AcquireLock(t) ==
  /\ pc[t] = "lock"
  /\ topicLock = None
  /\ topicLock' = t
  /\ Goto(t, "find")
  /\ UNCHANGED <<entityVars, typeVars, topicVars, endpointVars, stage, mapTopics, argVars,
                 tid, ret, fault>>

\* Mutant of DropTypeSupport: the raw pointer is not taken over by a TypeSupport.
DropTypeSupport_Leaks(t) == UNCHANGED objType

(***************************************************************************)
(* Every return runs the destructors of guard and typeSupport: the lock is *)
(* released, and the type object is freed unless the participant shares    *)
(* it.                                                                     *)
(***************************************************************************)
DropTypeSupport(t) ==
  objType' = [x \in TypeObjs |->
                IF x = obj[t] /\ ~TypeRegistered(x) THEN None ELSE objType[x]]

Return(t, r) ==
  /\ topicLock' = None
  /\ Goto(t, "idle")
  /\ ret' = [ret EXCEPT ![t] = r]
  /\ op' = [op EXCEPT ![t] = "none"]
  /\ name' = [name EXCEPT ![t] = None]
  /\ obj' = [obj EXCEPT ![t] = None]
  /\ tid' = [tid EXCEPT ![t] = Null]
  /\ DropTypeSupport(t)
  /\ UNCHANGED <<stage, fault>>
-----------------------------------------------------------------------------
\* The statements under the lock.

\* What a local variable Topic *topic points at.
TopicPointer(i) == IF i = Null THEN "null" ELSE IF LiveTopic(i) THEN "live" ELSE "deleted"

\* Mutant of FindHit: the early return of registerTopic leaves the mutex locked.
FindHit_KeepsLock(t) ==
  /\ pc[t] = "find"
  /\ mapTopics[name[t]] # None
  /\ op[t] = "registerTopic"
  /\ Goto(t, "idle")
  /\ op' = [op EXCEPT ![t] = "none"]
  /\ name' = [name EXCEPT ![t] = None]
  /\ obj' = [obj EXCEPT ![t] = None]
  /\ ret' = [ret EXCEPT ![t] = "true"]
  /\ DropTypeSupport(t)
  /\ UNCHANGED <<entityVars, types, topicVars, endpointVars, stage, lockVars, tid, fault>>

\* Mutant of FindHit: registerTopic registers an existing topic once more.
FindHit_NoEarlyReturn(t) ==
  /\ pc[t] = "find"
  /\ mapTopics[name[t]] # None
  /\ \/ /\ op[t] = "registerTopic"
        /\ Goto(t, "register_type")
        /\ UNCHANGED tid
     \/ /\ op[t] # "registerTopic"
        /\ tid' = [tid EXCEPT ![t] = mapTopics[name[t]]]
        /\ Goto(t, IF op[t] = "unregisterTopic" THEN "delete_topic" ELSE "create_endpoint")
  /\ UNCHANGED <<entityVars, typeVars, topicVars, endpointVars, stage, lockVars, argVars,
                 ret, fault>>

\* The pointer found goes into the local variable, or straight into the call.
FindHit(t) ==
  /\ pc[t] = "find"
  /\ mapTopics[name[t]] # None
  /\ \/ /\ op[t] = "registerTopic"
        /\ Return(t, "true")
     \/ /\ op[t] # "registerTopic"
        /\ tid' = [tid EXCEPT ![t] = mapTopics[name[t]]]
        /\ Goto(t, IF op[t] = "unregisterTopic" THEN "delete_topic" ELSE "create_endpoint")
        /\ UNCHANGED <<objType, stage, topicLock, argVars, ret, fault>>
  /\ UNCHANGED <<entityVars, types, topicVars, endpointVars, mapTopics>>

FindMiss(t) ==
  /\ pc[t] = "find"
  /\ mapTopics[name[t]] = None
  /\ \/ /\ op[t] = "registerTopic"
        /\ Goto(t, "register_type")
        /\ UNCHANGED <<objType, stage, topicLock, argVars, tid, ret, fault>>
     \/ /\ op[t] # "registerTopic"
        /\ Return(t, IF op[t] = "unregisterTopic" THEN "true" ELSE "nullptr")
  /\ UNCHANGED <<entityVars, types, topicVars, endpointVars, mapTopics>>

\* Mutant of RegisterType: the return code is ignored.
RegisterType_IgnoresRefusal(t) ==
  /\ pc[t] = "register_type"
  /\ participant = "live"
  /\ IF RegisterTypeRefused(obj[t]) THEN UNCHANGED types ELSE register_type(obj[t])
  /\ Goto(t, "create_topic")
  /\ UNCHANGED <<entityVars, topicVars, endpointVars, mapTopics,
                 objType, stage, topicLock, argVars, tid, ret, fault>>

\* typeSupport.register_type(m_participant)
RegisterType(t) ==
  /\ pc[t] = "register_type"
  /\ participant = "live"
  /\ \/ /\ RegisterTypeRefused(obj[t])
        /\ Return(t, "false")
        /\ UNCHANGED types
     \/ /\ ~RegisterTypeRefused(obj[t])
        /\ register_type(obj[t])
        /\ Goto(t, "create_topic")
        /\ UNCHANGED <<objType, stage, topicLock, argVars, tid, ret, fault>>
  /\ UNCHANGED <<entityVars, topicVars, endpointVars, mapTopics>>

\* m_participant->create_topic(topicName, typeSupport->getName(), topicQos)
CreateTopic(t) ==
  /\ pc[t] = "create_topic"
  /\ participant = "live"
  /\ \/ /\ tid' = [tid EXCEPT ![t] = Null]
        /\ UNCHANGED topicVars
     \/ \E i \in TopicIds :
          /\ create_topic(name[t], objType[obj[t]], i)
          /\ tid' = [tid EXCEPT ![t] = i]
  /\ Goto(t, "insert")
  /\ UNCHANGED <<entityVars, typeVars, endpointVars, stage, lockVars, argVars, ret, fault>>

\* Mutant of Insert: no null check before the insertion.
Insert_StoresNull(t) ==
  /\ pc[t] = "insert"
  /\ mapTopics' = [mapTopics EXCEPT ![name[t]] = tid[t]]
  /\ Return(t, "true")
  /\ UNCHANGED <<entityVars, types, topicVars, endpointVars>>

\* A null topic is not inserted, yet the call still returns true.
Insert(t) ==
  /\ pc[t] = "insert"
  /\ mapTopics' = IF tid[t] # Null THEN [mapTopics EXCEPT ![name[t]] = tid[t]] ELSE mapTopics
  /\ Return(t, "true")
  /\ UNCHANGED <<entityVars, types, topicVars, endpointVars>>

(***************************************************************************)
(* new DDSTopicDataWriter / DDSTopicDataReader: the constructor calls      *)
(* create_datawriter / create_datareader and keeps the answer, null or     *)
(* not; createDataWriter / createDataReader return the wrapper either way. *)
(***************************************************************************)
CreateEndpoint(t) ==
  LET kind == EndpointKind(op[t]) IN
  /\ pc[t] = "create_endpoint"
  /\ ParentPointer(kind) = "live"
  /\ TopicPointer(tid[t]) = "live"
  /\ \E e \in Endpoints :
       /\ epKind[e] = "none"
       /\ epKind' = [epKind EXCEPT ![e] = kind]
       /\ epTopic' \in {epTopic, [epTopic EXCEPT ![e] = tid[t]]}
  /\ Return(t, "endpoint")
  /\ UNCHANGED <<entityVars, types, topicVars, mapTopics>>

\* Mutant of DeleteTopic: no return after a refusal.
DeleteTopic_IgnoresRefusal(t) ==
  /\ pc[t] = "delete_topic"
  /\ participant = "live"
  /\ TopicPointer(tid[t]) = "live"
  /\ IF TopicReferenced(tid[t]) THEN UNCHANGED topicVars ELSE delete_topic(tid[t])
  /\ Goto(t, "erase")
  /\ UNCHANGED <<entityVars, types, endpointVars, mapTopics,
                 objType, stage, topicLock, argVars, tid, ret, fault>>

\* m_participant->delete_topic(topic); the map holds no null pointer (TypeOK),
\* so the test of topic before it always succeeds.
DeleteTopic(t) ==
  /\ pc[t] = "delete_topic"
  /\ participant = "live"
  /\ TopicPointer(tid[t]) = "live"
  /\ \/ /\ TopicReferenced(tid[t])
        /\ Return(t, "false")
        /\ UNCHANGED topicVars
     \/ /\ ~TopicReferenced(tid[t])
        /\ delete_topic(tid[t])
        /\ Goto(t, "erase")
        /\ UNCHANGED <<objType, stage, topicLock, argVars, tid, ret, fault>>
  /\ UNCHANGED <<entityVars, types, endpointVars, mapTopics>>

\* Mutant of Erase: the entry of the deleted topic stays in the map.
Erase_Skipped(t) ==
  /\ pc[t] = "erase"
  /\ Return(t, "true")
  /\ UNCHANGED <<entityVars, types, topicVars, endpointVars, mapTopics>>

Erase(t) ==
  /\ pc[t] = "erase"
  /\ mapTopics' = [mapTopics EXCEPT ![name[t]] = None]
  /\ Return(t, "true")
  /\ UNCHANGED <<entityVars, types, topicVars, endpointVars>>

-----------------------------------------------------------------------------
(***************************************************************************)
(* Dereferencing.  Derefs(t) is the state of every pointer the next        *)
(* statement of t dereferences; a null one ends the program, one that      *)
(* points at no live object is undefined behaviour.  The statements above  *)
(* only run when all of them are live.                                     *)
(***************************************************************************)
Derefs(t) ==
  CASE pc[t] \in {"register_type", "create_topic"} -> {participant}
    [] pc[t] = "delete_topic" -> {participant, TopicPointer(tid[t])}
    [] pc[t] = "create_endpoint" ->
         {ParentPointer(EndpointKind(op[t])), TopicPointer(tid[t])}
    [] OTHER -> {}

Fault(ptrs) == IF ptrs \cap {"deleted", "garbage"} # {} THEN "wild_deref" ELSE "null_deref"

Crash(t) ==
  /\ Derefs(t) \ {"live"} # {}
  /\ fault' = Fault(Derefs(t))
  /\ UNCHANGED <<entityVars, typeVars, topicVars, endpointVars, stage, lockVars, pc,
                 argVars, tid, ret>>

(***************************************************************************)
(* The destructors of the endpoint wrappers call delete_datawriter /       *)
(* delete_datareader through m_publisher / m_subscriber, without the lock  *)
(* and at any time.  Only the reader's skips a null endpoint.              *)
(***************************************************************************)
CloseDerefs(e) ==
  CASE epTopic[e] # None -> {ParentPointer(epKind[e])}
    [] epTopic[e] = None /\ epKind[e] = "writer" -> {ParentPointer(epKind[e]), "null"}
    [] OTHER -> {}

CloseEndpoint(e) ==
  /\ epKind[e] # "none"
  /\ \/ /\ CloseDerefs(e) \ {"live"} = {}
        /\ epKind' = [epKind EXCEPT ![e] = "none"]
        /\ epTopic' = [epTopic EXCEPT ![e] = None]
        /\ UNCHANGED fault
     \/ /\ CloseDerefs(e) \ {"live"} # {}
        /\ fault' = Fault(CloseDerefs(e))
        /\ UNCHANGED endpointVars
  /\ UNCHANGED <<entityVars, typeVars, topicVars, stage, lockVars, pc, argVars, tid, ret>>

\* writeMessage on a wrapper whose DataWriter is null.  (On a proper one it
\* changes nothing here: see DataReaderDelivery for what becomes of a message.)
WriteToNull(e) ==
  /\ epKind[e] = "writer"
  /\ epTopic[e] = None
  /\ fault' = "null_deref"
  /\ UNCHANGED <<entityVars, typeVars, topicVars, endpointVars, stage, lockVars, pc,
                 argVars, tid, ret>>

-----------------------------------------------------------------------------
Call(t) ==
  \/ RegisterNullType(t)
  \/ \E n \in TopicNames, ty \in TypeNames, o \in TypeObjs : CallRegisterTopic(t, n, ty, o)
  \/ \E o \in NameOps, n \in TopicNames : CallWithName(t, o, n)

Critical(t) ==
  \/ FindHit(t) \/ FindMiss(t)
  \/ RegisterType(t) \/ CreateTopic(t) \/ Insert(t)
  \/ CreateEndpoint(t)
  \/ DeleteTopic(t) \/ Erase(t)
  \/ Crash(t)

Next ==
  /\ fault = "none"
  /\ \/ Construct
     \/ Destroy
     \/ \E t \in Threads : Call(t) \/ AcquireLock(t) \/ Critical(t)
     \/ \E e \in Endpoints : CloseEndpoint(e) \/ WriteToNull(e)

Spec == Init /\ [][Next]_vars

(***************************************************************************)
(* Fast DDS answers every call and a thread that holds the lock is         *)
(* scheduled again: a thread inside its critical section takes its next    *)
(* step.  Nothing is assumed of std::mutex, which may starve a waiter, nor *)
(* of the application, which may stop calling.                             *)
(***************************************************************************)
FairSpec == Spec /\ \A t \in Threads : WF_vars(Next /\ Critical(t))

-----------------------------------------------------------------------------
\* Properties.

(***************************************************************************)
(* Whenever m_topicLock is free, m_mapTopics and the topics that exist in  *)
(* the Fast DDS participant are the same: no entry points at a deleted or  *)
(* foreign Topic, and no Topic has been forgotten.  So registerTopic never *)
(* asks for a second topic of the same name.                               *)
(***************************************************************************)
MapMirrorsParticipant ==
  topicLock = None =>
    /\ \A n \in TopicNames : mapTopics[n] # None => topicName[mapTopics[n]] = n
    /\ \A i \in TopicIds : LiveTopic(i) => mapTopics[topicName[i]] = i

(***************************************************************************)
(* A DataWriter or DataReader, which its owner destroys without the lock   *)
(* and possibly after the DDSDomainParticipant, never outlives what it     *)
(* refers to: its topic exists and is still in m_mapTopics, and the        *)
(* Publisher or Subscriber its destructor will use is alive.  Nothing but  *)
(* Fast DDS's refusals to delete a used topic or a non-empty participant   *)
(* protects the unlocked destructors.                                      *)
(***************************************************************************)
EndpointsAnchored ==
  \A e \in Endpoints : epTopic[e] # None =>
    /\ LiveTopic(epTopic[e])
    /\ mapTopics[topicName[epTopic[e]]] = epTopic[e]
    /\ ParentPointer(epKind[e]) = "live"

(***************************************************************************)
(* No statement of the class dereferences a pointer to a deleted object or *)
(* the unassigned m_publisher / m_subscriber of a participant that could   *)
(* not be created, in any interleaving.  (A null pointer it does           *)
(* dereference, when Fast DDS refused a creation.)                         *)
(***************************************************************************)
NoWildDereference == fault # "wild_deref"

(***************************************************************************)
(* The program only dies of a null pointer that Fast DDS returned from a   *)
(* creation and nobody checked: there is no participant, publisher or      *)
(* subscriber, or some writer has no DataWriter.  In particular a failed   *)
(* create_topic is harmless, and so is any order of calls and destructors. *)
(***************************************************************************)
CrashOnlyAfterFailure ==
  fault # "none" =>
    \/ "null" \in {participant, publisher, subscriber}
    \/ \E e \in Endpoints : epKind[e] = "writer" /\ epTopic[e] = None

(***************************************************************************)
(* Two topics never share a data type: each registerTopic brings a fresh   *)
(* TopicDataType object, and register_type refuses a second object of the  *)
(* same type name, so the second topic of a type is never registered.      *)
(***************************************************************************)
OneTopicPerDataType ==
  \A i, j \in TopicIds :
    LiveTopic(i) /\ LiveTopic(j) /\ topicType[i] = topicType[j] => i = j

(***************************************************************************)
(* The TopicDataType object handed to registerTopic as a raw pointer is    *)
(* freed on every path that does not leave it registered, and never while  *)
(* it is registered.                                                       *)
(***************************************************************************)
TypeObjectsOwned ==
  /\ \A o \in TypeObjs : objType[o] # None =>
       TypeRegistered(o) \/ \E t \in Threads : pc[t] # "idle" /\ obj[t] = o
  /\ \A ty \in TypeNames : types[ty] # None => objType[types[ty]] = ty

(***************************************************************************)
(* A data type whose topic has been unregistered (or could not be created) *)
(* can never get a topic again: the participant keeps the old              *)
(* registration and refuses every fresh type object of that name.          *)
(***************************************************************************)
Spent(ty) ==
  /\ types[ty] # None
  /\ \A i \in TopicIds : topicType[i] # ty
  /\ \A t \in Threads : pc[t] = "create_topic" => objType[obj[t]] # ty

SpentTypeStaysSpent == [][\A ty \in TypeNames : Spent(ty) => Spent(ty)']_vars

\* Every path out of a critical section gives m_topicLock back.
LockReleased == \A t \in Threads : topicLock = t ~> (topicLock # t \/ fault # "none")

(***************************************************************************)
(* The concurrent operations implement the atomic registry.  An operation  *)
(* takes effect where Fast DDS's state changes; taken leaves out a type    *)
(* whose registration is still in progress.                                *)
(***************************************************************************)
TypeOfTopic(n) ==
  IF \E i \in TopicIds : topicName[i] = n
  THEN topicType[CHOOSE i \in TopicIds : topicName[i] = n] ELSE None

\* A thread without a call is not in one, nor one without an answer at it.
ASSUME RequestAssumption ==
  /\ None \notin Results
  /\ None \notin [op : Ops, name : TopicNames, type : TypeNames \cup {None}]

Registry == INSTANCE TopicRegistry WITH
  registered <- [n \in TopicNames |-> TypeOfTopic(n)],
  taken <- {ty \in TypeNames :
              /\ types[ty] # None
              /\ \A t \in Threads : pc[t] = "create_topic" => objType[obj[t]] # ty},
  users <- [n \in TopicNames |->
              {e \in Endpoints : epTopic[e] # None /\ topicName[epTopic[e]] = n}],
  request <- [t \in Threads |->
                IF pc[t] = "idle" THEN None
                ELSE [op |-> op[t], name |-> name[t],
                      type |-> IF obj[t] = None THEN None ELSE objType[obj[t]]]],
  answer <- [t \in Threads |-> IF pc[t] \in {"insert", "erase"} THEN "true" ELSE None],
  response <- ret

ImplementsRegistry == Registry!Spec
=============================================================================
