-------------------------- MODULE ParticipantManager --------------------------
(***************************************************************************)
(* DDSParticipantManager: it constructs its DDSDomainParticipant on        *)
(* demand and turns "an endpoint for topic n" into two calls to it,        *)
(* registerTopic and createDataWriter / createDataReader, each of which    *)
(* takes the lock for itself.  The DDSDomainParticipant is private, so     *)
(* these are all the calls it gets: nothing ever unregisters a topic.      *)
(*                                                                         *)
(* m_participant and m_topicTypes are not protected.  Using the class      *)
(* rightly means that calls of addTopicDataTypeCreator do not overlap with *)
(* other calls, nor calls of initDomainParticipant with each other.        *)
(* createDataWriter and createDataReader may overlap with everything else, *)
(* except the destructor.                                                  *)
(***************************************************************************)
EXTENDS DomainParticipant

VARIABLES
  m_participant,  \* the shared_ptr: "null", "set"; "gone" with its manager
  m_topicTypes,   \* the data type each topic's creator makes
  mpc,            \* what each thread is doing in the manager
  mop,            \* createDataWriter or createDataReader
  mname,          \* its argument topicName
  mret,           \* what its last call returned
  mfault          \* the manager dereferenced its null m_participant

managerVars == <<m_participant, m_topicTypes, mpc, mop, mname, mret, mfault>>
allVars == <<vars, managerVars>>

ManagerTypeOK ==
  /\ TypeOK
  /\ m_participant \in {"null", "set", "gone"}
  /\ m_topicTypes \in [TopicNames -> TypeNames \cup {None}]
  /\ mpc \in [Threads -> {"idle", "constructing", "assigning", "registering", "creating"}]
  /\ mop \in [Threads -> CreateOps \cup {"none"}]
  /\ mname \in [Threads -> TopicNames \cup {None}]
  /\ mret \in [Threads -> Results \ {"false"}]
  /\ mfault \in BOOLEAN

ManagerInit ==
  /\ Init
  /\ m_participant = "null"
  /\ m_topicTypes = [n \in TopicNames |-> None]
  /\ mpc = [t \in Threads |-> "idle"]
  /\ mop = [t \in Threads |-> "none"]
  /\ mname = [t \in Threads |-> None]
  /\ mret = [t \in Threads |-> "none"]
  /\ mfault = FALSE

Idle(t) == mpc[t] = "idle" /\ m_participant # "gone"

-----------------------------------------------------------------------------
\* Mutant of addTopicDataTypeCreator: a second creator replaces the first.
addTopicDataTypeCreator_Overwrites(n, ty) ==
  /\ \A t \in Threads : Idle(t)
  /\ m_topicTypes' = [m_topicTypes EXCEPT ![n] = ty]
  /\ UNCHANGED <<vars, m_participant, mpc, mop, mname, mret, mfault>>

\* The first creator of a topic stays.
addTopicDataTypeCreator(n, ty) ==
  /\ \A t \in Threads : Idle(t)
  /\ m_topicTypes[n] = None
  /\ m_topicTypes' = [m_topicTypes EXCEPT ![n] = ty]
  /\ UNCHANGED <<vars, m_participant, mpc, mop, mname, mret, mfault>>

(***************************************************************************)
(* initDomainParticipant: the test of m_participant, make_shared, and the  *)
(* assignment, which other threads may see in between.  make_shared never  *)
(* returns null, whatever became of the Fast DDS participant inside, so    *)
(* the answer is always true.                                              *)
(***************************************************************************)
initDomainParticipant(t) ==
  /\ Idle(t)
  /\ \A u \in Threads : mpc[u] \notin {"constructing", "assigning"}
  /\ \/ /\ m_participant = "set"
        /\ mret' = [mret EXCEPT ![t] = "true"]
        /\ UNCHANGED mpc
     \/ /\ m_participant = "null"
        /\ mpc' = [mpc EXCEPT ![t] = "constructing"]
        /\ mret' = [mret EXCEPT ![t] = "none"]
  /\ UNCHANGED <<vars, m_participant, m_topicTypes, mop, mname, mfault>>

MakeShared(t) ==
  /\ mpc[t] = "constructing"
  /\ Construct
  /\ mpc' = [mpc EXCEPT ![t] = "assigning"]
  /\ UNCHANGED <<m_participant, m_topicTypes, mop, mname, mret, mfault>>

Assign(t) ==
  /\ mpc[t] = "assigning"
  /\ m_participant' = "set"
  /\ mpc' = [mpc EXCEPT ![t] = "idle"]
  /\ mret' = [mret EXCEPT ![t] = "true"]
  /\ UNCHANGED <<vars, m_topicTypes, mop, mname, mfault>>
-----------------------------------------------------------------------------
\* createDataWriter(n), createDataReader(n).

\* Bound: a call starts only if the heap has room for the wrapper it may make.
RoomForCall ==
  Cardinality({t \in Threads : mop[t] \in CreateOps})
    < Cardinality({e \in Endpoints : epKind[e] = "none"})

(***************************************************************************)
(* The arguments of registerTopic: getTopicDataType(n) looks the creator   *)
(* up and calls it, or returns nullptr, which registerTopic refuses before *)
(* it touches any member (so even when m_participant is null).             *)
(***************************************************************************)
CreateUnknown(t, n) ==
  /\ Idle(t)
  /\ m_topicTypes[n] = None
  /\ mret' = [mret EXCEPT ![t] = "nullptr"]
  /\ \/ /\ m_participant = "set"
        /\ RegisterNullType(t)
     \/ /\ m_participant = "null"
        /\ UNCHANGED vars
  /\ UNCHANGED <<m_participant, m_topicTypes, mpc, mop, mname, mfault>>

Create(t, o, n) ==
  /\ Idle(t)
  /\ RoomForCall
  /\ m_topicTypes[n] # None
  /\ m_participant = "set"
  /\ \E x \in TypeObjs : CallRegisterTopic(t, n, m_topicTypes[n], x)
  /\ mpc' = [mpc EXCEPT ![t] = "registering"]
  /\ mop' = [mop EXCEPT ![t] = o]
  /\ mname' = [mname EXCEPT ![t] = n]
  /\ mret' = [mret EXCEPT ![t] = "none"]
  /\ UNCHANGED <<m_participant, m_topicTypes, mfault>>

\* The same call before initDomainParticipant has assigned m_participant.
CreateTooEarly(t, n) ==
  /\ Idle(t)
  /\ m_topicTypes[n] # None
  /\ m_participant = "null"
  /\ mfault' = TRUE
  /\ UNCHANGED <<vars, m_participant, m_topicTypes, mpc, mop, mname, mret>>

ManagerReturn(t, r) ==
  /\ mpc' = [mpc EXCEPT ![t] = "idle"]
  /\ mop' = [mop EXCEPT ![t] = "none"]
  /\ mname' = [mname EXCEPT ![t] = None]
  /\ mret' = [mret EXCEPT ![t] = r]

\* registerTopic has returned: its answer decides about the second call.
Registered(t) ==
  /\ mpc[t] = "registering" /\ pc[t] = "idle"
  /\ \/ /\ ret[t] = "true"
        /\ CallWithName(t, mop[t], mname[t])
        /\ mpc' = [mpc EXCEPT ![t] = "creating"]
        /\ UNCHANGED <<mop, mname, mret>>
     \/ /\ ret[t] = "false"
        /\ ManagerReturn(t, "nullptr")
        /\ UNCHANGED vars
  /\ UNCHANGED <<m_participant, m_topicTypes, mfault>>

\* createDataWriter / createDataReader has returned, and its answer is passed on.
Created(t) ==
  /\ mpc[t] = "creating" /\ pc[t] = "idle"
  /\ ManagerReturn(t, ret[t])
  /\ UNCHANGED <<vars, m_participant, m_topicTypes, mfault>>

\* The shared_ptr deletes the DDSDomainParticipant with its manager.
DestroyManager ==
  /\ \A t \in Threads : Idle(t)
  /\ m_participant' = "gone"
  /\ \/ /\ m_participant = "set"
        /\ Destroy
     \/ /\ m_participant = "null"
        /\ UNCHANGED vars
  /\ UNCHANGED <<m_topicTypes, mpc, mop, mname, mret, mfault>>

-----------------------------------------------------------------------------
ManagerCall(t) ==
  \/ initDomainParticipant(t) \/ MakeShared(t) \/ Assign(t)
  \/ \E n \in TopicNames : CreateUnknown(t, n) \/ CreateTooEarly(t, n)
  \/ \E o \in CreateOps, n \in TopicNames : Create(t, o, n)
  \/ Registered(t) \/ Created(t)

\* Steps inside DDSDomainParticipant and of the endpoints.
Inner ==
  /\ \/ \E t \in Threads : AcquireLock(t) \/ Critical(t)
     \/ \E e \in Endpoints : CloseEndpoint(e) \/ WriteToNull(e)
  /\ UNCHANGED managerVars

ManagerNext ==
  /\ fault = "none" /\ ~mfault
  /\ \/ \E n \in TopicNames, ty \in TypeNames : addTopicDataTypeCreator(n, ty)
     \/ \E t \in Threads : ManagerCall(t)
     \/ Inner
     \/ DestroyManager

ManagerSpec == ManagerInit /\ [][ManagerNext]_allVars
-----------------------------------------------------------------------------
\* Properties.

(***************************************************************************)
(* Every topic has the data type of the creator of its name: registerTopic *)
(* says true for an existing topic without looking at the type, so nothing *)
(* but the manager's map, which never replaces a creator, keeps the        *)
(* endpoints of one topic to one type.                                     *)
(***************************************************************************)
TopicsHaveCreatorsType ==
  \A i \in TopicIds : LiveTopic(i) => topicType[i] = m_topicTypes[topicName[i]]

(***************************************************************************)
(* A nullptr from createDataWriter or createDataReader, other than for a   *)
(* topic without creator, is final: the topic does not exist and its type  *)
(* is used up, by another topic or by a create_topic that failed, so no    *)
(* later call for that topic can succeed.  Retrying is pointless; and as   *)
(* soon as one call has succeeded, all further calls do.                   *)
(***************************************************************************)
Final(n) ==
  /\ m_topicTypes[n] # None
  /\ types[m_topicTypes[n]] # None
  /\ \A i \in TopicIds : topicName[i] # n
  /\ \A t \in Threads : pc[t] = "create_topic" => name[t] # n

NullptrIsFinal ==
  [][/\ \A t \in Threads, n \in TopicNames :
          mname[t] = n /\ mpc'[t] = "idle" /\ mret'[t] = "nullptr" => Final(n)'
     /\ \A n \in TopicNames : Final(n) => Final(n)']_allVars

-----------------------------------------------------------------------------
(***************************************************************************)
(* The inductive invariant, on top of the one of DomainParticipant: how    *)
(* the position of a thread in the manager restricts the call it is in,    *)
(* and what the answer it is waiting for will imply.                       *)
(***************************************************************************)
ManagerCallInv ==
  /\ m_participant = "set" => stage = "alive"
  /\ m_participant = "gone" => \A t \in Threads : mpc[t] = "idle"
  /\ \A t \in Threads :
       /\ mpc[t] = "assigning" => stage = "alive"
       /\ mpc[t] \in {"registering", "creating"} <=> mname[t] # None
       /\ mname[t] # None => mop[t] # "none" /\ m_topicTypes[mname[t]] # None
       /\ pc[t] # "idle" => mname[t] # None /\ name[t] = mname[t]
       /\ pc[t] # "idle" /\ mpc[t] = "registering" => op[t] = "registerTopic"
       /\ pc[t] # "idle" /\ mpc[t] = "creating" => op[t] \in CreateOps
       /\ obj[t] # None => objType[obj[t]] = m_topicTypes[name[t]]

Exists(n) == \E i \in TopicIds : topicName[i] = n

AnswerInv ==
  \A t \in Threads, n \in TopicNames : n = mname[t] =>
    /\ mpc[t] = "creating" \/ pc[t] = "insert" => Exists(n) \/ Final(n)
    /\ mpc[t] = "registering" /\ pc[t] = "idle" =>
         \/ ret[t] = "true" /\ (Exists(n) \/ Final(n))
         \/ ret[t] = "false" /\ Final(n)
    /\ mpc[t] = "creating" /\ pc[t] = "idle" =>
         ret[t] = "endpoint" \/ (ret[t] = "nullptr" /\ Final(n))

ManagerInv ==
  /\ ManagerTypeOK
  /\ ManagerCallInv
  /\ TopicsHaveCreatorsType
  /\ AnswerInv
=============================================================================
