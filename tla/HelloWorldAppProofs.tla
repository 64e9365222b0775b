-------------------------- MODULE HelloWorldAppProofs --------------------------
(***************************************************************************)
(* The manager uses its DDSDomainParticipant as DomainParticipant allows,  *)
(* so everything proved of that module holds of a manager's participant;   *)
(* and what the manager adds to it.  The example uses the manager as       *)
(* ParticipantManager allows, and, with what is proved of the manager and  *)
(* of the participant, dies only of a refusal by Fast DDS; its input       *)
(* thread never outlives runFlag.                                          *)
(***************************************************************************)
EXTENDS HelloWorldApp, DomainParticipantProofs

-----------------------------------------------------------------------------
\* DDSParticipantManager

\* A step of the manager is a step of its DDSDomainParticipant, or none.
LEMMA ManagerStepIsStep ==
  ASSUME ManagerInv, [ManagerNext]_allVars
  PROVE  [Next]_vars
<1> USE DEF ManagerInv, ManagerTypeOK
<1>1. CASE UNCHANGED allVars
  BY <1>1 DEF allVars
<1>2. ASSUME NEW n \in TopicNames, NEW ty \in TypeNames, addTopicDataTypeCreator(n, ty)
      PROVE  UNCHANGED vars
  BY <1>2 DEF addTopicDataTypeCreator
<1>3. ASSUME fault = "none", NEW t \in Threads, ManagerCall(t)
      PROVE  [Next]_vars
  <2>1. CASE initDomainParticipant(t) \/ Assign(t) \/ Created(t)
    BY <2>1 DEF initDomainParticipant, Assign, Created
  <2>2. CASE MakeShared(t)
    BY <1>3, <2>2 DEF MakeShared, Next
  <2>3. ASSUME NEW n \in TopicNames, CreateUnknown(t, n) \/ CreateTooEarly(t, n)
        PROVE  [Next]_vars
    BY <1>3, <2>3 DEF CreateUnknown, CreateTooEarly, Next, Call
  <2>4. ASSUME NEW o \in CreateOps, NEW n \in TopicNames, Create(t, o, n)
        PROVE  [Next]_vars
    <3>1. m_topicTypes[n] \in TypeNames
      BY <2>4 DEF Create
    <3> QED
      BY <1>3, <2>4, <3>1 DEF Create, Next, Call
  <2>5. CASE Registered(t)
    <3>1. mname[t] \in TopicNames /\ mop[t] \in NameOps
      BY <2>5 DEF Registered, ManagerCallInv, NameOps
    <3> QED
      BY <1>3, <2>5, <3>1 DEF Registered, Next, Call
  <2> QED
    BY <1>3, <2>1, <2>2, <2>3, <2>4, <2>5 DEF ManagerCall
<1>4. ASSUME fault = "none", DestroyManager
      PROVE  [Next]_vars
  BY <1>4 DEF DestroyManager, Next
<1> QED
  BY <1>1, <1>2, <1>3, <1>4 DEF ManagerNext, Inner, Next

\* A topic that the lookup under the lock does not find does not exist.
LEMMA UnmappedIsAbsent ==
  ASSUME IInv, NEW t \in Threads, name[t] \in TopicNames, mapTopics[name[t]] = None,
         pc[t] \in {"find", "register_type", "create_topic"}
  PROVE  ~Exists(name[t])
  BY NoneAssumption, ThreadAssumption
  DEF IInv, LockInv, MapInv, LiveTopic, Exists, TypeOK, DDSTypeOK

\* Only register_type and create_topic have a say in whether a topic exists or
\* is out of reach.
LEMMA FateUnchanged ==
  ASSUME NEW n \in TopicNames, UNCHANGED <<m_topicTypes, types, topicName>>,
         \A u \in Threads : pc'[u] = "create_topic" =>
           pc[u] = "create_topic" /\ name'[u] = name[u]
  PROVE  (Final(n) => Final(n)') /\ (Exists(n) => Exists(n)')
  BY DEF Final, Exists

\* What a thread inside registerTopic under the lock works on.
LEMMA RegisterArguments ==
  ASSUME IInv, ManagerInv, NEW t \in Threads,
         pc[t] \in {"register_type", "create_topic", "insert"}
  PROVE  /\ mname[t] \in TopicNames /\ name[t] = mname[t]
         /\ obj[t] \in TypeObjs /\ m_topicTypes[mname[t]] \in TypeNames
         /\ objType[obj[t]] = m_topicTypes[mname[t]]
         /\ op[t] = "registerTopic" /\ mpc[t] = "registering"
         /\ \A u \in Threads : u # t => pc[u] \in {"idle", "lock"}
  BY DEF IInv, ManagerInv, ManagerTypeOK, ManagerCallInv, TypeOK, DDSTypeOK, CallInv, LockInv,
     CreateOps

\* A creator is added to a name that has no topic and no call in progress.
LEMMA addTopicDataTypeCreatorKeeps ==
  ASSUME IInv, IInv', ManagerInv, NEW n \in TopicNames, NEW ty \in TypeNames,
         addTopicDataTypeCreator(n, ty)
  PROVE  ManagerInv'
<1> USE DEF IInv, ManagerInv
<1> USE DEF addTopicDataTypeCreator, entityVars, typeVars, topicVars, endpointVars,
        lockVars, argVars, managerVars, wrapperVars, vars
<1>1. ManagerTypeOK'
  BY DEF ManagerTypeOK, TypeOK, Results, Idle
<1>2. ManagerCallInv'
  BY NoneAssumption DEF ManagerCallInv, ManagerTypeOK, TypeOK, DDSTypeOK, Idle, CallInv, ObjInv,
     CreateOps
<1>3. TopicsHaveCreatorsType'
  BY NoneAssumption DEF TopicsHaveCreatorsType, LiveTopic, TypeOK, DDSTypeOK, ManagerTypeOK,
         TopicInv
<1>4. AnswerInv'
  BY NoneAssumption DEF AnswerInv, Exists, Final, TypeOK, DDSTypeOK, ManagerTypeOK,
         ManagerCallInv, Idle,
     LockInv
<1> QED
  BY <1>1, <1>2, <1>3, <1>4

\* The call touches nothing but the position of its thread.
LEMMA initDomainParticipantKeeps ==
  ASSUME IInv, IInv', ManagerInv, NEW t \in Threads, initDomainParticipant(t)
  PROVE  ManagerInv'
<1> USE DEF IInv, ManagerInv
<1> USE DEF initDomainParticipant, entityVars, typeVars, topicVars, endpointVars,
        lockVars, argVars, managerVars, wrapperVars, vars
<1>1. ManagerTypeOK'
  BY DEF ManagerTypeOK, TypeOK, Results, Idle
<1>2. ManagerCallInv'
  BY NoneAssumption DEF ManagerCallInv, ManagerTypeOK, TypeOK, DDSTypeOK, Idle, CallInv, ObjInv,
     CreateOps
<1>3. TopicsHaveCreatorsType'
  BY NoneAssumption DEF TopicsHaveCreatorsType, LiveTopic, TypeOK, DDSTypeOK, ManagerTypeOK,
         TopicInv
<1>4. AnswerInv'
  BY NoneAssumption DEF AnswerInv, Exists, Final, TypeOK, DDSTypeOK, ManagerTypeOK,
         ManagerCallInv, Idle,
     LockInv
<1> QED
  BY <1>1, <1>2, <1>3, <1>4

\* A new participant has no topics and no calls.
LEMMA MakeSharedKeeps ==
  ASSUME IInv, IInv', ManagerInv, NEW t \in Threads, MakeShared(t)
  PROVE  ManagerInv'
<1> USE DEF IInv, ManagerInv
<1> USE DEF MakeShared, Construct, entityVars, typeVars, topicVars, endpointVars,
        lockVars, argVars, managerVars, wrapperVars, vars
<1>1. ManagerTypeOK'
  BY DEF ManagerTypeOK, TypeOK, Results, Idle
<1>2. ManagerCallInv'
  BY NoneAssumption DEF ManagerCallInv, ManagerTypeOK, TypeOK, DDSTypeOK, Idle, CallInv, ObjInv,
     CreateOps
<1>3. TopicsHaveCreatorsType'
  BY NoneAssumption DEF TopicsHaveCreatorsType, LiveTopic, TypeOK, DDSTypeOK, ManagerTypeOK,
         TopicInv
<1>4. AnswerInv'
  BY NoneAssumption DEF AnswerInv, Exists, Final, TypeOK, DDSTypeOK, ManagerTypeOK,
         ManagerCallInv, Idle,
     LockInv
<1> QED
  BY <1>1, <1>2, <1>3, <1>4

\* m_participant is set only when the participant has been constructed.
LEMMA AssignKeeps ==
  ASSUME IInv, IInv', ManagerInv, NEW t \in Threads, Assign(t)
  PROVE  ManagerInv'
<1> USE DEF IInv, ManagerInv
<1> USE DEF Assign, entityVars, typeVars, topicVars, endpointVars,
        lockVars, argVars, managerVars, wrapperVars, vars
<1>1. ManagerTypeOK'
  BY DEF ManagerTypeOK, TypeOK, Results, Idle
<1>2. ManagerCallInv'
  BY NoneAssumption DEF ManagerCallInv, ManagerTypeOK, TypeOK, DDSTypeOK, Idle, CallInv, ObjInv,
     CreateOps
<1>3. TopicsHaveCreatorsType'
  BY NoneAssumption DEF TopicsHaveCreatorsType, LiveTopic, TypeOK, DDSTypeOK, ManagerTypeOK,
         TopicInv
<1>4. AnswerInv'
  BY NoneAssumption DEF AnswerInv, Exists, Final, TypeOK, DDSTypeOK, ManagerTypeOK,
         ManagerCallInv, Idle,
     LockInv
<1> QED
  BY <1>1, <1>2, <1>3, <1>4

\* A name without creator is answered with nullptr at once.
LEMMA CreateUnknownKeeps ==
  ASSUME IInv, IInv', ManagerInv, NEW t \in Threads, NEW n \in TopicNames, CreateUnknown(t, n)
  PROVE  ManagerInv'
<1> USE DEF IInv, ManagerInv
<1> USE DEF CreateUnknown, RegisterNullType, entityVars, typeVars, topicVars, endpointVars,
        lockVars, argVars, managerVars, wrapperVars, vars
<1>1. ManagerTypeOK'
  BY DEF ManagerTypeOK, TypeOK, Results, Idle
<1>2. ManagerCallInv'
  BY NoneAssumption DEF ManagerCallInv, ManagerTypeOK, TypeOK, DDSTypeOK, Idle, CallInv, ObjInv,
     CreateOps
<1>3. TopicsHaveCreatorsType'
  BY NoneAssumption DEF TopicsHaveCreatorsType, LiveTopic, TypeOK, DDSTypeOK, ManagerTypeOK,
         TopicInv
<1>4. AnswerInv'
  BY NoneAssumption DEF AnswerInv, Exists, Final, TypeOK, DDSTypeOK, ManagerTypeOK,
         ManagerCallInv, Idle,
     LockInv
<1> QED
  BY <1>1, <1>2, <1>3, <1>4

\* The null shared_ptr ends the program.
LEMMA CreateTooEarlyKeeps ==
  ASSUME IInv, IInv', ManagerInv, NEW t \in Threads, NEW n \in TopicNames, CreateTooEarly(t, n)
  PROVE  ManagerInv'
<1> USE DEF IInv, ManagerInv
<1> USE DEF CreateTooEarly, entityVars, typeVars, topicVars, endpointVars,
        lockVars, argVars, managerVars, wrapperVars, vars
<1>1. ManagerTypeOK'
  BY DEF ManagerTypeOK, TypeOK, Results, Idle
<1>2. ManagerCallInv'
  BY NoneAssumption DEF ManagerCallInv, ManagerTypeOK, TypeOK, DDSTypeOK, Idle, CallInv, ObjInv,
     CreateOps
<1>3. TopicsHaveCreatorsType'
  BY NoneAssumption DEF TopicsHaveCreatorsType, LiveTopic, TypeOK, DDSTypeOK, ManagerTypeOK,
         TopicInv
<1>4. AnswerInv'
  BY NoneAssumption DEF AnswerInv, Exists, Final, TypeOK, DDSTypeOK, ManagerTypeOK,
         ManagerCallInv, Idle,
     LockInv
<1> QED
  BY <1>1, <1>2, <1>3, <1>4

\* registerTopic is called with a fresh object of the creator's type.
LEMMA CreateKeeps ==
  ASSUME IInv, IInv', ManagerInv, NEW t \in Threads, NEW o \in CreateOps, NEW n \in TopicNames,
         Create(t, o, n)
  PROVE  ManagerInv'
<1> USE DEF IInv, ManagerInv
<1> USE DEF Create, CallRegisterTopic, entityVars, typeVars, topicVars, endpointVars,
        lockVars, argVars, managerVars, wrapperVars, vars
<1>1. ManagerTypeOK'
  BY DEF ManagerTypeOK, TypeOK, Results, Idle
<1>2. ManagerCallInv'
  BY NoneAssumption DEF ManagerCallInv, ManagerTypeOK, TypeOK, DDSTypeOK, Idle, CallInv, ObjInv,
     CreateOps
<1>3. TopicsHaveCreatorsType'
  BY NoneAssumption DEF TopicsHaveCreatorsType, LiveTopic, TypeOK, DDSTypeOK, ManagerTypeOK,
         TopicInv
<1>4. AnswerInv'
  BY NoneAssumption DEF AnswerInv, Exists, Final, TypeOK, DDSTypeOK, ManagerTypeOK,
         ManagerCallInv, Idle,
     LockInv
<1> QED
  BY <1>1, <1>2, <1>3, <1>4

\* After true the topic exists or never will; after false it never will.
LEMMA RegisteredKeeps ==
  ASSUME IInv, IInv', ManagerInv, NEW t \in Threads, Registered(t)
  PROVE  ManagerInv'
<1> USE DEF IInv, ManagerInv
<1> USE DEF Registered, CallWithName, ManagerReturn, entityVars, typeVars, topicVars,
        endpointVars, lockVars, argVars, managerVars, wrapperVars, vars
<1>1. ManagerTypeOK'
  BY DEF ManagerTypeOK, TypeOK, Results, Idle
<1>2. ManagerCallInv'
  BY NoneAssumption DEF ManagerCallInv, ManagerTypeOK, TypeOK, DDSTypeOK, Idle, CallInv, ObjInv,
     CreateOps
<1>3. TopicsHaveCreatorsType'
  BY NoneAssumption DEF TopicsHaveCreatorsType, LiveTopic, TypeOK, DDSTypeOK, ManagerTypeOK,
         TopicInv
<1>4. AnswerInv'
  BY NoneAssumption DEF AnswerInv, Exists, Final, TypeOK, DDSTypeOK, ManagerTypeOK,
         ManagerCallInv, Idle,
     LockInv
<1> QED
  BY <1>1, <1>2, <1>3, <1>4

\* The answer of the second call is passed on.
LEMMA CreatedKeeps ==
  ASSUME IInv, IInv', ManagerInv, NEW t \in Threads, Created(t)
  PROVE  ManagerInv'
<1> USE DEF IInv, ManagerInv
<1> USE DEF Created, ManagerReturn, entityVars, typeVars, topicVars, endpointVars,
        lockVars, argVars, managerVars, wrapperVars, vars
<1>1. ManagerTypeOK'
  BY DEF ManagerTypeOK, TypeOK, Results, ManagerCallInv, AnswerInv
<1>2. ManagerCallInv'
  BY NoneAssumption DEF ManagerCallInv, ManagerTypeOK, TypeOK, DDSTypeOK, Idle, CallInv, ObjInv,
     CreateOps
<1>3. TopicsHaveCreatorsType'
  BY NoneAssumption DEF TopicsHaveCreatorsType, LiveTopic, TypeOK, DDSTypeOK, ManagerTypeOK,
         TopicInv
<1>4. AnswerInv'
  BY NoneAssumption DEF AnswerInv, Exists, Final, TypeOK, DDSTypeOK, ManagerTypeOK,
         ManagerCallInv, Idle,
     LockInv
<1> QED
  BY <1>1, <1>2, <1>3, <1>4

\* The manager is destroyed when no call is in progress.
LEMMA DestroyManagerKeeps ==
  ASSUME IInv, IInv', ManagerInv, DestroyManager
  PROVE  ManagerInv'
<1> USE DEF IInv, ManagerInv
<1> USE DEF DestroyManager, Destroy, entityVars, typeVars, topicVars, endpointVars,
        lockVars, argVars, managerVars, wrapperVars, vars
<1>1. ManagerTypeOK'
  BY DEF ManagerTypeOK, TypeOK, Results, Idle
<1>2. ManagerCallInv'
  BY NoneAssumption DEF ManagerCallInv, ManagerTypeOK, TypeOK, DDSTypeOK, Idle, CallInv, ObjInv,
     CreateOps
<1>3. TopicsHaveCreatorsType'
  BY NoneAssumption DEF TopicsHaveCreatorsType, LiveTopic, TypeOK, DDSTypeOK, ManagerTypeOK,
         TopicInv
<1>4. AnswerInv'
  BY NoneAssumption DEF AnswerInv, Exists, Final, TypeOK, DDSTypeOK, ManagerTypeOK,
         ManagerCallInv, Idle,
     LockInv
<1> QED
  BY <1>1, <1>2, <1>3, <1>4

\* Taking the lock changes no answer.
LEMMA AcquireLockKeeps ==
  ASSUME IInv, IInv', ManagerInv, UNCHANGED managerVars,
         NEW t \in Threads, AcquireLock(t)
  PROVE  ManagerInv'
<1> USE DEF IInv, ManagerInv
<1> USE DEF AcquireLock, Goto, entityVars, typeVars, topicVars, endpointVars,
        lockVars, argVars, managerVars, wrapperVars, vars
<1>1. ManagerTypeOK'
  BY DEF ManagerTypeOK, TypeOK, Results, Idle
<1>2. ManagerCallInv'
  BY NoneAssumption DEF ManagerCallInv, ManagerTypeOK, TypeOK, DDSTypeOK, Idle, CallInv, ObjInv,
     CreateOps
<1>3. TopicsHaveCreatorsType'
  BY NoneAssumption DEF TopicsHaveCreatorsType, LiveTopic, TypeOK, DDSTypeOK, ManagerTypeOK,
         TopicInv
<1>4. AnswerInv'
  BY NoneAssumption DEF AnswerInv, Exists, Final, TypeOK, DDSTypeOK, ManagerTypeOK,
         ManagerCallInv, Idle,
     LockInv
<1> QED
  BY <1>1, <1>2, <1>3, <1>4

\* A hit means that the topic exists: registerTopic says true, a creation goes on.
LEMMA FindHitKeeps ==
  ASSUME IInv, IInv', ManagerInv, UNCHANGED managerVars,
         NEW t \in Threads, FindHit(t)
  PROVE  ManagerInv'
<1> USE DEF IInv, ManagerInv
<1> USE DEF FindHit, Return, Goto, DropTypeSupport, entityVars, typeVars, topicVars,
        endpointVars, lockVars, argVars, managerVars, wrapperVars, vars
<1>1. ManagerTypeOK'
  BY DEF ManagerTypeOK, TypeOK, Results, Idle
<1>2. ManagerCallInv'
  BY NoneAssumption DEF ManagerCallInv, ManagerTypeOK, TypeOK, DDSTypeOK, Idle, CallInv, ObjInv,
     CreateOps
<1>3. TopicsHaveCreatorsType'
  BY NoneAssumption DEF TopicsHaveCreatorsType, LiveTopic, TypeOK, DDSTypeOK, ManagerTypeOK,
         TopicInv
<1>4. AnswerInv'
  <2>1. ASSUME NEW n \in TopicNames
        PROVE  (Final(n) => Final(n)') /\ (Exists(n) => Exists(n)')
    BY FateUnchanged DEF TypeOK
  <2>2. /\ name[t] \in TopicNames /\ name[t] = mname[t] /\ Exists(name[t])
        /\ op[t] # "unregisterTopic" /\ (op[t] = "registerTopic" <=> mpc[t] = "registering")
    BY NoneAssumption DEF ManagerTypeOK, ManagerCallInv, CreateOps, CallInv, TypeOK, MapInv,
           LockInv,
       Exists
  <2>3. CASE op[t] = "registerTopic"
    BY <2>1, <2>2, <2>3 DEF AnswerInv, ManagerTypeOK, TypeOK
  <2>4. CASE op[t] # "registerTopic"
    BY <2>1, <2>2, <2>4 DEF AnswerInv, ManagerTypeOK, TypeOK
  <2> QED
    BY <2>3, <2>4
<1> QED
  BY <1>1, <1>2, <1>3, <1>4

\* A creation that misses its topic comes after a create_topic that failed.
LEMMA FindMissKeeps ==
  ASSUME IInv, IInv', ManagerInv, UNCHANGED managerVars,
         NEW t \in Threads, FindMiss(t)
  PROVE  ManagerInv'
<1> USE DEF IInv, ManagerInv
<1> USE DEF FindMiss, Return, Goto, DropTypeSupport, entityVars, typeVars, topicVars,
        endpointVars, lockVars, argVars, managerVars, wrapperVars, vars
<1>1. ManagerTypeOK'
  BY DEF ManagerTypeOK, TypeOK, Results, Idle
<1>2. ManagerCallInv'
  BY NoneAssumption DEF ManagerCallInv, ManagerTypeOK, TypeOK, DDSTypeOK, Idle, CallInv, ObjInv,
     CreateOps
<1>3. TopicsHaveCreatorsType'
  BY NoneAssumption DEF TopicsHaveCreatorsType, LiveTopic, TypeOK, DDSTypeOK, ManagerTypeOK,
         TopicInv
<1>4. AnswerInv'
  <2>1. ASSUME NEW n \in TopicNames
        PROVE  (Final(n) => Final(n)') /\ (Exists(n) => Exists(n)')
    BY FateUnchanged DEF TypeOK
  <2>2. /\ name[t] \in TopicNames /\ name[t] = mname[t] /\ ~Exists(name[t])
        /\ op[t] # "unregisterTopic" /\ (op[t] = "registerTopic" <=> mpc[t] = "registering")
    BY UnmappedIsAbsent
    DEF ManagerTypeOK, ManagerCallInv, CreateOps, CallInv, TypeOK
  <2>3. CASE op[t] = "registerTopic"
    BY <2>1, <2>2, <2>3 DEF AnswerInv, ManagerTypeOK, TypeOK
  <2>4. CASE op[t] # "registerTopic"
    BY <2>1, <2>2, <2>4 DEF AnswerInv, ManagerTypeOK, ManagerCallInv, TypeOK
  <2> QED
    BY <2>3, <2>4
<1> QED
  BY <1>1, <1>2, <1>3, <1>4

\* A refused type is used up, and the lookup has shown that the topic does not exist.
LEMMA RegisterTypeKeeps ==
  ASSUME IInv, IInv', ManagerInv, UNCHANGED managerVars,
         NEW t \in Threads, RegisterType(t)
  PROVE  ManagerInv'
<1> USE DEF IInv, ManagerInv
<1> USE DEF RegisterType, Return, Goto, DropTypeSupport, register_type, entityVars, typeVars,
       topicVars, endpointVars, lockVars, argVars, managerVars, wrapperVars, vars
<1>1. ManagerTypeOK'
  BY DEF ManagerTypeOK, TypeOK, Results, Idle
<1>2. ManagerCallInv'
  BY NoneAssumption DEF ManagerCallInv, ManagerTypeOK, TypeOK, DDSTypeOK, Idle, CallInv, ObjInv,
     CreateOps
<1>3. TopicsHaveCreatorsType'
  BY NoneAssumption DEF TopicsHaveCreatorsType, LiveTopic, TypeOK, DDSTypeOK, ManagerTypeOK,
         TopicInv
<1>4. AnswerInv'
  <2>1. /\ mname[t] \in TopicNames /\ name[t] = mname[t]
        /\ obj[t] \in TypeObjs /\ m_topicTypes[mname[t]] \in TypeNames
        /\ objType[obj[t]] = m_topicTypes[mname[t]]
        /\ op[t] = "registerTopic" /\ mpc[t] = "registering"
        /\ \A u \in Threads : u # t => pc[u] \in {"idle", "lock"}
    BY RegisterArguments
  <2>2. ~Exists(mname[t])
    BY <2>1, UnmappedIsAbsent DEF MapInv
  <2>3. CASE RegisterTypeRefused(obj[t])
    <3>1. ASSUME NEW n \in TopicNames
          PROVE  (Final(n) => Final(n)') /\ (Exists(n) => Exists(n)')
      BY <2>3, FateUnchanged DEF TypeOK
    <3>2. Final(mname[t])
      BY <2>1, <2>2, <2>3, NoneAssumption DEF Final, Exists, RegisterTypeRefused
    <3> QED
      BY <2>1, <2>3, <3>1, <3>2 DEF AnswerInv, ManagerTypeOK, TypeOK
  <2>4. CASE ~RegisterTypeRefused(obj[t])
    <3>1. types[m_topicTypes[mname[t]]] = None
      BY <2>1, <2>4 DEF RegisterTypeRefused, ObjInv, TypeRegistered
    <3>2. types' = [types EXCEPT ![m_topicTypes[mname[t]]] = obj[t]]
          /\ UNCHANGED <<m_topicTypes, topicName, name>>
          /\ pc' = [pc EXCEPT ![t] = "create_topic"]
      BY <2>1, <2>4 DEF RegisterTypeRefused
    <3>3. ASSUME NEW n \in TopicNames
          PROVE  (Final(n) => Final(n)') /\ (Exists(n) => Exists(n)')
      BY <2>1, <3>1, <3>2, NoneAssumption DEF Final, Exists, TypeOK, DDSTypeOK, ManagerTypeOK
    <3> QED
      BY <2>1, <2>4, <3>2, <3>3 DEF AnswerInv, ManagerTypeOK, TypeOK
  <2> QED
    BY <2>3, <2>4
<1> QED
  BY <1>1, <1>2, <1>3, <1>4

\* The new topic has its creator's type; without one, the type is used up.
LEMMA CreateTopicKeeps ==
  ASSUME IInv, IInv', ManagerInv, UNCHANGED managerVars,
         NEW t \in Threads, CreateTopic(t)
  PROVE  ManagerInv'
<1> USE DEF IInv, ManagerInv
<1> USE DEF CreateTopic, Goto, create_topic, entityVars, typeVars, topicVars, endpointVars,
        lockVars, argVars, managerVars, wrapperVars, vars
<1>1. ManagerTypeOK'
  BY DEF ManagerTypeOK, TypeOK, Results, Idle
<1>2. ManagerCallInv'
  BY NoneAssumption DEF ManagerCallInv, ManagerTypeOK, TypeOK, DDSTypeOK, Idle, CallInv, ObjInv,
     CreateOps
<1>0. /\ mname[t] \in TopicNames /\ name[t] = mname[t]
      /\ obj[t] \in TypeObjs /\ m_topicTypes[mname[t]] \in TypeNames
      /\ objType[obj[t]] = m_topicTypes[mname[t]]
      /\ op[t] = "registerTopic" /\ mpc[t] = "registering"
      /\ \A u \in Threads : u # t => pc[u] \in {"idle", "lock"}
  BY RegisterArguments
<1>3. TopicsHaveCreatorsType'
  BY <1>0 DEF TopicsHaveCreatorsType, LiveTopic, TypeOK, DDSTypeOK
<1>4. AnswerInv'
  <2>1. ~Exists(mname[t]) /\ types[m_topicTypes[mname[t]]] # None
    BY <1>0, UnmappedIsAbsent, NoneAssumption
    DEF MapInv, ObjInv, TypeObjectsOwned, TypeRegistered, TypeOK, DDSTypeOK
  <2>2. ASSUME NEW n \in TopicNames
        PROVE  (Final(n) => Final(n)') /\ (Exists(n) => Exists(n)')
    BY <1>0, NoneAssumption DEF Final, Exists, LiveTopic, TypeOK, DDSTypeOK
  <2>3. (Exists(mname[t]) \/ Final(mname[t]))'
    BY <1>0, <2>1, NoneAssumption DEF Final, Exists, TypeOK, DDSTypeOK
  <2> QED
    BY <1>0, <2>2, <2>3 DEF AnswerInv, ManagerTypeOK, TypeOK
<1> QED
  BY <1>1, <1>2, <1>3, <1>4

\* registerTopic says true: the topic exists, or create_topic has failed for good.
LEMMA InsertKeeps ==
  ASSUME IInv, IInv', ManagerInv, UNCHANGED managerVars,
         NEW t \in Threads, Insert(t)
  PROVE  ManagerInv'
<1> USE DEF IInv, ManagerInv
<1> USE DEF Insert, Return, Goto, DropTypeSupport, entityVars, typeVars, topicVars,
        endpointVars, lockVars, argVars, managerVars, wrapperVars, vars
<1>1. ManagerTypeOK'
  BY DEF ManagerTypeOK, TypeOK, Results, Idle
<1>2. ManagerCallInv'
  BY NoneAssumption DEF ManagerCallInv, ManagerTypeOK, TypeOK, DDSTypeOK, Idle, CallInv, ObjInv,
     CreateOps
<1>3. TopicsHaveCreatorsType'
  BY NoneAssumption DEF TopicsHaveCreatorsType, LiveTopic, TypeOK, DDSTypeOK, ManagerTypeOK,
         TopicInv
<1>4. AnswerInv'
  <2>1. ASSUME NEW n \in TopicNames
        PROVE  (Final(n) => Final(n)') /\ (Exists(n) => Exists(n)')
    BY FateUnchanged DEF TypeOK
  <2>2. mname[t] \in TopicNames /\ mpc[t] = "registering"
    BY RegisterArguments
  <2> QED
    BY <2>1, <2>2 DEF AnswerInv, ManagerTypeOK, TypeOK
<1> QED
  BY <1>1, <1>2, <1>3, <1>4

\* The endpoint that is made becomes the answer.
LEMMA CreateEndpointKeeps ==
  ASSUME IInv, IInv', ManagerInv, UNCHANGED managerVars,
         NEW t \in Threads, CreateEndpoint(t)
  PROVE  ManagerInv'
<1> USE DEF IInv, ManagerInv
<1> USE DEF CreateEndpoint, Return, Goto, DropTypeSupport, entityVars, typeVars, topicVars,
        endpointVars, lockVars, argVars, managerVars, wrapperVars, vars
<1>1. ManagerTypeOK'
  BY DEF ManagerTypeOK, TypeOK, Results, Idle
<1>2. ManagerCallInv'
  BY NoneAssumption DEF ManagerCallInv, ManagerTypeOK, TypeOK, DDSTypeOK, Idle, CallInv, ObjInv,
     CreateOps
<1>3. TopicsHaveCreatorsType'
  BY NoneAssumption DEF TopicsHaveCreatorsType, LiveTopic, TypeOK, DDSTypeOK, ManagerTypeOK,
         TopicInv
<1>4. AnswerInv'
  <2>1. ASSUME NEW n \in TopicNames
        PROVE  (Final(n) => Final(n)') /\ (Exists(n) => Exists(n)')
    BY FateUnchanged DEF TypeOK
  <2>2. mpc[t] = "creating" /\ mname[t] \in TopicNames
    BY DEF ManagerTypeOK, ManagerCallInv, CallInv, CreateOps, TypeOK
  <2> QED
    BY <2>1, <2>2 DEF AnswerInv, ManagerTypeOK, TypeOK
<1> QED
  BY <1>1, <1>2, <1>3, <1>4

\* A crash changes nothing but how the program ended.
LEMMA CrashKeeps ==
  ASSUME IInv, IInv', ManagerInv, UNCHANGED managerVars,
         NEW t \in Threads, Crash(t)
  PROVE  ManagerInv'
<1> USE DEF IInv, ManagerInv
<1> USE DEF Crash, entityVars, typeVars, topicVars, endpointVars,
        lockVars, argVars, managerVars, wrapperVars, vars
<1>1. ManagerTypeOK'
  BY DEF ManagerTypeOK, TypeOK, Results, Idle
<1>2. ManagerCallInv'
  BY NoneAssumption DEF ManagerCallInv, ManagerTypeOK, TypeOK, DDSTypeOK, Idle, CallInv, ObjInv,
     CreateOps
<1>3. TopicsHaveCreatorsType'
  BY NoneAssumption DEF TopicsHaveCreatorsType, LiveTopic, TypeOK, DDSTypeOK, ManagerTypeOK,
         TopicInv
<1>4. AnswerInv'
  BY NoneAssumption DEF AnswerInv, Exists, Final, TypeOK, DDSTypeOK, ManagerTypeOK,
         ManagerCallInv, Idle,
     LockInv
<1> QED
  BY <1>1, <1>2, <1>3, <1>4

\* Endpoints touch neither topics nor types nor answers.
LEMMA EndpointKeeps ==
  ASSUME IInv, IInv', ManagerInv, UNCHANGED managerVars,
         NEW e \in Endpoints, CloseEndpoint(e) \/ WriteToNull(e)
  PROVE  ManagerInv'
<1> USE DEF IInv, ManagerInv
<1> USE DEF CloseEndpoint, WriteToNull, entityVars, typeVars, topicVars, endpointVars,
        lockVars, argVars, managerVars, wrapperVars, vars
<1>1. ManagerTypeOK'
  BY DEF ManagerTypeOK, TypeOK, Results, Idle
<1>2. ManagerCallInv'
  BY NoneAssumption DEF ManagerCallInv, ManagerTypeOK, TypeOK, DDSTypeOK, Idle, CallInv, ObjInv,
     CreateOps
<1>3. TopicsHaveCreatorsType'
  BY NoneAssumption DEF TopicsHaveCreatorsType, LiveTopic, TypeOK, DDSTypeOK, ManagerTypeOK,
         TopicInv
<1>4. AnswerInv'
  BY NoneAssumption DEF AnswerInv, Exists, Final, TypeOK, DDSTypeOK, ManagerTypeOK,
         ManagerCallInv, Idle,
     LockInv
<1> QED
  BY <1>1, <1>2, <1>3, <1>4

\* The manager has no way to unregister a topic.
LEMMA NeverUnregisters ==
  ASSUME IInv, ManagerInv, NEW t \in Threads
  PROVE  ~DeleteTopic(t) /\ ~Erase(t)
  BY DEF IInv, ManagerInv, ManagerTypeOK, ManagerCallInv, CallInv, TypeOK, CreateOps,
     DeleteTopic, Erase

\* Initially there are no creators, no topics and no calls.
LEMMA ManagerInitInv == ManagerInit => IInv /\ ManagerInv
<1> SUFFICES ASSUME ManagerInit PROVE IInv /\ ManagerInv
  OBVIOUS
<1>1. IInv
  BY InitIInv DEF ManagerInit
<1>2. ManagerTypeOK
  BY <1>1 DEF ManagerInit, ManagerTypeOK, Results, IInv
<1>3. ManagerCallInv /\ AnswerInv /\ TopicsHaveCreatorsType
  BY DEF ManagerInit, Init, DDSInit, ManagerCallInv, AnswerInv, TopicsHaveCreatorsType,
         LiveTopic
<1> QED
  BY <1>1, <1>2, <1>3 DEF ManagerInv

\* The lemmas above, put together; no call of the manager unregisters a topic.
LEMMA ManagerNextKeeps ==
  ASSUME IInv, ManagerInv, [ManagerNext]_allVars
  PROVE  IInv' /\ ManagerInv'
<1>1. IInv'
  BY ManagerStepIsStep, NextStep
<1>2. CASE UNCHANGED allVars
  BY <1>1, <1>2
  DEF allVars, vars, managerVars, entityVars, typeVars, topicVars, endpointVars, wrapperVars,
      ManagerInv, ManagerTypeOK, IInv, ManagerCallInv, TopicsHaveCreatorsType, LiveTopic,
      AnswerInv, Exists, Final
<1>3. ASSUME NEW t \in Threads, ManagerCall(t)
      PROVE  ManagerInv'
  BY <1>1, <1>3, initDomainParticipantKeeps, MakeSharedKeeps, AssignKeeps, CreateUnknownKeeps,
     CreateTooEarlyKeeps, CreateKeeps, RegisteredKeeps, CreatedKeeps DEF ManagerCall
<1>4. CASE Inner
  <2>0. UNCHANGED managerVars
    BY <1>4 DEF Inner
  <2>1. ASSUME NEW t \in Threads, AcquireLock(t) \/ Critical(t)
        PROVE  ManagerInv'
    <3>1. CASE AcquireLock(t) \/ FindHit(t) \/ FindMiss(t)
      BY <1>1, <2>0, <3>1, AcquireLockKeeps, FindHitKeeps, FindMissKeeps
    <3>2. CASE RegisterType(t) \/ CreateTopic(t) \/ Insert(t)
      BY <1>1, <2>0, <3>2, RegisterTypeKeeps, CreateTopicKeeps, InsertKeeps
    <3>3. CASE CreateEndpoint(t) \/ Crash(t)
      BY <1>1, <2>0, <3>3, CreateEndpointKeeps, CrashKeeps
    <3> QED
      BY <2>1, <3>1, <3>2, <3>3, NeverUnregisters DEF Critical
  <2>2. ASSUME NEW e \in Endpoints, CloseEndpoint(e) \/ WriteToNull(e)
        PROVE  ManagerInv'
    BY <1>1, <2>0, <2>2, EndpointKeeps
  <2> QED
    BY <1>1, <1>4, <2>1, <2>2 DEF Inner
<1> QED
  BY <1>1, <1>2, <1>3, <1>4, addTopicDataTypeCreatorKeeps, DestroyManagerKeeps DEF ManagerNext

-----------------------------------------------------------------------------
(***************************************************************************)
(* The invariants of the participant and of the manager hold together, for *)
(* any number of threads, names, types, addresses and endpoints.           *)
(***************************************************************************)
THEOREM ManagerInvariance == ManagerSpec => [](IInv /\ ManagerInv)
<1>1. IInv /\ ManagerInv /\ [ManagerNext]_allVars => (IInv /\ ManagerInv)'
  BY ManagerNextKeeps
<1> QED
  BY <1>1, ManagerInitInv, PTL DEF ManagerSpec

(***************************************************************************)
(* The manager is one of the clients DomainParticipant allows: what is     *)
(* proved of that specification holds of a manager's participant.          *)
(***************************************************************************)
THEOREM ManagerIsClient == ManagerSpec => Spec
<1>1. ManagerInit => Init
  BY DEF ManagerInit
<1>2. ManagerInv /\ [ManagerNext]_allVars => [Next]_vars
  BY ManagerStepIsStep
<1> QED
  BY <1>1, <1>2, ManagerInvariance, PTL DEF ManagerSpec, Spec

\* Every topic has the type of its name's creator, in every reachable state.
THEOREM CreatorsTypeKept == ManagerSpec => []TopicsHaveCreatorsType
<1>1. ManagerInv => TopicsHaveCreatorsType
  BY DEF ManagerInv
<1> QED
  BY <1>1, ManagerInvariance, PTL

\* No step of the manager brings a topic back that is out of reach.
LEMMA FinalStep ==
  ASSUME IInv, ManagerInv, [ManagerNext]_allVars, NEW n \in TopicNames, Final(n)
  PROVE  Final(n)'
<1> USE DEF entityVars, typeVars, topicVars, endpointVars, lockVars, argVars, managerVars,
        wrapperVars, vars
<1>1. CASE UNCHANGED allVars
  BY <1>1 DEF allVars, Final
<1>2. ASSUME NEW m \in TopicNames, NEW ty \in TypeNames, addTopicDataTypeCreator(m, ty)
      PROVE  Final(n)'
  BY <1>2 DEF addTopicDataTypeCreator, Final, ManagerInv, ManagerTypeOK
<1>3. ASSUME NEW t \in Threads, ManagerCall(t)
      PROVE  Final(n)'
  <2>1. CASE initDomainParticipant(t) \/ MakeShared(t) \/ Assign(t) \/ Registered(t) \/ Created(t)
    BY <2>1, FateUnchanged
    DEF initDomainParticipant, MakeShared, Construct, Assign, Registered, CallWithName, Created,
        IInv, TypeOK
  <2>2. ASSUME NEW m \in TopicNames, CreateUnknown(t, m) \/ CreateTooEarly(t, m)
        PROVE  Final(n)'
    BY <2>2, FateUnchanged DEF CreateUnknown, RegisterNullType, CreateTooEarly
  <2>3. ASSUME NEW o \in CreateOps, NEW m \in TopicNames, Create(t, o, m)
        PROVE  Final(n)'
    BY <2>3, FateUnchanged DEF Create, CallRegisterTopic, IInv, TypeOK
  <2> QED
    BY <1>3, <2>1, <2>2, <2>3 DEF ManagerCall
<1>4. CASE DestroyManager
  BY <1>4, FateUnchanged DEF DestroyManager, Destroy
<1>5. ASSUME Inner, NEW t \in Threads, AcquireLock(t) \/ Critical(t)
      PROVE  Final(n)'
  <2>1. CASE AcquireLock(t) \/ FindHit(t) \/ FindMiss(t) \/ Insert(t) \/ CreateEndpoint(t) \/ Crash(t)
    BY <1>5, <2>1, FateUnchanged
    DEF Inner, AcquireLock, FindHit, FindMiss, Insert, CreateEndpoint, Crash, Return, Goto,
        IInv, TypeOK
  <2>2. CASE RegisterType(t)
    <3>1. /\ name[t] = mname[t] /\ obj[t] \in TypeObjs
          /\ objType[obj[t]] = m_topicTypes[mname[t]] /\ objType[obj[t]] \in TypeNames
      BY <2>2, RegisterArguments DEF RegisterType
    <3>2. CASE RegisterTypeRefused(obj[t])
      BY <1>5, <2>2, <3>2, FateUnchanged DEF Inner, RegisterType, Return, Goto, IInv, TypeOK
    <3>3. CASE ~RegisterTypeRefused(obj[t])
      <4>1. types[objType[obj[t]]] = None
        BY <2>2, <3>1, <3>3
        DEF RegisterType, RegisterTypeRefused, IInv, ObjInv, TypeRegistered
      <4>2. name[t] # n
        BY <3>1, <4>1 DEF Final
      <4>3. /\ types' = [types EXCEPT ![objType[obj[t]]] = obj[t]]
            /\ pc' = [pc EXCEPT ![t] = "create_topic"]
            /\ UNCHANGED <<topicName, m_topicTypes, name>>
        BY <1>5, <2>2, <3>1, <3>3
        DEF Inner, RegisterType, RegisterTypeRefused, register_type, Goto
      <4> QED
        BY <3>1, <4>2, <4>3, NoneAssumption
        DEF Final, IInv, TypeOK, DDSTypeOK, ManagerInv, ManagerTypeOK
    <3> QED
      BY <3>2, <3>3
  <2>3. CASE CreateTopic(t)
    BY <1>5, <2>3, NoneAssumption
    DEF Inner, CreateTopic, create_topic, Goto, Final, IInv, TypeOK, DDSTypeOK
  <2> QED
    BY <1>5, <2>1, <2>2, <2>3, NeverUnregisters DEF Critical
<1>6. ASSUME Inner, NEW e \in Endpoints, CloseEndpoint(e) \/ WriteToNull(e)
      PROVE  Final(n)'
  BY <1>6, FateUnchanged DEF Inner, CloseEndpoint, WriteToNull
<1> QED
  BY <1>1, <1>2, <1>3, <1>4, <1>5, <1>6 DEF ManagerNext, Inner

\* Only Registered and Created return from a call, and ManagerInv knows why.
LEMMA NullptrStep ==
  ASSUME IInv, ManagerInv, [ManagerNext]_allVars,
         NEW t \in Threads, NEW n \in TopicNames,
         mname[t] = n, mpc'[t] = "idle", mret'[t] = "nullptr"
  PROVE  Final(n)
<1>1. mpc[t] \in {"registering", "creating"}
  BY NoneAssumption DEF ManagerInv, ManagerCallInv
<1>2. Registered(t) \/ Created(t)
  <2>1. ASSUME NEW u \in Threads, ManagerCall(u), u # t
        PROVE  mpc'[t] = mpc[t]
    BY <2>1
    DEF ManagerCall, initDomainParticipant, MakeShared, Assign, CreateUnknown, CreateTooEarly,
        Create, Registered, Created, ManagerReturn, ManagerInv, ManagerTypeOK
  <2>2. ASSUME ManagerCall(t)
        PROVE  Registered(t) \/ Created(t)
    BY <1>1, <2>2
    DEF ManagerCall, initDomainParticipant, MakeShared, Assign, CreateUnknown, CreateTooEarly,
        Create, Idle
  <2> QED
    BY <1>1, <2>1, <2>2
    DEF ManagerNext, allVars, managerVars, addTopicDataTypeCreator, Inner, DestroyManager
<1> QED
  BY <1>1, <1>2
  DEF Registered, Created, ManagerReturn, ManagerInv, ManagerTypeOK, AnswerInv

\* A nullptr for a topic that has a creator is final.
THEOREM NullptrFinal == ManagerSpec => NullptrIsFinal
<1>1. ASSUME IInv, ManagerInv, [ManagerNext]_allVars
      PROVE  [/\ \A t \in Threads, n \in TopicNames :
                   mname[t] = n /\ mpc'[t] = "idle" /\ mret'[t] = "nullptr" => Final(n)'
              /\ \A n \in TopicNames : Final(n) => Final(n)']_allVars
  BY <1>1, NullptrStep, FinalStep
<1> QED
  BY <1>1, ManagerInvariance, PTL DEF ManagerSpec, NullptrIsFinal
-----------------------------------------------------------------------------
\* The example application

\* Where main can be in either role, and that its frame and manager live there.
ControlInv ==
  /\ apc \notin {"start", "exited"} => role # "none" /\ frame
  /\ apc # "exited" => m_participant # "gone"
  /\ apc = "start" => role = "none"
  /\ apc \in {"spawn", "test", "write"} => role = "pub"
  /\ apc = "read" => role = "sub"

\* runFlag is set exactly while the detached thread may still clear it, and main
\* is in the loop as long; one message at most is on its way when it is cleared.
FlagInv ==
  /\ input # "none" => apc \in {"test", "write", "read", "leave", "exited"}
  /\ runFlag => role = "pub" /\ input \in {"reading", "newline"}
  /\ role = "pub" /\ input \in {"reading", "newline"} => runFlag /\ apc \in {"test", "write"}
  /\ late # 0 => ~runFlag /\ apc \in {"test", "leave", "exited"}
  /\ late \in {0, 1}

\* By the time main needs them, there is a creator and a participant.
SetupInv ==
  /\ role # "none" /\ apc # "creator_one" => m_topicTypes[TopicOne] = TypeOne
  /\ endpoint # None => role # "none" /\ apc \notin {"start", "creator_one"}
  /\ apc = "create" => mpc[main] \in {"constructing", "assigning"} \/ m_participant = "set"
  /\ ~mfault

\* Nothing inside the participant runs, or fails, before it is assigned.
ReadyInv ==
  /\ apc \in {"assign", "spawn", "test", "write", "read", "leave"} => m_participant = "set"
  /\ mname[main] # None => m_participant = "set"
  /\ fault # "none" => m_participant = "set"

\* What the answer of createDataWriter or createDataReader stands for.
HandleInv ==
  /\ ret[main] = "endpoint" \/ mret[main] = "endpoint" =>
       \E e \in Endpoints : epKind[e] # "none"
  /\ apc = "assign" =>
       \/ mpc[main] \in {"registering", "creating"} /\ mname[main] = TopicOne
       \/ mpc[main] = "idle" /\ mret[main] = "endpoint"
       \/ mpc[main] = "idle" /\ mret[main] = "nullptr" /\ Final(TopicOne)
  /\ endpoint = Null => Final(TopicOne)
  /\ nullThis => endpoint = Null

AppInv == AppTypeOK /\ ControlInv /\ FlagInv /\ SetupInv /\ ReadyInv /\ HandleInv

\* Initially.
LEMMA AppInitInv == AppInit => AppInv
<1> SUFFICES ASSUME AppInit PROVE AppInv
  OBVIOUS
<1> USE DEF AppInit, ManagerInit, Init
<1>1. AppTypeOK
  BY DEF AppTypeOK
<1>2. ControlInv /\ FlagInv
  BY DEF ControlInv, FlagInv
<1>3. SetupInv
  BY DEF SetupInv
<1>4. HandleInv
  BY AppAssumption, ThreadAssumption DEF HandleInv
<1>5. ReadyInv
  BY AppAssumption DEF ReadyInv
<1> QED
  BY <1>1, <1>2, <1>3, <1>4, <1>5 DEF AppInv

\* A step of the example is a step of its manager, or none.
LEMMA AppStepIsStep ==
  ASSUME [AppNext]_helloVars
  PROVE  [ManagerNext]_allVars
<1> USE AppAssumption
<1>1. CASE UNCHANGED helloVars
  BY <1>1 DEF helloVars
<1>2. CASE \/ Start \/ StoreEndpoint \/ SpawnInputThread \/ TestFlag \/ ReaderLoopEnds
           \/ ReadInput \/ ClearFlag
  BY <1>2 DEF Start, StoreEndpoint, SpawnInputThread, TestFlag, ReaderLoopEnds, ReadInput,
              ClearFlag
<1>3. CASE Running /\ TestHandlerCreators
  BY <1>3 DEF TestHandlerCreators, Running, ManagerNext
<1>4. CASE Running /\ (CallInit \/ CallCreate)
  BY <1>4 DEF CallInit, CallCreate, Running, ManagerNext, ManagerCall, CreateOps
<1>5. CASE Running /\ WriteMessage
  BY <1>5 DEF WriteMessage, Running, ManagerNext, Inner
<1>6. CASE Running /\ Leave
  BY <1>6 DEF Leave, Running, ManagerNext
<1>7. CASE Running /\ InsideCall
  BY <1>7 DEF InsideCall, Running, ManagerNext, ManagerCall, Inner
<1> QED
  BY <1>1, <1>2, <1>3, <1>4, <1>5, <1>6, <1>7 DEF AppNext, Main

\* A step inside a call: what it leaves alone, and what its answer implies.
LEMMA InsideFrame ==
  ASSUME IInv, ManagerInv, InsideCall
  PROVE  /\ UNCHANGED <<appVars, m_topicTypes, mfault>>
         /\ m_participant' # m_participant => m_participant' = "set"
         /\ mpc[main] = "constructing" => mpc'[main] \in {"constructing", "assigning"}
         /\ mpc[main] = "assigning" => mpc'[main] = "assigning" \/ m_participant' = "set"
         /\ (\E e \in Endpoints : epKind[e] # "none") => \E e \in Endpoints : epKind'[e] # "none"
         /\ ret'[main] = "endpoint" =>
              ret[main] = "endpoint" \/ \E e \in Endpoints : epKind'[e] # "none"
         /\ mret'[main] = "endpoint" => mret[main] = "endpoint" \/ ret[main] = "endpoint"
<1> USE AppAssumption DEF IInv, ManagerInv, ManagerTypeOK, TypeOK, DDSTypeOK, managerVars,
        endpointVars, typeVars, topicVars, entityVars, lockVars, argVars, vars, wrapperVars
<1>1. CASE MakeShared(main) /\ UNCHANGED appVars
  BY <1>1 DEF MakeShared, Construct
<1>2. CASE Assign(main) /\ UNCHANGED appVars
  BY <1>2 DEF Assign
<1>3. CASE Registered(main) /\ UNCHANGED appVars
  BY <1>3 DEF Registered, CallWithName, ManagerReturn
<1>4. CASE Created(main) /\ UNCHANGED appVars
  BY <1>4 DEF Created, ManagerReturn
<1>5. CASE AcquireLock(main) /\ UNCHANGED <<managerVars, appVars>>
  BY <1>5 DEF AcquireLock, Goto
<1>6. CASE CreateEndpoint(main) /\ UNCHANGED <<managerVars, appVars>>
  <2>1. \E e \in Endpoints : epKind'[e] # "none"
    BY <1>6 DEF CreateEndpoint, EndpointKind
  <2> QED
    BY <1>6, <2>1
<1>7. CASE /\ \/ FindHit(main) \/ FindMiss(main) \/ RegisterType(main) \/ CreateTopic(main)
              \/ Insert(main) \/ DeleteTopic(main) \/ Erase(main) \/ Crash(main)
           /\ UNCHANGED <<managerVars, appVars>>
  <2>1. UNCHANGED endpointVars /\ (ret'[main] = "endpoint" => ret[main] = "endpoint")
    BY <1>7 DEF FindHit, FindMiss, RegisterType, CreateTopic, Insert, DeleteTopic, Erase, Crash,
                Return, Goto
  <2> QED
    BY <1>7, <2>1
<1> QED
  BY <1>1, <1>2, <1>3, <1>4, <1>5, <1>6, <1>7 DEF InsideCall, Critical

\* A step of the example keeps main's control and the flag.
LEMMA LoopStep ==
  ASSUME IInv, ManagerInv, AppInv, AppNext
  PROVE  ControlInv' /\ FlagInv'
<1> USE AppAssumption DEF AppInv, AppTypeOK, ControlInv, FlagInv
<1>1. CASE Start
  BY <1>1 DEF Start, At, allVars, managerVars
<1>2. CASE TestHandlerCreators
  BY <1>2 DEF TestHandlerCreators, At, addTopicDataTypeCreator
<1>3. CASE CallInit
  BY <1>3 DEF CallInit, At, initDomainParticipant
<1>4. CASE CallCreate
  BY <1>4 DEF CallCreate, At, Create, CreateTooEarly, CreateUnknown
<1>5. CASE StoreEndpoint
  BY <1>5 DEF StoreEndpoint, At, allVars, managerVars
<1>6. CASE SpawnInputThread
  BY <1>6 DEF SpawnInputThread, At, allVars, managerVars
<1>7. CASE TestFlag
  BY <1>7 DEF TestFlag, At, allVars, managerVars
<1>8. CASE WriteMessage
  <2>1. UNCHANGED <<role, endpoint, frame, runFlag, input, m_participant>>
    BY <1>8 DEF WriteMessage, allVars, managerVars
  <2>2. apc = "write" /\ late = 0
    BY <1>8 DEF WriteMessage
  <2>3. CASE UNCHANGED <<apc, late>>
    BY <2>1, <2>2, <2>3
  <2>4. CASE apc' = "test" /\ late' = IF runFlag THEN 0 ELSE late + 1
    BY <2>1, <2>2, <2>4
  <2> QED
    BY <1>8, <2>3, <2>4 DEF WriteMessage
<1>9. CASE ReadInput
  BY <1>9 DEF ReadInput, mainVars, allVars, managerVars
<1>10. CASE ClearFlag
  BY <1>10 DEF ClearFlag, allVars, managerVars
<1>11. CASE ReaderLoopEnds
  BY <1>11 DEF ReaderLoopEnds, At, allVars, managerVars
<1>12. CASE Leave
  BY <1>12 DEF Leave, At, DestroyManager
<1>13. CASE InsideCall
  BY <1>13, InsideFrame DEF appVars, mainVars
<1> QED
  BY <1>1, <1>2, <1>3, <1>4, <1>5, <1>6, <1>7, <1>8, <1>9, <1>10, <1>11, <1>12, <1>13
  DEF AppNext, Main

\* It keeps what main has set up.
LEMMA SetupStep ==
  ASSUME IInv, ManagerInv, AppInv, AppNext
  PROVE  SetupInv'
<1> USE AppAssumption, NoneAssumption
    DEF AppInv, AppTypeOK, SetupInv, ControlInv, ManagerInv, ManagerTypeOK
<1>1. CASE Start
  BY <1>1 DEF Start, At, allVars, managerVars
<1>2. CASE TestHandlerCreators
  BY <1>2 DEF TestHandlerCreators, At, addTopicDataTypeCreator
<1>3. CASE CallInit
  BY <1>3 DEF CallInit, At, initDomainParticipant
<1>4. CASE CallCreate
  <2>1. m_topicTypes[TopicOne] # None
    BY <1>4 DEF CallCreate, At
  <2>2. ~CreateTooEarly(main, TopicOne)
    BY <1>4 DEF CallCreate, At, CreateTooEarly, Idle
  <2> QED
    BY <1>4, <2>1, <2>2 DEF CallCreate, At, Create, CreateUnknown
<1>5. CASE StoreEndpoint
  BY <1>5 DEF StoreEndpoint, At, allVars, managerVars
<1>6. CASE SpawnInputThread
  BY <1>6 DEF SpawnInputThread, At, allVars, managerVars
<1>7. CASE TestFlag
  BY <1>7 DEF TestFlag, At, allVars, managerVars
<1>8. CASE WriteMessage
  BY <1>8 DEF WriteMessage, allVars, managerVars
<1>9. CASE ReadInput
  BY <1>9 DEF ReadInput, mainVars, allVars, managerVars
<1>10. CASE ClearFlag
  BY <1>10 DEF ClearFlag, allVars, managerVars
<1>11. CASE ReaderLoopEnds
  BY <1>11 DEF ReaderLoopEnds, At, allVars, managerVars
<1>12. CASE Leave
  BY <1>12 DEF Leave, At, DestroyManager
<1>13. CASE InsideCall
  BY <1>13, InsideFrame DEF appVars, mainVars
<1> QED
  BY <1>1, <1>2, <1>3, <1>4, <1>5, <1>6, <1>7, <1>8, <1>9, <1>10, <1>11, <1>12, <1>13
  DEF AppNext, Main

\* It keeps the participant as long as it may be used.
LEMMA ReadyStep ==
  ASSUME IInv, ManagerInv, AppInv, AppNext
  PROVE  ReadyInv'
<1> USE AppAssumption, NoneAssumption
    DEF AppInv, AppTypeOK, SetupInv, ControlInv, ReadyInv, ManagerInv, ManagerTypeOK
<1>1. fault = "none"
  BY DEF AppNext, Running
<1>2. CASE \/ Start \/ StoreEndpoint \/ SpawnInputThread \/ TestFlag \/ ReaderLoopEnds
           \/ ReadInput \/ ClearFlag
  <2>1. UNCHANGED <<m_participant, mname, fault>>
    BY <1>2 DEF Start, StoreEndpoint, SpawnInputThread, TestFlag, ReaderLoopEnds, ReadInput,
                ClearFlag, allVars, vars, wrapperVars, managerVars
  <2>2. apc' \in {"assign", "spawn", "test", "write", "read", "leave"} =>
          apc \in {"assign", "spawn", "test", "write", "read", "leave"}
    BY <1>2 DEF Start, StoreEndpoint, SpawnInputThread, TestFlag, ReaderLoopEnds, ReadInput,
                ClearFlag, At, mainVars
  <2> QED
    BY <2>1, <2>2
<1>3. CASE TestHandlerCreators
  BY <1>1, <1>3 DEF TestHandlerCreators, At, addTopicDataTypeCreator, vars, wrapperVars
<1>4. CASE CallInit
  BY <1>1, <1>4 DEF CallInit, At, initDomainParticipant, vars, wrapperVars
<1>5. CASE CallCreate
  <2>1. m_topicTypes[TopicOne] # None
    BY <1>5 DEF CallCreate, At
  <2>2. ~CreateTooEarly(main, TopicOne)
    BY <1>5 DEF CallCreate, At, CreateTooEarly, Idle
  <2>3. \E o \in CreateOps : Create(main, o, TopicOne)
    BY <1>5, <2>1, <2>2 DEF CallCreate, CreateUnknown, CreateOps
  <2>4. m_participant = "set" /\ UNCHANGED <<m_participant, fault>>
    BY <2>3 DEF Create, CallRegisterTopic
  <2> QED
    BY <2>4
<1>6. CASE WriteMessage
  <2>1. m_participant = "set" /\ UNCHANGED m_participant
    BY <1>6 DEF WriteMessage, allVars, managerVars
  <2> QED
    BY <2>1
<1>7. CASE Leave
  <2>1. apc' = "exited" /\ UNCHANGED <<mname, fault>> /\ mpc[main] = "idle"
    BY <1>7 DEF Leave, At, DestroyManager, Destroy, Idle, vars, wrapperVars
  <2>2. mname[main] = None
    BY <2>1 DEF ManagerCallInv
  <2> QED
    BY <1>1, <2>1, <2>2
<1>8. CASE InsideCall
  <2>1. UNCHANGED apc
    BY <1>8 DEF InsideCall, appVars, mainVars
  <2>2. CASE MakeShared(main)
    BY <1>1, <2>1, <2>2 DEF MakeShared, Construct
  <2>3. CASE Assign(main)
    BY <1>1, <2>1, <2>3 DEF Assign, vars, wrapperVars
  <2>4. CASE Registered(main) \/ Created(main)
    <3>1. mname[main] # None /\ UNCHANGED m_participant
      BY <2>4 DEF Registered, Created, ManagerCallInv
    <3> QED
      BY <3>1
  <2>5. CASE (AcquireLock(main) \/ Critical(main)) /\ UNCHANGED managerVars
    <3>1. pc[main] # "idle"
      BY <2>5 DEF AcquireLock, Critical, FindHit, FindMiss, RegisterType, CreateTopic, Insert,
                  CreateEndpoint, DeleteTopic, Erase, Crash, Derefs
    <3>2. mname[main] # None /\ UNCHANGED m_participant
      BY <2>5, <3>1 DEF ManagerCallInv, managerVars
    <3> QED
      BY <3>2
  <2> QED
    BY <1>8, <2>2, <2>3, <2>4, <2>5 DEF InsideCall
<1> QED
  BY <1>2, <1>3, <1>4, <1>5, <1>6, <1>7, <1>8 DEF AppNext, Main

\* A step outside the calls leaves their answers and the endpoints alone.
LEMMA OutsideFrame ==
  ASSUME IInv, ManagerInv, AppInv, AppNext, ~InsideCall
  PROVE  /\ UNCHANGED epKind
         /\ ret'[main] = "endpoint" => ret[main] = "endpoint"
         /\ mret'[main] = "endpoint" => mret[main] = "endpoint"
<1> USE AppAssumption DEF IInv, ManagerInv, ManagerTypeOK, TypeOK, DDSTypeOK, managerVars,
        endpointVars, allVars, vars, wrapperVars
<1>1. CASE \/ Start \/ StoreEndpoint \/ SpawnInputThread \/ TestFlag \/ ReaderLoopEnds
           \/ ReadInput \/ ClearFlag
  BY <1>1 DEF Start, StoreEndpoint, SpawnInputThread, TestFlag, ReaderLoopEnds, ReadInput,
              ClearFlag
<1>2. CASE TestHandlerCreators
  BY <1>2 DEF TestHandlerCreators, addTopicDataTypeCreator
<1>3. CASE CallInit
  BY <1>3 DEF CallInit, initDomainParticipant
<1>4. CASE CallCreate
  BY <1>4 DEF CallCreate, Create, CreateTooEarly, CreateUnknown, CallRegisterTopic,
              RegisterNullType
<1>5. CASE WriteMessage
  BY <1>5 DEF WriteMessage, WriteToNull
<1>6. CASE Leave
  BY <1>6 DEF Leave, DestroyManager, Destroy
<1> QED
  BY <1>1, <1>2, <1>3, <1>4, <1>5, <1>6 DEF AppNext, Main

\* While the answer is awaited: the call goes on, or returns what it stands for.
LEMMA AwaitStep ==
  ASSUME IInv, ManagerInv, AppInv, InsideCall, apc = "assign", Final(TopicOne) => Final(TopicOne)'
  PROVE  \/ mpc'[main] \in {"registering", "creating"} /\ mname'[main] = TopicOne
         \/ mpc'[main] = "idle" /\ mret'[main] = "endpoint"
         \/ mpc'[main] = "idle" /\ mret'[main] = "nullptr" /\ Final(TopicOne)'
<1> USE AppAssumption DEF AppInv, HandleInv, ManagerInv, ManagerTypeOK
<1>1. CASE MakeShared(main) \/ Assign(main)
  BY <1>1 DEF MakeShared, Assign
<1>2. CASE Registered(main)
  <2>1. mname[main] = TopicOne
    BY <1>2 DEF Registered
  <2>2. ret[main] = "false" => Final(TopicOne)
    BY <1>2, <2>1 DEF Registered, AnswerInv
  <2> QED
    BY <1>2, <2>1, <2>2 DEF Registered, ManagerReturn
<1>3. CASE Created(main)
  <2>1. mname[main] = TopicOne
    BY <1>3 DEF Created
  <2>2. ret[main] = "endpoint" \/ (ret[main] = "nullptr" /\ Final(TopicOne))
    BY <1>3, <2>1 DEF Created, AnswerInv
  <2> QED
    BY <1>3, <2>1, <2>2 DEF Created, ManagerReturn
<1>4. CASE UNCHANGED managerVars
  BY <1>4 DEF managerVars
<1> QED
  BY <1>1, <1>2, <1>3, <1>4 DEF InsideCall

\* A step of the example keeps what the endpoint pointer stands for.
LEMMA HandleStep ==
  ASSUME IInv, ManagerInv, AppInv, AppNext
  PROVE  HandleInv'
<1> USE AppAssumption, ThreadAssumption, NoneAssumption
<1>1. Final(TopicOne) => Final(TopicOne)'
  BY AppStepIsStep, FinalStep
<1>2. ret'[main] = "endpoint" \/ mret'[main] = "endpoint" =>
        \E e \in Endpoints : epKind'[e] # "none"
  BY InsideFrame, OutsideFrame DEF AppInv, HandleInv
<1>3. apc' = "assign" =>
       \/ mpc'[main] \in {"registering", "creating"} /\ mname'[main] = TopicOne
       \/ mpc'[main] = "idle" /\ mret'[main] = "endpoint"
       \/ mpc'[main] = "idle" /\ mret'[main] = "nullptr" /\ Final(TopicOne)'
  <2>1. CASE InsideCall
    <3>1. apc' = apc
      BY <2>1 DEF InsideCall, appVars, mainVars
    <3> QED
      BY <1>1, <2>1, <3>1, AwaitStep
  <2>2. CASE CallCreate
    <3>1. m_topicTypes[TopicOne] # None /\ (m_participant = "set" \/ mpc[main] # "idle")
      BY <2>2 DEF CallCreate, At, AppInv, SetupInv, ControlInv
    <3>2. \E o \in CreateOps : Create(main, o, TopicOne)
      <4>1. ~CreateTooEarly(main, TopicOne) /\ ~CreateUnknown(main, TopicOne)
        BY <3>1 DEF CreateTooEarly, CreateUnknown, Idle
      <4> QED
        BY <2>2, <4>1 DEF CallCreate, CreateOps
    <3>3. /\ mpc' = [mpc EXCEPT ![main] = "registering"]
          /\ mname' = [mname EXCEPT ![main] = TopicOne]
      BY <3>2 DEF Create
    <3> QED
      BY <3>3 DEF ManagerInv, ManagerTypeOK
  <2>3. CASE ReadInput \/ ClearFlag
    <3>1. UNCHANGED <<apc, managerVars>>
      BY <2>3 DEF ReadInput, ClearFlag, mainVars, allVars
    <3> QED
      BY <1>1, <3>1 DEF managerVars, AppInv, HandleInv
  <2>4. CASE \/ Start \/ TestHandlerCreators \/ CallInit \/ StoreEndpoint \/ SpawnInputThread
             \/ TestFlag \/ WriteMessage \/ ReaderLoopEnds \/ Leave
    <3>1. apc' # "assign"
      BY <2>4 DEF Start, TestHandlerCreators, CallInit, StoreEndpoint, SpawnInputThread, TestFlag,
                  WriteMessage, ReaderLoopEnds, Leave, At
    <3> QED
      BY <3>1
  <2> QED
    BY <2>1, <2>2, <2>3, <2>4 DEF AppNext, Main
<1>4. endpoint' = Null => Final(TopicOne)'
  <2>1. CASE StoreEndpoint
    <3>1. endpoint' = Null => mret[main] = "nullptr"
      <4>1. SUFFICES ASSUME mret[main] # "nullptr" PROVE endpoint' # Null
        OBVIOUS
      <4>2. \E e \in Endpoints : epKind[e] # "none"
        BY <2>1, <4>1 DEF StoreEndpoint, At, Idle, AppInv, HandleInv
      <4> QED
        BY <2>1, <4>1, <4>2 DEF StoreEndpoint
    <3>2. mret[main] = "nullptr" => Final(TopicOne)
      BY <2>1 DEF StoreEndpoint, At, Idle, AppInv, HandleInv
    <3> QED
      BY <1>1, <3>1, <3>2
  <2>2. CASE ~StoreEndpoint
    <3>1. endpoint' = endpoint
      BY <2>2
      DEF AppNext, Main, Start, TestHandlerCreators, CallInit, CallCreate, SpawnInputThread,
          TestFlag, WriteMessage, ReadInput, ClearFlag, ReaderLoopEnds, Leave, InsideCall,
          appVars, mainVars
    <3> QED
      BY <1>1, <3>1 DEF AppInv, HandleInv
  <2> QED
    BY <2>1, <2>2
<1>5. nullThis' => endpoint' = Null
  <2>1. ~nullThis
    BY DEF AppNext, Running
  <2>2. CASE WriteMessage
    BY <2>1, <2>2 DEF WriteMessage
  <2>3. CASE ~WriteMessage
    <3>1. nullThis' = nullThis
      BY <2>3
      DEF AppNext, Main, Start, TestHandlerCreators, CallInit, CallCreate, StoreEndpoint,
          SpawnInputThread, TestFlag, ReadInput, ClearFlag, ReaderLoopEnds, Leave, InsideCall,
          appVars, mainVars
    <3> QED
      BY <2>1, <3>1
  <2> QED
    BY <2>2, <2>3
<1> QED
  BY <1>2, <1>3, <1>4, <1>5 DEF HandleInv

\* A step of the example keeps its types.
LEMMA TypeStep ==
  ASSUME IInv, ManagerInv, AppInv, AppNext
  PROVE  AppTypeOK'
<1> USE AppAssumption, ThreadAssumption, NoneAssumption DEF AppInv, AppTypeOK
<1>1. CASE Start
  BY <1>1 DEF Start, At
<1>2. CASE TestHandlerCreators
  BY <1>2 DEF TestHandlerCreators, At
<1>3. CASE CallInit
  BY <1>3 DEF CallInit, At
<1>4. CASE CallCreate
  BY <1>4 DEF CallCreate, At
<1>5. CASE StoreEndpoint
  <2>1. endpoint' \in Endpoints \cup {Null}
    <3>1. mret[main] # "nullptr" => \E e \in Endpoints : epKind[e] # "none"
      BY <1>5 DEF StoreEndpoint, At, Idle, HandleInv
    <3> QED
      BY <1>5, <3>1 DEF StoreEndpoint
  <2> QED
    BY <1>5, <2>1 DEF StoreEndpoint, At
<1>6. CASE SpawnInputThread
  BY <1>6 DEF SpawnInputThread, At
<1>7. CASE TestFlag
  BY <1>7 DEF TestFlag, At
<1>8. CASE WriteMessage
  <2>1. /\ UNCHANGED <<role, endpoint, frame, runFlag, input, eof>>
        /\ apc = "write" /\ apc' \in {apc, "test"}
    BY <1>8 DEF WriteMessage
  <2>2. late' \in Nat
    BY <1>8 DEF WriteMessage
  <2>3. nullThis' \in BOOLEAN
    BY <1>8 DEF WriteMessage
  <2> QED
    BY <2>1, <2>2, <2>3
<1>9. CASE ReadInput
  BY <1>9 DEF ReadInput, mainVars
<1>10. CASE ClearFlag
  BY <1>10 DEF ClearFlag
<1>11. CASE ReaderLoopEnds
  BY <1>11 DEF ReaderLoopEnds, At
<1>12. CASE Leave
  BY <1>12 DEF Leave, At
<1>13. CASE InsideCall
  BY <1>13 DEF InsideCall, appVars, mainVars
<1> QED
  BY <1>1, <1>2, <1>3, <1>4, <1>5, <1>6, <1>7, <1>8, <1>9, <1>10, <1>11, <1>12, <1>13
  DEF AppNext, Main

\* Together.
LEMMA AppNextKeeps ==
  ASSUME IInv, ManagerInv, AppInv, [AppNext]_helloVars
  PROVE  IInv' /\ ManagerInv' /\ AppInv'
<1>1. IInv' /\ ManagerInv'
  BY AppStepIsStep, ManagerNextKeeps
<1>2. CASE UNCHANGED helloVars
  <2> USE <1>2 DEF helloVars, appVars, mainVars, allVars, managerVars, AppInv
  <2>1. AppTypeOK'
    BY DEF AppTypeOK
  <2>2. ControlInv' /\ FlagInv' /\ SetupInv'
    BY DEF ControlInv, FlagInv, SetupInv
  <2>3. UNCHANGED <<ret, epKind, types, topicName, pc, name>>
    BY DEF vars, wrapperVars, endpointVars, typeVars, topicVars, argVars
  <2>4. HandleInv'
    BY <2>3 DEF HandleInv, Final
  <2>5. ReadyInv'
    BY DEF ReadyInv, vars, wrapperVars
  <2> QED
    BY <1>1, <2>1, <2>2, <2>4, <2>5
<1>3. CASE AppNext
  BY <1>1, <1>3, TypeStep, LoopStep, SetupStep, ReadyStep, HandleStep DEF AppInv
<1> QED
  BY <1>1, <1>2, <1>3

\* The inductive invariant of the composition of example, manager and participant.
THEOREM AppInvariance == AppSpec => [](IInv /\ ManagerInv /\ AppInv)
<1>1. AppInit => IInv /\ ManagerInv /\ AppInv
  BY AppInitInv, ManagerInitInv DEF AppInit
<1>2. IInv /\ ManagerInv /\ AppInv /\ [AppNext]_helloVars => (IInv /\ ManagerInv /\ AppInv)'
  BY AppNextKeeps
<1> QED
  BY <1>1, <1>2, PTL DEF AppSpec

\* The example is one of the clients that the manager allows.
THEOREM AppIsClient == AppSpec => ManagerSpec
<1>1. AppInit => ManagerInit
  BY DEF AppInit
<1> QED
  BY <1>1, AppStepIsStep, PTL DEF AppSpec, ManagerSpec

\* Types; in particular main's pointer has been assigned when the loop runs.
THEOREM AppTypeCorrect == AppSpec => []AppTypeOK
<1>1. AppInv => AppTypeOK
  BY DEF AppInv
<1> QED
  BY <1>1, AppInvariance, PTL

\* The frame that the detached thread refers to is alive as long as it may write to it.
THEOREM FlagSafe == AppSpec => []FlagOutlivesThread
<1>1. AppInv => FlagOutlivesThread
  BY DEF AppInv, FlagInv, ControlInv, FlagOutlivesThread
<1> QED
  BY <1>1, AppInvariance, PTL

\* Once runFlag is cleared, the loop writes at most the message on its way.
THEOREM LateMessages == AppSpec => []AtMostOneLateMessage
<1>1. AppInv => AtMostOneLateMessage
  BY DEF AppInv, FlagInv, AtMostOneLateMessage
<1> QED
  BY <1>1, AppInvariance, PTL

\* The example, which checks no answer, dies only of what Fast DDS refused: in the
\* wrapper of an entity, in its own writeMessage of the topic, and never of a call
\* before the participant or of a forgotten creator.
THEOREM ExampleDies == AppSpec => []DiesOnlyOfRefusal
<1>1. AppInv /\ CrashOnlyAfterFailure => DiesOnlyOfRefusal
  <2> SUFFICES ASSUME AppInv, CrashOnlyAfterFailure
               PROVE  DiesOnlyOfRefusal
    OBVIOUS
  <2>1. fault # "none" => EntityRefused
    BY DEF CrashOnlyAfterFailure, EntityRefused, AppInv, ReadyInv
  <2>2. ASSUME nullThis
        PROVE  TopicRefused
    <3>1. Final(TopicOne) /\ m_topicTypes[TopicOne] = TypeOne
      BY <2>2, ThreadAssumption DEF AppInv, HandleInv, SetupInv
    <3> QED
      BY <3>1 DEF Final, TopicRefused
  <2> QED
    BY <2>1, <2>2 DEF DiesOnlyOfRefusal, AppInv, SetupInv
<1> QED
  BY <1>1, AppInvariance, AppIsClient, ManagerIsClient, CrashSafety, PTL
=============================================================================
