------------------------ MODULE ListenerReentrancyProofs ------------------------
(***************************************************************************)
(* ListenerReentrancy uses DDSDomainParticipant as Spec allows, its        *)
(* callbacks always have a reader, and threads wait for each other in a    *)
(* circle only by what callbacks do: for any number of threads, readers    *)
(* and writers.                                                            *)
(***************************************************************************)
EXTENDS ListenerReentrancy, DomainParticipantProofs

\* A thread that deletes is in no operation, in no callback of the same reader,
\* and nobody else deletes the same.
DeleteInv ==
  /\ \A t \in Threads : deleting[t] # None =>
       /\ pc[t] = "idle"
       /\ deleting[t] # callback[t]
  /\ \A t, u \in Threads : deleting[t] # None /\ deleting[t] = deleting[u] => t = u

\* A callback of a reader under construction belongs to its creator.
CreatorInv ==
  \A t \in Threads : callback[t] \in Threads =>
    pc[callback[t]] = "create_endpoint" /\ op[callback[t]] = "createDataReader"

\* Only a thread that creates or deletes an endpoint waits for a reader's lock.
MatchInv ==
  \A t \in Threads : matching[t] # None =>
    pc[t] = "create_endpoint" \/ deleting[t] # None

LInv == ListenerTypeOK /\ DeleteInv /\ CreatorInv /\ MatchInv /\ CallbackHasReader

\* The initial state.
LEMMA ListenerInitLInv == ListenerInit => LInv
  BY NoneAssumption, ThreadAssumption
  DEF ListenerInit, Init, DDSInit, LInv, ListenerTypeOK, DeleteInv, CreatorInv, MatchInv,
      CallbackHasReader

\* A step inside an operation that makes no endpoint leaves the endpoints and
\* the other threads alone.
LEMMA OperationFrame ==
  ASSUME TypeOK, NEW t \in Threads,
         \/ Call(t) \/ AcquireLock(t) \/ FindHit(t) \/ FindMiss(t) \/ RegisterType(t)
         \/ CreateTopic(t) \/ Insert(t) \/ DeleteTopic(t) \/ Erase(t)
  PROVE  /\ UNCHANGED endpointVars
         /\ \A u \in Threads : u # t => pc'[u] = pc[u] /\ op'[u] = op[u]
<1> USE DEF TypeOK, endpointVars, lockVars, argVars, Goto
<1>1. CASE Call(t)
  BY <1>1 DEF Call, RegisterNullType, CallRegisterTopic, CallWithName
<1>2. CASE AcquireLock(t)
  BY <1>2 DEF AcquireLock
<1>3. CASE FindHit(t)
  BY <1>3 DEF FindHit, Return
<1>4. CASE FindMiss(t)
  BY <1>4 DEF FindMiss, Return
<1>5. CASE RegisterType(t)
  BY <1>5 DEF RegisterType, Return
<1>6. CASE CreateTopic(t)
  BY <1>6 DEF CreateTopic
<1>7. CASE Insert(t)
  BY <1>7 DEF Insert, Return
<1>8. CASE DeleteTopic(t)
  BY <1>8 DEF DeleteTopic, Return
<1>9. CASE Erase(t)
  BY <1>9 DEF Erase, Return
<1> QED
  BY <1>1, <1>2, <1>3, <1>4, <1>5, <1>6, <1>7, <1>8, <1>9

\* Such a step is taken by a thread that deletes nothing and creates no reader.
LEMMA FrameStep ==
  ASSUME LInv, NEW t \in Threads, deleting[t] = None, pc[t] # "create_endpoint",
         UNCHANGED endpointVars, UNCHANGED listenerVars,
         \A u \in Threads : u # t => pc'[u] = pc[u] /\ op'[u] = op[u]
  PROVE  LInv'
<1> USE DEF LInv, ListenerTypeOK, endpointVars, listenerVars
<1>1. ListenerTypeOK'
  OBVIOUS
<1>2. DeleteInv'
  BY DEF DeleteInv
<1>3. CreatorInv'
  BY DEF CreatorInv
<1>4. MatchInv'
  BY DEF MatchInv
<1>5. CallbackHasReader'
  BY DEF CallbackHasReader
<1> QED
  BY <1>1, <1>2, <1>3, <1>4, <1>5

\* The endpoint that CreateEndpoint makes is the only one that changes.
LEMMA CreateFrame ==
  ASSUME TypeOK, NEW t \in Threads, CreateEndpoint(t)
  PROVE  /\ \A u \in Threads : u # t => pc'[u] = pc[u] /\ op'[u] = op[u]
         /\ pc[t] = "create_endpoint" /\ Derefs(t) = {"live"}
         /\ \E e \in Endpoints :
              /\ epKind[e] = "none" /\ epKind' = [epKind EXCEPT ![e] = EndpointKind(op[t])]
              /\ \A d \in Endpoints : d # e => epTopic'[d] = epTopic[d]
<1> USE DEF TypeOK, DDSTypeOK, CreateEndpoint, Return, Goto
<1>1. \A u \in Threads : u # t => pc'[u] = pc[u] /\ op'[u] = op[u]
  OBVIOUS
<1>2. pc[t] = "create_endpoint" /\ Derefs(t) = {"live"}
  BY DEF Derefs
<1>3. \E e \in Endpoints :
              /\ epKind[e] = "none" /\ epKind' = [epKind EXCEPT ![e] = EndpointKind(op[t])]
              /\ \A d \in Endpoints : d # e => epTopic'[d] = epTopic[d]
  OBVIOUS
<1> QED
  BY <1>1, <1>2, <1>3

\* Creating an endpoint that is no reader.
LEMMA WriterCreatedStep ==
  ASSUME TypeOK, LInv, NEW t \in Threads, WriterCreated(t)
  PROVE  LInv'
<1> USE DEF LInv, ListenerTypeOK, listenerVars, TypeOK, DDSTypeOK, WriterCreated
<1>1. op[t] # "createDataReader"
  BY CreateFrame DEF CreatesReader
<1>2. PICK e \in Endpoints :
              /\ epKind[e] = "none" /\ epKind' = [epKind EXCEPT ![e] = EndpointKind(op[t])]
              /\ \A d \in Endpoints : d # e => epTopic'[d] = epTopic[d]
  BY CreateFrame
<1>3. epKind'[e] # "none" /\ \A d \in Endpoints : d # e => epKind'[d] = epKind[d]
  BY <1>2 DEF EndpointKind
<1>4. pc[t] = "create_endpoint" /\ \A u \in Threads : u # t => pc'[u] = pc[u] /\ op'[u] = op[u]
  BY CreateFrame
<1>5. ListenerTypeOK'
  BY <1>3
<1>6. DeleteInv'
  BY <1>2, <1>3, <1>4 DEF DeleteInv
<1>7. CreatorInv'
  BY <1>1, <1>4 DEF CreatorInv
<1>8. MatchInv'
  BY <1>4 DEF MatchInv
<1>9. CallbackHasReader'
  BY <1>2, <1>3 DEF CallbackHasReader
<1> QED
  BY <1>5, <1>6, <1>7, <1>8, <1>9

\* Creating a reader, whose callback may already run.
LEMMA ReaderCreatedStep ==
  ASSUME TypeOK, LInv, NEW t \in Threads, ReaderCreated(t)
  PROVE  LInv'
<1> USE ListenerAssumption, NoneAssumption
    DEF LInv, ListenerTypeOK, listenerVars, TypeOK, DDSTypeOK
<1> DEFINE created == CHOOSE e \in Endpoints : epKind'[e] # epKind[e]
<1>1. /\ CreatesReader(t) /\ CreateEndpoint(t) /\ UNCHANGED deleting
      /\ InCallback(t) => epTopic'[created] # None
      /\ callback' = [u \in Threads |-> IF callback[u] = t THEN created ELSE callback[u]]
      /\ matching' = [u \in Threads |-> IF matching[u] = t THEN created ELSE matching[u]]
      /\ matching[t] = None
  BY DEF ReaderCreated, InCallback
<1>2. PICK e \in Endpoints :
              /\ epKind[e] = "none" /\ epKind' = [epKind EXCEPT ![e] = EndpointKind(op[t])]
              /\ \A d \in Endpoints : d # e => epTopic'[d] = epTopic[d]
  BY <1>1, CreateFrame
<1>3. epKind'[e] = "reader" /\ \A d \in Endpoints : d # e => epKind'[d] = epKind[d]
  BY <1>1, <1>2 DEF EndpointKind, CreatesReader
<1>4. created = e
  BY <1>2, <1>3
<1> HIDE DEF created
<1>5. pc[t] = "create_endpoint" /\ \A u \in Threads : u # t => pc'[u] = pc[u] /\ op'[u] = op[u]
  BY <1>1, CreateFrame
<1>6. deleting[t] = None
  BY <1>5 DEF DeleteInv
<1>7. ListenerTypeOK'
  BY <1>1, <1>3, <1>4
<1>8. DeleteInv'
  <2>1. \A u \in Threads : deleting[u] # None => deleting[u] # e
    BY <1>2
  <2>2. \A u \in Threads : callback'[u] \in {callback[u], e}
    BY <1>1, <1>4
  <2> QED
    BY <1>1, <1>5, <1>6, <2>1, <2>2 DEF DeleteInv
<1>9. CreatorInv'
  BY <1>1, <1>4, <1>5 DEF CreatorInv
<1>10. CallbackHasReader'
  BY <1>1, <1>2, <1>3, <1>4 DEF CallbackHasReader, InCallback
<1>11. MatchInv'
  BY <1>1, <1>5 DEF MatchInv
<1> QED
  BY <1>7, <1>8, <1>9, <1>10, <1>11

\* A deletion that is done: the endpoint is in no callback, and nobody else's.
LEMMA DeletedStep ==
  ASSUME TypeOK, LInv, NEW t \in Threads, Deleted(t)
  PROVE  LInv'
<1> USE ListenerAssumption, NoneAssumption
    DEF LInv, ListenerTypeOK, listenerVars, TypeOK, DDSTypeOK, Deleted, endpointVars, argVars
<1> DEFINE e == deleting[t]
<1>1. e \in Endpoints
  OBVIOUS
<1>2. /\ \A d \in Endpoints : d # e => epKind'[d] = epKind[d] /\ epTopic'[d] = epTopic[d]
      /\ UNCHANGED <<pc, op>>
  BY <1>1 DEF CloseEndpoint
<1>3. /\ ~InCallback(e) /\ deleting' = [deleting EXCEPT ![t] = None]
      /\ matching[t] = None /\ UNCHANGED <<callback, matching>>
  OBVIOUS
<1> HIDE DEF Deleted
<1>4. ListenerTypeOK'
  BY <1>1, <1>2, <1>3 DEF DeleteInv
<1>5. DeleteInv'
  BY <1>1, <1>2, <1>3 DEF DeleteInv
<1>6. CreatorInv'
  BY <1>2, <1>3 DEF CreatorInv
<1>7. MatchInv'
  BY <1>2, <1>3 DEF MatchInv
<1>8. CallbackHasReader'
  BY <1>1, <1>2, <1>3 DEF CallbackHasReader, InCallback
<1> QED
  BY <1>4, <1>5, <1>6, <1>7, <1>8

\* Callbacks that start and return, deletions that start, locks of readers.
LEMMA ListenerStep ==
  ASSUME TypeOK, LInv, NEW t \in Threads,
         \/ \E e \in Endpoints \cup Threads : on_data_available(t, e) \/ Match(t, e)
         \/ CallbackReturns(t) \/ Matched(t)
         \/ \E e \in Endpoints : Delete(t, e)
  PROVE  LInv' /\ UNCHANGED vars
<1> USE ListenerAssumption, NoneAssumption
    DEF LInv, ListenerTypeOK, Free
<1>1. UNCHANGED vars
  BY DEF on_data_available, CallbackReturns, Match, Matched, Delete
<1>2. UNCHANGED <<pc, op, epKind, epTopic>>
  BY <1>1 DEF vars, wrapperVars, endpointVars
<1>3. ASSUME NEW e \in Endpoints \cup Threads, on_data_available(t, e)
      PROVE  LInv'
  <2> USE DEF on_data_available, HasDataReader
  <2>1. ListenerTypeOK'
    BY <1>2, <1>3
  <2>2. DeleteInv'
    BY <1>2, <1>3 DEF DeleteInv
  <2>3. CreatorInv'
    BY <1>2, <1>3 DEF CreatorInv, CreatesReader
  <2>4. MatchInv'
    BY <1>2, <1>3 DEF MatchInv
  <2>5. CallbackHasReader'
    BY <1>2, <1>3 DEF CallbackHasReader
  <2> QED
    BY <2>1, <2>2, <2>3, <2>4, <2>5
<1>4. CASE CallbackReturns(t)
  BY <1>2, <1>4 DEF CallbackReturns, DeleteInv, CreatorInv, MatchInv, CallbackHasReader
<1>5. ASSUME NEW e \in Endpoints \cup Threads, Match(t, e)
      PROVE  LInv'
  BY <1>2, <1>5 DEF Match, DeleteInv, CreatorInv, MatchInv, CallbackHasReader
<1>6. CASE Matched(t)
  BY <1>2, <1>6 DEF Matched, DeleteInv, CreatorInv, MatchInv, CallbackHasReader
<1>7. ASSUME NEW e \in Endpoints, Delete(t, e)
      PROVE  LInv'
  <2> USE DEF Delete
  <2>1. ListenerTypeOK'
    BY <1>2, <1>7
  <2>2. DeleteInv'
    BY <1>2, <1>7 DEF DeleteInv
  <2>3. CreatorInv'
    BY <1>2, <1>7 DEF CreatorInv
  <2>4. MatchInv'
    BY <1>2, <1>7 DEF MatchInv
  <2>5. CallbackHasReader'
    BY <1>2, <1>7 DEF CallbackHasReader
  <2> QED
    BY <2>1, <2>2, <2>3, <2>4, <2>5
<1> QED
  BY <1>1, <1>3, <1>4, <1>5, <1>6, <1>7

\* Every step of ListenerSpec keeps the invariant, and is one of Spec or none.
LEMMA ListenerNextStep ==
  ASSUME TypeOK, LInv, [ListenerNext]_allVars
  PROVE  LInv' /\ [Next]_vars
<1>1. CASE UNCHANGED allVars
  BY <1>1 DEF allVars, listenerVars, LInv, ListenerTypeOK, DeleteInv, CreatorInv, MatchInv,
              CallbackHasReader, vars, wrapperVars, endpointVars, argVars
<1>2. CASE fault = "none" /\ (Construct \/ Destroy) /\ UNCHANGED listenerVars
  <2>1. UNCHANGED <<pc, op, endpointVars, listenerVars>>
    BY <1>2 DEF Construct, Destroy, argVars
  <2>2. LInv'
    BY <2>1 DEF LInv, ListenerTypeOK, DeleteInv, CreatorInv, MatchInv, CallbackHasReader, endpointVars,
                listenerVars
  <2> QED
    BY <1>2, <2>2 DEF Next
<1>3. ASSUME NEW t \in Threads, fault = "none", Operation(t)
      PROVE  LInv' /\ Next
  <2>1. Call(t) /\ UNCHANGED listenerVars /\ deleting[t] = None /\ pc[t] # "create_endpoint"
    BY <1>3 DEF Operation, Free
  <2> QED
    BY <1>3, <2>1, OperationFrame, FrameStep DEF Next
<1>4. ASSUME NEW t \in Threads, fault = "none", InsideOperation(t)
      PROVE  LInv' /\ Next
  <2>1. CASE ReaderCreated(t)
    <3>1. CreateEndpoint(t)
      BY <2>1 DEF ReaderCreated
    <3> QED
      BY <1>4, <2>1, <3>1, ReaderCreatedStep DEF Next, Critical
  <2>2. CASE WriterCreated(t)
    <3>1. CreateEndpoint(t)
      BY <2>2 DEF WriterCreated
    <3> QED
      BY <1>4, <2>2, <3>1, WriterCreatedStep DEF Next, Critical
  <2>3. CASE Crash(t) /\ UNCHANGED listenerVars
    <3>1. UNCHANGED <<pc, op, endpointVars, listenerVars>>
      BY <2>3 DEF Crash, argVars
    <3>2. LInv'
      BY <3>1 DEF LInv, ListenerTypeOK, DeleteInv, CreatorInv, MatchInv, CallbackHasReader, endpointVars,
                  listenerVars
    <3> QED
      BY <1>4, <2>3, <3>2 DEF Next, Critical
  <2>4. CASE /\ \/ AcquireLock(t) \/ FindHit(t) \/ FindMiss(t) \/ RegisterType(t)
                \/ CreateTopic(t) \/ Insert(t) \/ DeleteTopic(t) \/ Erase(t)
             /\ UNCHANGED listenerVars
    <3>1. pc[t] # "idle" /\ pc[t] # "create_endpoint"
      BY <2>4 DEF AcquireLock, FindHit, FindMiss, RegisterType, CreateTopic, Insert, DeleteTopic,
                  Erase
    <3>2. deleting[t] = None
      BY <3>1 DEF LInv, DeleteInv
    <3> QED
      BY <1>4, <2>4, <3>1, <3>2, OperationFrame, FrameStep DEF Next, Critical
  <2> QED
    BY <1>4, <2>1, <2>2, <2>3, <2>4 DEF InsideOperation, Critical, CreateEndpoint
<1>5. ASSUME NEW t \in Threads,
             \/ \E e \in Endpoints \cup Threads : on_data_available(t, e) \/ Match(t, e)
             \/ CallbackReturns(t) \/ Matched(t)
             \/ \E e \in Endpoints : Delete(t, e)
      PROVE  LInv' /\ UNCHANGED vars
  BY <1>5, ListenerStep
<1>6. ASSUME NEW t \in Threads, fault = "none", Deleted(t)
      PROVE  LInv' /\ Next
  <2>1. deleting[t] \in Endpoints /\ CloseEndpoint(deleting[t])
    BY <1>6 DEF Deleted, LInv, ListenerTypeOK
  <2> QED
    BY <1>6, <2>1, DeletedStep DEF Next
<1> QED
  BY <1>1, <1>2, <1>3, <1>4, <1>5, <1>6 DEF ListenerNext

\* DDSDomainParticipant with its callbacks and deletions is used as Spec allows:
\* every theorem about Spec holds of it.
THEOREM ListenerIsClient == ListenerSpec => Spec /\ []LInv
<1>1. ListenerInit => IInv /\ LInv
  BY InitIInv, ListenerInitLInv DEF ListenerInit
<1>2. IInv /\ LInv /\ [ListenerNext]_allVars => IInv' /\ LInv' /\ [Next]_vars
  <2>1. IInv => TypeOK
    BY DEF IInv
  <2> QED
    BY <2>1, ListenerNextStep, NextStep
<1>3. ListenerInit => Init
  BY DEF ListenerInit
<1> QED
  BY <1>1, <1>2, <1>3, PTL DEF ListenerSpec, Spec

\* A callback always finds its DataReader: on_data_available never runs for one
\* that the destructor of DDSTopicDataReader has already deleted.
THEOREM CallbacksAnchored == ListenerSpec => []CallbackHasReader
<1>1. LInv => CallbackHasReader
  BY DEF LInv
<1> QED
  BY <1>1, ListenerIsClient, PTL

\* Who creates an endpoint holds m_topicLock, and its holder deletes nothing.
LEMMA HolderCreates ==
  ASSUME LockInv, LInv, NEW t \in Threads
  PROVE  /\ pc[t] = "create_endpoint" => topicLock = t
         /\ topicLock = t => pc[t] # "lock" /\ deleting[t] = None
         /\ deleting[t] # None => pc[t] = "idle"
  BY DEF LockInv, LInv, DeleteInv

\* In a circle without a deletion by a callback, somebody waits for m_topicLock
\* and its holder for a callback that waits for it too.
LEMMA CircleShape ==
  ASSUME TypeOK, LockInv, LInv, NEW S \in SUBSET Threads, Deadlock(S),
         \A u \in S : callback[u] = None \/ deleting[u] = None
  PROVE  \E c, u \in S : c # u /\ CreationMeetsCallback(c, u)
<1> USE NoneAssumption, ThreadAssumption
<1>1. ASSUME NEW t \in S, callback[t] # None
      PROVE  pc[t] = "lock" \/ topicLock = t
  <2>1. deleting[t] = None
    BY <1>1
  <2>2. PICK u \in S : WaitsFor(t, u)
    BY DEF Deadlock
  <2> QED
    BY <2>1, <2>2, HolderCreates DEF WaitsFor, LInv, MatchInv
<1>2. PICK w \in S : pc[w] = "lock" \/ topicLock = w
  <2>1. PICK t \in S : TRUE
    BY DEF Deadlock
  <2>2. PICK u \in S : WaitsFor(t, u)
    BY DEF Deadlock
  <2>3. pc[t] = "lock" \/ callback[u] # None
    BY <2>2 DEF WaitsFor
  <2> QED
    BY <1>1, <2>3
<1>3. PICK c \in S : topicLock = c
  <2>1. CASE topicLock = w
    BY <2>1
  <2>2. CASE pc[w] = "lock"
    <3>1. deleting[w] = None /\ matching[w] = None
      BY <2>2, HolderCreates DEF LInv, MatchInv
    <3> QED
      BY <3>1 DEF Deadlock, WaitsFor
  <2> QED
    BY <1>2, <2>1, <2>2
<1>4. PICK u \in S : WaitsFor(c, u)
  BY DEF Deadlock
<1>5. pc[c] # "lock" /\ deleting[c] = None
  BY <1>3, HolderCreates
<1>6. matching[c] # None /\ u # c /\ callback[u] = matching[c] /\ pc[c] = "create_endpoint"
  BY <1>4, <1>5 DEF WaitsFor, LInv, MatchInv
<1>7. pc[u] = "lock"
  BY <1>1, <1>3, <1>6
<1> QED
  BY <1>3, <1>6, <1>7 DEF CreationMeetsCallback

\* However many threads, readers and writers there are: a circle takes a callback
\* that waits for m_topicLock while its holder has to match an endpoint with the
\* callback's reader, or a callback that deletes an endpoint.
THEOREM CirclesNeedCallbacks == ListenerSpec => []DeadlockOnlyByCallbacks
<1>1. IInv /\ LInv => DeadlockOnlyByCallbacks
  BY CircleShape DEF IInv, DeadlockOnlyByCallbacks
<1> QED
  BY <1>1, ListenerIsClient, Invariance, PTL
=============================================================================
