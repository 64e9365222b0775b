-------------------------- MODULE ListenerReentrancy --------------------------
(***************************************************************************)
(* DDSDomainParticipant together with the callbacks of its readers, which  *)
(* run on threads of Fast DDS and may themselves call the participant and  *)
(* delete endpoints.  The threads may wait for each other in two ways:     *)
(*   - an operation waits for m_topicLock;                                 *)
(*   - a call into Fast DDS waits for the lock of a reader, which a thread *)
(*     holds as long as it runs the reader's callback.                     *)
(* createDataWriter and createDataReader do the second while they hold the *)
(* first: create_datawriter and create_datareader run under m_topicLock    *)
(* and match the new endpoint with readers of the same process.  A reader  *)
(* is enabled before create_datareader returns, so its callback may start  *)
(* while the creating thread still holds m_topicLock.                      *)
(*                                                                         *)
(* External: a reader's callback runs under the lock of that reader, so on *)
(* one thread at a time, and callbacks do not nest; delete_datareader      *)
(* takes the reader's lock; creating or deleting an endpoint may take the  *)
(* lock of any other reader (which ones it matches is Fast DDS's choice);  *)
(* no other call takes one.  The locks are recursive: a thread does not    *)
(* wait for its own callback.                                              *)
(*                                                                         *)
(* Using the class rightly means that a callback does not delete the       *)
(* reader it was called for: it would destroy the lock it runs under and   *)
(* the std::function it is in.                                             *)
(***************************************************************************)
EXTENDS DomainParticipant

\* A thread is not an endpoint (callback below may hold either).
ASSUME ListenerAssumption == Threads \cap (Endpoints \cup {None}) = {}

VARIABLES
  callback,     \* the reader whose callback each thread is in; the creating
                \* thread while the reader is still under construction
  deleting,     \* the endpoint each thread is deleting
  matching      \* the reader whose lock each thread is waiting for, to match
                \* the endpoint it creates or deletes

listenerVars == <<callback, deleting, matching>>
allVars == <<vars, listenerVars>>

\* Types; what is being deleted still exists.
ListenerTypeOK ==
  /\ callback \in [Threads -> Endpoints \cup Threads \cup {None}]
  /\ deleting \in [Threads -> Endpoints \cup {None}]
  /\ matching \in [Threads -> Endpoints \cup Threads \cup {None}]
  /\ \A t \in Threads : deleting[t] # None => epKind[deleting[t]] # "none"

ListenerInit ==
  /\ Init
  /\ callback = [t \in Threads |-> None]
  /\ deleting = [t \in Threads |-> None]
  /\ matching = [t \in Threads |-> None]

Free(t) == pc[t] = "idle" /\ deleting[t] = None

InCallback(r) == \E t \in Threads : callback[t] = r

CreatesReader(t) ==
  /\ pc[t] = "create_endpoint" /\ op[t] = "createDataReader"
  /\ Derefs(t) = {"live"}

\* Reader e has its DataReader, or thread e is constructing it.
HasDataReader(e) ==
  \/ e \in Endpoints /\ epKind[e] = "reader" /\ epTopic[e] # None
  \/ e \in Threads /\ CreatesReader(e)
-----------------------------------------------------------------------------
\* The callbacks.

\* A sample arrived for reader e, or for the one that thread e is creating.
on_data_available(t, e) ==
  /\ Free(t) /\ callback[t] = None
  /\ ~InCallback(e)
  /\ HasDataReader(e)
  /\ callback' = [callback EXCEPT ![t] = e]
  /\ UNCHANGED <<vars, deleting, matching>>

CallbackReturns(t) ==
  /\ Free(t) /\ callback[t] # None
  /\ callback' = [callback EXCEPT ![t] = None]
  /\ UNCHANGED <<vars, deleting, matching>>

\* An operation of the participant, by the application or by a callback.
Operation(t) ==
  /\ Free(t)
  /\ Call(t)
  /\ UNCHANGED listenerVars

-----------------------------------------------------------------------------
\* Waiting for the lock of a reader.

\* Inside create_datawriter, create_datareader or the deletion of an endpoint:
\* the lock of reader e is needed.
Match(t, e) ==
  /\ matching[t] = None
  /\ \/ pc[t] = "create_endpoint" /\ Derefs(t) = {"live"}
     \/ deleting[t] # None /\ deleting[t] # e
  /\ HasDataReader(e)
  /\ matching' = [matching EXCEPT ![t] = e]
  /\ UNCHANGED <<vars, callback, deleting>>

\* It is got, and given back: nobody else is in the reader's callback.
Matched(t) ==
  /\ matching[t] # None
  /\ \A u \in Threads \ {t} : callback[u] # matching[t]
  /\ matching' = [matching EXCEPT ![t] = None]
  /\ UNCHANGED <<vars, callback, deleting>>

-----------------------------------------------------------------------------
\* The rest of the operations.

WriterCreated(t) ==
  /\ ~CreatesReader(t)
  /\ matching[t] = None
  /\ CreateEndpoint(t)
  /\ UNCHANGED listenerVars

\* The reader exists from here on, unless create_datareader failed, which it
\* has not if anybody met it; who did has now met the new reader.
ReaderCreated(t) ==
  LET created == CHOOSE e \in Endpoints : epKind'[e] # epKind[e]
      Known(f) == [u \in Threads |-> IF f[u] = t THEN created ELSE f[u]]
  IN /\ CreatesReader(t)
     /\ matching[t] = None
     /\ CreateEndpoint(t)
     /\ (\E u \in Threads : t \in {callback[u], matching[u]}) => epTopic'[created] # None
     /\ callback' = Known(callback)
     /\ matching' = Known(matching)
     /\ UNCHANGED deleting

InsideOperation(t) ==
  \/ AcquireLock(t) /\ UNCHANGED listenerVars
  \/ pc[t] # "create_endpoint" /\ Critical(t) /\ UNCHANGED listenerVars
  \/ Crash(t) /\ UNCHANGED listenerVars
  \/ WriterCreated(t)
  \/ ReaderCreated(t)
-----------------------------------------------------------------------------
\* The destructors of the endpoint wrappers.

\* Mutant of Delete: the destructor takes m_topicLock first.
Delete_Locked(t, e) ==
  /\ Free(t)
  /\ epKind[e] # "none"
  /\ e # callback[t]
  /\ \A u \in Threads : deleting[u] # e
  /\ topicLock = None
  /\ topicLock' = t
  /\ deleting' = [deleting EXCEPT ![t] = e]
  /\ UNCHANGED <<entityVars, typeVars, topicVars, endpointVars, stage, mapTopics, pc, argVars,
                 tid, ret, fault, callback, matching>>

\* A thread may delete any endpoint nobody else deletes, except the reader
\* whose callback it is in.
Delete(t, e) ==
  /\ Free(t)
  /\ epKind[e] # "none"
  /\ e # callback[t]
  /\ \A u \in Threads : deleting[u] # e
  /\ deleting' = [deleting EXCEPT ![t] = e]
  /\ UNCHANGED <<vars, callback, matching>>

\* Mutant of Deleted: the members die without delete_datareader.
Deleted_NoWait(t) ==
  /\ deleting[t] # None /\ matching[t] = None
  /\ CloseEndpoint(deleting[t])
  /\ deleting' = [deleting EXCEPT ![t] = None]
  /\ UNCHANGED <<callback, matching>>

\* delete_datareader waits for the reader's callback.
Deleted(t) ==
  /\ deleting[t] # None /\ matching[t] = None
  /\ ~InCallback(deleting[t])
  /\ CloseEndpoint(deleting[t])
  /\ deleting' = [deleting EXCEPT ![t] = None]
  /\ UNCHANGED <<callback, matching>>

ListenerNext ==
  /\ fault = "none"
  /\ \/ (Construct \/ Destroy) /\ UNCHANGED listenerVars
     \/ \E t \in Threads :
          \/ Operation(t) \/ InsideOperation(t)
          \/ \E e \in Endpoints \cup Threads : on_data_available(t, e)
          \/ CallbackReturns(t)
          \/ \E e \in Endpoints \cup Threads : Match(t, e)
          \/ Matched(t)
          \/ \E e \in Endpoints : Delete(t, e)
          \/ Deleted(t)

ListenerSpec == ListenerInit /\ [][ListenerNext]_allVars

-----------------------------------------------------------------------------
\* Properties.

(***************************************************************************)
(* Thread t cannot go on until thread u has.                               *)
(***************************************************************************)
WaitsFor(t, u) ==
  \/ pc[t] = "lock" /\ topicLock = u
  \/ matching[t] # None /\ u # t /\ callback[u] = matching[t]
  \/ deleting[t] # None /\ callback[u] = deleting[t]

Deadlock(S) == S # {} /\ \A t \in S : \E u \in S : WaitsFor(t, u)

\* Thread c is in createDataWriter or createDataReader, holds m_topicLock and
\* needs the lock of a reader whose callback, on thread u, needs m_topicLock.
CreationMeetsCallback(c, u) ==
  /\ topicLock = c /\ pc[c] = "create_endpoint"
  /\ matching[c] # None /\ callback[u] = matching[c]
  /\ pc[u] = "lock"

(***************************************************************************)
(* Threads wait for each other in a circle only by what callbacks do, and  *)
(* in two ways only: one thread creates an endpoint under m_topicLock and  *)
(* has to match it with a reader whose callback calls the participant; or  *)
(* a callback deletes endpoints.  So neither registerTopic nor             *)
(* unregisterTopic, nor a destructor that the application runs outside     *)
(* callbacks, is ever what such a circle hangs on, and an application      *)
(* whose callbacks leave the participant and its endpoints alone never     *)
(* deadlocks, although readers come and go under running callbacks.        *)
(***************************************************************************)
DeadlockOnlyByCallbacks ==
  \A S \in SUBSET Threads : Deadlock(S) =>
    \/ \E c, u \in S : c # u /\ CreationMeetsCallback(c, u)
    \/ \E u \in S : callback[u] # None /\ deleting[u] # None

(***************************************************************************)
(* A callback only runs for a reader that exists with its DataReader, from *)
(* before createDataReader returns and until its deletion is done.         *)
(***************************************************************************)
CallbackHasReader ==
  \A t \in Threads : callback[t] \in Endpoints =>
    epKind[callback[t]] = "reader" /\ epTopic[callback[t]] # None
=============================================================================
