------------------------------- MODULE InitRace -------------------------------
(***************************************************************************)
(* DDSParticipantManager::m_participant under calls of                     *)
(* initDomainParticipant that overlap, which ParticipantManager rules out: *)
(* a shared_ptr that is tested, assigned and dereferenced without a lock.  *)
(* Whoever assigns second destroys the DDSDomainParticipant of the first,  *)
(* which a third thread may be calling.  createDataWriter and              *)
(* createDataReader dereference m_participant twice.                       *)
(*                                                                         *)
(* The assignment is not atomic: the pointer that is released is read, and *)
(* then the new one written.                                               *)
(***************************************************************************)
EXTENDS Naturals, FiniteSets

CONSTANTS
  Threads,
  Objects,      \* addresses of DDSDomainParticipant objects
  None          \* null

ASSUME NoneIsNoObject == None \notin Objects

VARIABLES
  m_participant,
  alive,        \* the DDSDomainParticipant objects that exist
  pc,           \* what each thread is about to do
  made,         \* the object make_shared made for it
  old,          \* the object its assignment will release
  used,         \* the objects it called in createDataWriter / createDataReader
  overlapped    \* did two calls of initDomainParticipant overlap?

vars == <<m_participant, alive, pc, made, old, used, overlapped>>

Steps == {"idle", "make", "assign", "store", "registerTopic", "create", "endpoint"}
Initialising == {"make", "assign", "store"}

TypeOK ==
  /\ m_participant \in Objects \cup {None}
  /\ alive \in SUBSET Objects
  /\ pc \in [Threads -> Steps]
  /\ made \in [Threads -> Objects \cup {None}]
  /\ old \in [Threads -> Objects \cup {None}]
  /\ used \in [Threads -> SUBSET Objects]
  /\ overlapped \in BOOLEAN

Init ==
  /\ m_participant = None
  /\ alive = {}
  /\ pc = [t \in Threads |-> "idle"]
  /\ made = [t \in Threads |-> None]
  /\ old = [t \in Threads |-> None]
  /\ used = [t \in Threads |-> {}]
  /\ overlapped = FALSE

Step(t, from, to) == pc[t] = from /\ pc' = [pc EXCEPT ![t] = to]
-----------------------------------------------------------------------------
\* initDomainParticipant

\* Mutant of TestParticipant: the test is missing.
TestParticipant_Missing(t) ==
  /\ Step(t, "idle", "make")
  /\ overlapped' = (overlapped \/ \E u \in Threads : pc[u] \in Initialising)
  /\ UNCHANGED <<m_participant, alive, made, old, used>>

\* if (!m_participant); otherwise the call returns at once.
TestParticipant(t) ==
  /\ m_participant = None
  /\ Step(t, "idle", "make")
  /\ overlapped' = (overlapped \/ \E u \in Threads : pc[u] \in Initialising)
  /\ UNCHANGED <<m_participant, alive, made, old, used>>

MakeShared(t) ==
  /\ Step(t, "make", "assign")
  /\ \E x \in Objects \ alive :
       made' = [made EXCEPT ![t] = x] /\ alive' = alive \cup {x}
  /\ UNCHANGED <<m_participant, old, used, overlapped>>

\* The assignment of m_participant: what it releases ...
AssignReads(t) ==
  /\ Step(t, "assign", "store")
  /\ old' = [old EXCEPT ![t] = m_participant]
  /\ UNCHANGED <<m_participant, alive, made, used, overlapped>>

\* ... and what it stores.  The object released is destroyed.
AssignStores(t) ==
  /\ Step(t, "store", "idle")
  /\ m_participant' = made[t]
  /\ alive' = alive \ {old[t]}
  /\ made' = [made EXCEPT ![t] = None]
  /\ old' = [old EXCEPT ![t] = None]
  /\ UNCHANGED <<used, overlapped>>
-----------------------------------------------------------------------------
\* createDataWriter, createDataReader

\* m_participant->registerTopic(...) is entered, ...
CallRegisterTopic(t) ==
  /\ m_participant # None
  /\ Step(t, "idle", "registerTopic")
  /\ used' = [used EXCEPT ![t] = {m_participant}]
  /\ UNCHANGED <<m_participant, alive, made, old, overlapped>>

\* ... returns true, or false, which ends the call.
RegisterTopicReturns(t) ==
  /\ \/ Step(t, "registerTopic", "create") /\ UNCHANGED used
     \/ Step(t, "registerTopic", "idle") /\ used' = [used EXCEPT ![t] = {}]
  /\ UNCHANGED <<m_participant, alive, made, old, overlapped>>

\* Then m_participant is read again.
CallCreate(t) ==
  /\ Step(t, "create", "endpoint")
  /\ used' = [used EXCEPT ![t] = @ \cup {m_participant}]
  /\ UNCHANGED <<m_participant, alive, made, old, overlapped>>

CreateReturns(t) ==
  /\ Step(t, "endpoint", "idle")
  /\ used' = [used EXCEPT ![t] = {}]
  /\ UNCHANGED <<m_participant, alive, made, old, overlapped>>

Next ==
  \E t \in Threads :
    \/ TestParticipant(t) \/ MakeShared(t) \/ AssignReads(t) \/ AssignStores(t)
    \/ CallRegisterTopic(t) \/ RegisterTopicReturns(t) \/ CallCreate(t) \/ CreateReturns(t)

Spec == Init /\ [][Next]_vars
-----------------------------------------------------------------------------
\* Properties.

(***************************************************************************)
(* Unless two calls of initDomainParticipant overlapped, a call never runs *)
(* in a DDSDomainParticipant that was destroyed, and registers its topic   *)
(* with the same one that then makes the endpoint.                         *)
(***************************************************************************)
CallsStayInOneParticipant ==
  ~overlapped =>
    \A t \in Threads : used[t] \subseteq alive /\ \A x, y \in used[t] : x = y

(***************************************************************************)
(* Unless two calls of initDomainParticipant overlapped, at most one       *)
(* DDSDomainParticipant, and so one Fast DDS participant, ever exists, and *)
(* none is lost: each that exists is, or is about to be, m_participant.    *)
(***************************************************************************)
OneParticipant ==
  ~overlapped =>
    /\ \A x, y \in alive : x = y
    /\ \A x \in alive : x = m_participant \/ \E t \in Threads : made[t] = x
=============================================================================
