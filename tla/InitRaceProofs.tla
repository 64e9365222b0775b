---------------------------- MODULE InitRaceProofs ----------------------------
(***************************************************************************)
(* Calls of initDomainParticipant that do not overlap keep m_participant   *)
(* in order, for any number of threads that use it meanwhile.              *)
(***************************************************************************)
EXTENDS InitRace, TLAPS

\* Overlap or not: a thread assigns what it made, and m_participant is not
\* null again once a thread uses it.
Assigned ==
  /\ \A t \in Threads : pc[t] \in {"assign", "store"} => made[t] # None
  /\ \A t \in Threads : pc[t] \in {"registerTopic", "create", "endpoint"} => m_participant # None

(***************************************************************************)
(* Without overlap: one thread at most initialises; it found m_participant *)
(* null and so does its assignment; what exists is m_participant or what   *)
(* that thread has made; and m_participant is all that is used.            *)
(***************************************************************************)
Orderly ==
  /\ \A t, u \in Threads : pc[t] \in Initialising /\ pc[u] \in Initialising => t = u
  /\ \A t \in Threads : pc[t] \in Initialising => m_participant = None
  /\ \A t \in Threads : old[t] = None
  /\ \A t \in Threads : made[t] # None => pc[t] \in {"assign", "store"} /\ made[t] \in alive
  /\ \A x \in alive : x = m_participant \/ \E t \in Threads : made[t] = x
  /\ m_participant # None => m_participant \in alive
  /\ \A t \in Threads : used[t] \subseteq {m_participant} \ {None}

Inv == TypeOK /\ Assigned /\ (~overlapped => Orderly)

\* Initially nothing exists.
LEMMA InitInv == Init => Inv
BY DEF Init, Inv, TypeOK, Assigned, Orderly, Steps, Initialising

\* Each of the eight steps keeps the invariant.
LEMMA StepInv == Inv /\ [Next]_vars => Inv'
<1> SUFFICES ASSUME Inv, [Next]_vars PROVE Inv'
  OBVIOUS
<1> USE NoneIsNoObject DEF Inv
<1>1. CASE UNCHANGED vars
  BY <1>1 DEF vars, TypeOK, Assigned, Orderly
<1>2. ASSUME NEW t \in Threads, TestParticipant(t) PROVE Inv'
  <2>1. TypeOK'
    BY <1>2 DEF TestParticipant, TypeOK, Step, Steps
  <2>2. Assigned'
    BY <1>2 DEF TestParticipant, TypeOK, Step, Assigned
  <2>3. ~overlapped' => Orderly'
    BY <1>2 DEF TestParticipant, TypeOK, Step, Steps, Orderly, Initialising
  <2> QED BY <2>1, <2>2, <2>3
<1>3. ASSUME NEW t \in Threads, MakeShared(t) PROVE Inv'
  <2>1. TypeOK'
    BY <1>3 DEF MakeShared, TypeOK, Step, Steps
  <2>2. Assigned'
    BY <1>3 DEF MakeShared, TypeOK, Step, Assigned
  <2>3. ~overlapped' => Orderly'
    BY <1>3 DEF MakeShared, TypeOK, Step, Steps, Orderly, Initialising
  <2> QED BY <2>1, <2>2, <2>3
<1>4. ASSUME NEW t \in Threads, AssignReads(t) PROVE Inv'
  <2>1. TypeOK'
    BY <1>4 DEF AssignReads, TypeOK, Step, Steps
  <2>2. Assigned'
    BY <1>4 DEF AssignReads, TypeOK, Step, Assigned
  <2>3. ~overlapped' => Orderly'
    BY <1>4 DEF AssignReads, TypeOK, Step, Steps, Orderly, Initialising
  <2> QED BY <2>1, <2>2, <2>3
<1>5. ASSUME NEW t \in Threads, AssignStores(t) PROVE Inv'
  <2>1. TypeOK'
    BY <1>5 DEF AssignStores, TypeOK, Assigned, Step, Steps
  <2>2. Assigned'
    BY <1>5 DEF AssignStores, TypeOK, Step, Assigned
  <2>3. ~overlapped' => Orderly'
    BY <1>5 DEF AssignStores, TypeOK, Step, Steps, Orderly, Assigned, Initialising
  <2> QED BY <2>1, <2>2, <2>3
<1>6. ASSUME NEW t \in Threads, CallRegisterTopic(t) PROVE Inv'
  <2>1. TypeOK'
    BY <1>6 DEF CallRegisterTopic, TypeOK, Step, Steps
  <2>2. Assigned'
    BY <1>6 DEF CallRegisterTopic, TypeOK, Step, Assigned
  <2>3. ~overlapped' => Orderly'
    BY <1>6 DEF CallRegisterTopic, TypeOK, Step, Steps, Orderly, Initialising
  <2> QED BY <2>1, <2>2, <2>3
<1>7. ASSUME NEW t \in Threads, RegisterTopicReturns(t) PROVE Inv'
  <2>1. TypeOK'
    BY <1>7 DEF RegisterTopicReturns, TypeOK, Step, Steps
  <2>2. Assigned'
    BY <1>7 DEF RegisterTopicReturns, TypeOK, Step, Assigned
  <2>3. ~overlapped' => Orderly'
    BY <1>7 DEF RegisterTopicReturns, TypeOK, Step, Steps, Orderly, Initialising
  <2> QED BY <2>1, <2>2, <2>3
<1>8. ASSUME NEW t \in Threads, CallCreate(t) PROVE Inv'
  <2>1. TypeOK'
    BY <1>8 DEF CallCreate, TypeOK, Assigned, Step, Steps
  <2>2. Assigned'
    BY <1>8 DEF CallCreate, TypeOK, Step, Assigned
  <2>3. ~overlapped' => Orderly'
    BY <1>8 DEF CallCreate, TypeOK, Step, Steps, Orderly, Assigned, Initialising
  <2> QED BY <2>1, <2>2, <2>3
<1>9. ASSUME NEW t \in Threads, CreateReturns(t) PROVE Inv'
  <2>1. TypeOK'
    BY <1>9 DEF CreateReturns, TypeOK, Step, Steps
  <2>2. Assigned'
    BY <1>9 DEF CreateReturns, TypeOK, Step, Assigned
  <2>3. ~overlapped' => Orderly'
    BY <1>9 DEF CreateReturns, TypeOK, Step, Steps, Orderly, Initialising
  <2> QED BY <2>1, <2>2, <2>3
<1> QED
  BY <1>1, <1>2, <1>3, <1>4, <1>5, <1>6, <1>7, <1>8, <1>9 DEF Next

\* The invariant holds throughout.
THEOREM InitRaceInvariance == Spec => []Inv
BY InitInv, StepInv, PTL DEF Spec

(***************************************************************************)
(* Without overlapping initialisations, no call runs in a destroyed        *)
(* DDSDomainParticipant, or in two of them.                                *)
(***************************************************************************)
THEOREM CallsSafe == Spec => []CallsStayInOneParticipant
<1>1. Inv => CallsStayInOneParticipant
  BY DEF Inv, Orderly, CallsStayInOneParticipant
<1> QED BY <1>1, InitRaceInvariance, PTL

\* Without overlapping initialisations, there is never a second participant.
THEOREM NoSecondParticipant == Spec => []OneParticipant
<1>1. Inv => OneParticipant
  <2> SUFFICES ASSUME TypeOK, Orderly, NEW x \in alive, NEW y \in alive PROVE x = y
    BY DEF Inv, Orderly, OneParticipant
  <2>1. x # None /\ y # None
    BY NoneIsNoObject DEF TypeOK
  <2>2. CASE m_participant # None
    BY <2>2, <2>1 DEF Orderly, Initialising
  <2>3. CASE m_participant = None
    <3>1. PICK t \in Threads, u \in Threads : made[t] = x /\ made[u] = y
      BY <2>1, <2>3 DEF Orderly
    <3> QED BY <2>1, <3>1 DEF Orderly, Initialising
  <2> QED BY <2>2, <2>3
<1> QED BY <1>1, InitRaceInvariance, PTL
=============================================================================
