----------------------- MODULE DataReaderDeliveryProofs -----------------------
(***************************************************************************)
(* Proofs about DataReaderDelivery, for every history depth, every size of *)
(* the batches and every number of samples.                                *)
(***************************************************************************)
EXTENDS DataReaderDelivery, SequenceTheorems, TLAPS

\* What is held and what was received are numbers of samples.
LEMMA SampleNumbers ==
  ASSUME TypeOK
  PROVE  /\ DOMAIN received = 1..Len(received) /\ Len(received) \in Nat
         /\ \A i \in DOMAIN received : received[i] \in messages /\ received[i] \in Nat
         /\ DOMAIN history = 1..Len(history) /\ Len(history) \in Nat
         /\ \A i \in DOMAIN history : history[i] \in 1..seen /\ history[i] \in Nat
<1>1. /\ received \in Seq(messages) /\ messages \subseteq Nat
      /\ history \in Seq(1..seen) /\ 1..seen \subseteq Nat
  BY MaxSentAssumption DEF TypeOK
<1>2. DOMAIN received = 1..Len(received) /\ Len(received) \in Nat
  BY <1>1, LenProperties
<1>3. DOMAIN history = 1..Len(history) /\ Len(history) \in Nat
  BY <1>1, LenProperties
<1>4. \A i \in DOMAIN received : received[i] \in messages
  BY <1>1, <1>2, ElementOfSeq
<1>5. \A i \in DOMAIN history : history[i] \in 1..seen
  BY <1>1, <1>3, ElementOfSeq
<1> QED
  BY <1>1, <1>2, <1>3, <1>4, <1>5

\* Initially nothing is written, held or received.
LEMMA InitDInv == Init => DInv
<1> SUFFICES ASSUME Init PROVE DInv
  OBVIOUS
<1> USE DepthAssumption, BatchAssumption, MaxSentAssumption
<1>1. TypeOK
  <2>1. m_callback \in BOOLEAN /\ enabled \in BOOLEAN
    BY Zenon DEF Init
  <2>2. history \in Seq(1..seen) /\ Len(history) <= Depth /\ received \in Seq(messages)
    BY EmptySeq DEF Init
  <2> QED
    BY <2>1, <2>2 DEF Init, TypeOK, Phases
<1>2. Lifetime
  BY DEF Init, Lifetime
<1>3. Ordered
  BY DEF Init, Ordered
<1> QED
  BY <1>1, <1>2, <1>3 DEF Init, DInv

\* The constructor and the destructor of DDSTopicDataReader keep DInv.
LEMMA ObjectStep ==
  DInv /\ (SetCallback \/ create_datareader \/ Constructed \/ Destruct) => DInv'
<1> USE DepthAssumption, BatchAssumption, MaxSentAssumption
<1>1. ASSUME DInv, SetCallback PROVE DInv'
  BY <1>1 DEF DInv, TypeOK, Lifetime, Ordered, SetCallback, written, delivery, Phases
<1>2. ASSUME DInv, create_datareader PROVE DInv'
  <2>1. history = <<>> /\ listener = "idle"
    BY <1>2 DEF DInv, Lifetime, create_datareader
  <2>2. seen \in 0..sent /\ sent \in 0..MaxSent
    BY <1>2 DEF DInv, TypeOK
  <2>3. TypeOK'
    BY <1>2, <2>1, <2>2 DEF DInv, TypeOK, create_datareader, written, Phases
  <2>4. Lifetime'
    BY <1>2, <2>1 DEF DInv, Lifetime, create_datareader, written
  <2>5. \A i \in DOMAIN received : received[i] \in Nat /\ received[i] <= seen
    BY <1>2, SampleNumbers DEF DInv, Ordered
  <2>6. Ordered'
    BY <1>2, <2>1, <2>2, <2>5 DEF Ordered, create_datareader, written
  <2> QED
    BY <1>2, <2>1, <2>3, <2>4, <2>6 DEF DInv, create_datareader
<1>3. ASSUME DInv, Constructed PROVE DInv'
  BY <1>3 DEF DInv, TypeOK, Lifetime, Ordered, Constructed, written, delivery, Phases
<1>4. ASSUME DInv, Destruct PROVE DInv'
  <2>1. TypeOK'
    <3>1. m_callback' \in BOOLEAN /\ enabled' \in BOOLEAN
      BY <1>4, Zenon DEF Destruct
    <3>2. history' \in Seq(1..seen') /\ Len(history') <= Depth
      BY <1>4, EmptySeq DEF Destruct
    <3> QED
      BY <1>4, <3>1, <3>2 DEF DInv, TypeOK, Destruct, written, Phases
  <2>2. Lifetime'
    BY <1>4 DEF DInv, Lifetime, Destruct, written
  <2>3. Ordered'
    BY <1>4 DEF DInv, Ordered, Destruct, written
  <2> QED
    BY <1>4, <2>1, <2>2, <2>3 DEF DInv, Destruct
<1> QED
  BY <1>1, <1>2, <1>3, <1>4

\* A write changes what can still arrive, nothing on the reader's side.
LEMMA WriteStep == DInv /\ (writeMessage \/ WriteState) => DInv'
<1> SUFFICES ASSUME DInv, writeMessage \/ WriteState PROVE DInv'
  OBVIOUS
<1> USE DepthAssumption, BatchAssumption, MaxSentAssumption
<1> USE DEF object, delivery
<1>1. /\ UNCHANGED <<object, delivery>>
      /\ sent \in Nat /\ sent' = sent + 1 /\ sent < MaxSent
      /\ messages \subseteq messages' /\ messages' \subseteq 1..sent'
  <2>1. sent \in Nat /\ messages \subseteq 1..sent
    BY DEF DInv, TypeOK
  <2>2. CASE writeMessage
    BY <2>1, <2>2 DEF writeMessage
  <2>3. CASE WriteState
    BY <2>1, <2>3 DEF WriteState
  <2> QED
    BY <2>2, <2>3
<1>2. seen' \in 0..sent' /\ history' \in Seq(1..seen')
  BY <1>1 DEF DInv, TypeOK
<1>3. received' \in Seq(messages')
  BY <1>1, SeqMonotonic DEF DInv, TypeOK
<1>4. TypeOK'
  BY <1>1, <1>2, <1>3 DEF DInv, TypeOK
<1>5. Lifetime' /\ Ordered'
  BY <1>1 DEF DInv, Lifetime, Ordered
<1> QED
  BY <1>1, <1>4, <1>5 DEF DInv

\* A sample enters the history at its end; the oldest may have to go.
LEMMA AvailableStep ==
  ASSUME DInv, NEW k \in 1..MaxSent, Available(k)
  PROVE  DInv'
<1> USE DepthAssumption, BatchAssumption, MaxSentAssumption
<1> DEFINE h == Append(history, k)
<1>1. /\ seen \in Nat /\ sent \in Nat /\ k \in Nat /\ seen < k /\ k <= sent /\ seen' = k
      /\ history' = KeepLast(h) /\ enabled /\ listener' = "arriving"
      /\ UNCHANGED <<pc, m_callback, enabled, sent, messages, received>>
      /\ batch' \in 0..Batch
  BY DEF DInv, TypeOK, Available, object, written
<1>2. /\ history \in Seq(1..k) /\ Len(history) \in Nat /\ Len(history) <= Depth
      /\ \A i \in DOMAIN history : history[i] \in Nat /\ history[i] <= seen
  <2>1. history \in Seq(1..seen) /\ 1..seen \subseteq 1..k
    BY <1>1 DEF DInv, TypeOK
  <2> QED
    BY <2>1, <1>1, SeqMonotonic DEF DInv, TypeOK
<1>3. /\ h \in Seq(1..k) /\ h # <<>> /\ Len(h) = Len(history) + 1
      /\ h[Len(history) + 1] = k
      /\ \A i \in 1..Len(history) : h[i] = history[i]
  <2>1. k \in 1..k
    BY <1>1
  <2> QED
    BY <1>2, <2>1, AppendProperties
<1>4. /\ \A i, j \in DOMAIN h : i < j => h[i] < h[j]
      /\ \A i \in DOMAIN received, j \in DOMAIN h : received[i] < h[j]
  <2>1. DOMAIN h = 1..(Len(history) + 1) /\ DOMAIN history = 1..Len(history)
    BY <1>2, <1>3, LenProperties
  <2>2. /\ \A i, j \in DOMAIN history : i < j => history[i] < history[j]
        /\ \A i \in DOMAIN received, j \in DOMAIN history : received[i] < history[j]
        /\ \A i \in DOMAIN received : received[i] <= seen
    BY DEF DInv, Ordered
  <2>3. \A i \in DOMAIN received : received[i] \in Nat
    BY SampleNumbers DEF DInv
  <2> QED
    BY <1>1, <1>2, <1>3, <2>1, <2>2, <2>3
<1> HIDE DEF h
<1>5. /\ history' \in Seq(1..k) /\ history' # <<>> /\ Len(history') <= Depth
      /\ history'[Len(history')] = k
      /\ \A i, j \in DOMAIN history' : i < j => history'[i] < history'[j]
      /\ \A i \in DOMAIN received, j \in DOMAIN history' : received[i] < history'[j]
  <2>1. CASE Len(h) <= Depth
    BY <1>1, <1>2, <1>3, <1>4, <2>1 DEF KeepLast
  <2>2. CASE Len(h) > Depth
    <3>1. /\ history' = Tail(h) /\ Tail(h) \in Seq(1..k) /\ Len(Tail(h)) = Len(h) - 1
          /\ \A i \in 1..Len(Tail(h)) : Tail(h)[i] = h[i + 1]
      BY <1>1, <1>3, <2>2, HeadTailProperties DEF KeepLast
    <3>2. Len(history') = Len(history) /\ Len(history) = Depth /\ DOMAIN history' = 1..Depth
      BY <1>2, <1>3, <2>2, <3>1, LenProperties
    <3>3. DOMAIN h = 1..(Depth + 1)
      BY <1>3, <3>2, LenProperties
    <3>4. \A i \in 1..Depth : history'[i] = h[i + 1] /\ i + 1 \in DOMAIN h
      BY <1>3, <3>1, <3>2, <3>3
    <3>5. \A i, j \in DOMAIN history' : i < j => history'[i] < history'[j]
      <4> SUFFICES ASSUME NEW i \in 1..Depth, NEW j \in 1..Depth, i < j
                   PROVE  history'[i] < history'[j]
        BY <3>2
      <4>1. i + 1 < j + 1
        OBVIOUS
      <4> QED
        BY <1>4, <3>4, <4>1
    <3>6. history'[Len(history')] = k
      BY <1>3, <3>2, <3>4
    <3> QED
      BY <1>3, <1>4, <3>1, <3>2, <3>4, <3>5, <3>6
  <2> QED
    BY <1>2, <1>3, <2>1, <2>2
<1>6. TypeOK'
  BY <1>1, <1>5 DEF DInv, TypeOK
<1>7. Lifetime'
  BY <1>1 DEF DInv, Lifetime
<1>8. Ordered'
  <2>1. \A i \in DOMAIN received : received[i] \in Nat /\ received[i] <= seen
    BY SampleNumbers DEF DInv, Ordered
  <2> QED
    BY <1>1, <1>5, <2>1 DEF Ordered
<1> QED
  BY <1>1, <1>5, <1>6, <1>7, <1>8 DEF DInv

\* The notification of what became available changes only the listener's state.
LEMMA NotifyStep == DInv /\ Notify => DInv'
<1> SUFFICES ASSUME DInv, Notify PROVE DInv'
  OBVIOUS
<1> QED
  BY BatchAssumption DEF DInv, TypeOK, Lifetime, Ordered, Notify, object, written

\* The oldest sample leaves the history, for the callback or for nobody.
LEMMA TakeStep == DInv /\ on_data_available => DInv'
<1> SUFFICES ASSUME DInv, on_data_available PROVE DInv'
  OBVIOUS
<1> USE DepthAssumption
<1> DEFINE k == Head(history)
<1>1. /\ UNCHANGED <<pc, m_callback, enabled, sent, messages, seen, batch>>
      /\ listener = "notified" /\ listener' = "idle" /\ enabled
      /\ history \in Seq(1..seen) /\ history # <<>> /\ history' = Tail(history)
      /\ Len(history) \in Nat /\ Len(history) <= Depth
      /\ \/ received' = received
         \/ k \in messages /\ received' = Append(received, k)
  BY SampleNumbers DEF DInv, TypeOK, Lifetime, on_data_available, object, written
<1>2. /\ history' \in Seq(1..seen) /\ Len(history') = Len(history) - 1
      /\ \A i \in 1..Len(history') : history'[i] = history[i + 1]
      /\ k = history[1]
  BY <1>1, HeadTailProperties
<1>3. DOMAIN history = 1..Len(history) /\ DOMAIN history' = 1..(Len(history) - 1)
  BY <1>1, <1>2, LenProperties
<1>4. \A i \in DOMAIN history' : history'[i] = history[i + 1] /\ i + 1 \in DOMAIN history
  BY <1>1, <1>2, <1>3
<1>5. k \in 1..seen /\ 1 \in DOMAIN history
  BY <1>1, <1>2, <1>3, SampleNumbers DEF DInv
<1>6. \A i \in DOMAIN history' : k < history'[i]
  BY <1>1, <1>2, <1>3, <1>4, <1>5 DEF DInv, Ordered
<1>7. /\ received' \in Seq(messages)
      /\ \A i \in DOMAIN received' : received'[i] = k \/ (i \in DOMAIN received /\ received'[i] = received[i])
  <2>1. CASE received' = received
    BY <2>1 DEF DInv, TypeOK
  <2>2. CASE k \in messages /\ received' = Append(received, k)
    <3>1. received \in Seq(messages) /\ Len(received) \in Nat /\ DOMAIN received = 1..Len(received)
      BY SampleNumbers DEF DInv, TypeOK
    <3>2. /\ received' \in Seq(messages) /\ Len(received') = Len(received) + 1
          /\ \A i \in 1..Len(received) : received'[i] = received[i]
          /\ received'[Len(received) + 1] = k
      BY <2>2, <3>1, AppendProperties
    <3>3. DOMAIN received' = 1..(Len(received) + 1)
      BY <3>2, LenProperties
    <3>4. ASSUME NEW i \in DOMAIN received'
          PROVE  received'[i] = k \/ (i \in DOMAIN received /\ received'[i] = received[i])
      <4>1. i \in 1..Len(received) \/ i = Len(received) + 1
        BY <3>1, <3>3
      <4> QED
        BY <3>1, <3>2, <4>1
    <3> QED
      BY <3>2, <3>4
  <2> QED
    BY <1>1, <2>1, <2>2
<1> HIDE DEF k
<1>8. TypeOK'
  BY <1>1, <1>2, <1>7 DEF DInv, TypeOK
<1>9. Lifetime'
  BY <1>1 DEF DInv, Lifetime
<1>10. Ordered'
  <2>1. /\ \A i, j \in DOMAIN history : i < j => history[i] < history[j]
        /\ \A i \in DOMAIN received, j \in DOMAIN history : received[i] < history[j]
        /\ \A i \in DOMAIN received : received[i] <= seen
        /\ history[Len(history)] = seen
    BY <1>1 DEF DInv, Ordered
  <2>2. \A i, j \in DOMAIN history' : i < j => history'[i] < history'[j]
    BY <1>3, <1>4, <2>1
  <2>3. \A i \in DOMAIN received', j \in DOMAIN history' : received'[i] < history'[j]
    BY <1>4, <1>6, <1>7, <2>1
  <2>4. \A i \in DOMAIN received' : received'[i] <= seen'
    BY <1>1, <1>5, <1>7, <2>1 DEF DInv, TypeOK
  <2>5. history' # <<>> => history'[Len(history')] = seen'
    <3>1. history' # <<>> => Len(history') \in DOMAIN history'
      BY <1>1, <1>2, <1>3, EmptySeq
    <3> QED
      BY <1>1, <1>2, <1>4, <2>1, <3>1
  <2> QED
    BY <2>2, <2>3, <2>4, <2>5 DEF Ordered
<1> QED
  BY <1>1, <1>2, <1>8, <1>9, <1>10 DEF DInv

\* Every step of Next, and a stutter, keeps DInv.
LEMMA NextDInv == DInv /\ [Next]_vars => DInv'
<1> SUFFICES ASSUME DInv, [Next]_vars PROVE DInv'
  OBVIOUS
<1>1. CASE SetCallback \/ create_datareader \/ Constructed \/ Destruct
  BY <1>1, ObjectStep
<1>2. CASE writeMessage \/ WriteState
  BY <1>2, WriteStep
<1>3. CASE \E k \in 1..MaxSent : Available(k)
  BY <1>3, AvailableStep
<1>4. CASE Notify
  BY <1>4, NotifyStep
<1>5. CASE on_data_available
  BY <1>5, TakeStep
<1>6. CASE UNCHANGED vars
  BY <1>6 DEF vars, object, written, delivery, DInv, TypeOK, Lifetime, Ordered
<1> QED
  BY <1>1, <1>2, <1>3, <1>4, <1>5, <1>6 DEF Next
-----------------------------------------------------------------------------
\* DInv holds in every state: the history and the callback stay in order.
THEOREM DeliveryInvariance == Spec => []DInv
<1> QED
  BY InitDInv, NextDInv, PTL DEF Spec

\* The variables keep their types, and the history its depth.
THEOREM DeliveryTypeCorrect == Spec => []TypeOK
<1>1. DInv => TypeOK
  BY DEF DInv
<1> QED
  BY <1>1, DeliveryInvariance, PTL

\* Fast DDS never calls a listener without callback, or one that was destroyed.
THEOREM ListenerInLifetime == Spec => []NotifiedInLifetime
<1>1. DInv => NotifiedInLifetime
  BY DEF DInv, Lifetime, NotifiedInLifetime
<1> QED
  BY <1>1, DeliveryInvariance, PTL

\* One take per notification leaves fewer than Depth samples behind.
THEOREM BacklogBounded == Spec => []BoundedBacklog
<1>1. DInv => BoundedBacklog
  BY DEF DInv, BoundedBacklog
<1> QED
  BY <1>1, DeliveryInvariance, PTL

\* With depth 1 each notification hands the newest message to the callback.
THEOREM NewestReachesCallback == Spec => NewestDelivered
<1>1. DInv /\ [Next]_vars => [NewestTaken]_vars
  <2> SUFFICES ASSUME DInv, Next, Depth = 1, listener = "notified", listener' = "idle", seen \in messages
               PROVE  received' = Append(received, seen)
    BY DEF NewestTaken
  <2>1. on_data_available
    BY DEF Next, SetCallback, create_datareader, Constructed, Destruct, writeMessage,
           WriteState,
           Available, Notify, object, written, delivery, DInv, Lifetime
  <2>2. /\ history # <<>> /\ history \in Seq(1..seen) /\ Len(history) <= Depth
        /\ history[Len(history)] = seen
    BY DEF DInv, TypeOK, Ordered
  <2>3. Len(history) \in Nat \ {0}
    BY <2>2, EmptySeq
  <2>4. Len(history) = 1
    <3> SUFFICES ASSUME NEW n \in Nat \ {0}, n <= Depth
                 PROVE  n = 1
      BY <2>2, <2>3
    <3> QED
      OBVIOUS
  <2>5. Head(history) = seen
    BY <2>2, <2>4
  <2> QED
    BY <2>1, <2>5 DEF on_data_available
<1> QED
  BY <1>1, DeliveryInvariance, PTL DEF Spec, NewestDelivered
-----------------------------------------------------------------------------
\* The detailed specification implements the abstract stream, step by step:
\* the writer's side is Write, a take that calls the callback is Deliver.
THEOREM StreamImplemented == Spec => ImplementsStream
<1>1. Init => Stream!Init
  BY DEF Init, Stream!Init
<1>2. DInv /\ [Next]_vars => [Stream!Next]_<<messages, received>>
  <2> SUFFICES ASSUME DInv, [Next]_vars PROVE [Stream!Next]_<<messages, received>>
    OBVIOUS
  <2>1. CASE writeMessage
    <3>1. sent + 1 \in 1..MaxSent
      BY <2>1, MaxSentAssumption DEF DInv, TypeOK, writeMessage
    <3> QED
      BY <2>1, <3>1 DEF writeMessage, delivery, Stream!Next, Stream!Write
  <2>2. CASE on_data_available
    <3>1. \A i \in DOMAIN received : received[i] < Head(history)
      <4>1. history # <<>> /\ history \in Seq(1..seen)
        BY <2>2 DEF DInv, TypeOK, on_data_available
      <4>2. 1 \in DOMAIN history /\ Head(history) = history[1]
        BY <4>1, SampleNumbers, EmptySeq DEF DInv
      <4> QED
        BY <4>2 DEF DInv, Ordered
    <3> QED
      BY <2>2, <3>1 DEF on_data_available, written, Stream!Next, Stream!Deliver
  <2>3. CASE ~writeMessage /\ ~on_data_available
    BY <2>3 DEF Next, SetCallback, create_datareader, Constructed, Destruct, WriteState,
                Available, Notify, vars, object, written, delivery
  <2> QED
    BY <2>1, <2>2, <2>3
<1> QED
  BY <1>1, <1>2, DeliveryInvariance, PTL DEF Spec, ImplementsStream, Stream!Spec
=============================================================================
