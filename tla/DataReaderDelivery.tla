-------------------------- MODULE DataReaderDelivery --------------------------
(***************************************************************************)
(* The way of a message from writeMessage to the callback of a             *)
(* DDSTopicDataReader: DDSDataReaderListener::on_data_available takes one  *)
(* sample from the DataReader's history for each notification it gets.     *)
(*                                                                         *)
(* External: Fast DDS carries the samples of one writer to one reader in   *)
(* the order of their sequence numbers, with gaps; it keeps the last Depth *)
(* of them (KEEP_LAST; one instance, the topics have no key), and calls    *)
(* the listener, under the DataReader's lock, once for all samples that    *)
(* became available together: a reliable reader that waited for a missing  *)
(* sample gets several at once, a best-effort reader never more than one.  *)
(* Some samples carry a change of the instance's state and no message.     *)
(* A DataReader is enabled while create_datareader still runs, and         *)
(* delete_datareader waits for a running listener.                         *)
(***************************************************************************)
EXTENDS Naturals, Sequences

CONSTANTS
  Depth,      \* history depth of the reader (1 in DATAREADER_QOS_DEFAULT)
  Batch,      \* most samples that become available together
  MaxSent     \* bound: samples written

ASSUME DepthAssumption == Depth \in Nat \ {0}
ASSUME BatchAssumption == Batch \in Nat \ {0}
ASSUME MaxSentAssumption == MaxSent \in Nat

VARIABLES
  pc,         \* where the DDSTopicDataReader is between ctor and dtor
  m_callback, \* is m_readerListener.m_callback set?
  enabled,    \* does the DataReader exist?
  sent,       \* sequence number of the sample written last
  messages,   \* those samples that carry a message
  seen,       \* sequence number of the sample that became available last
  history,    \* samples the DataReader holds, oldest first
  listener,   \* "idle", "arriving" (samples become available), "notified"
  batch,      \* samples of the notification in preparation
  received    \* messages the callback was called with

object == <<pc, m_callback, enabled>>
written == <<sent, messages>>
delivery == <<seen, history, listener, batch, received>>
vars == <<object, written, delivery>>

Phases == {"start", "callback_set", "creating", "constructed", "destroyed"}

\* Types; what is notified is in the history, which keeps Depth samples.
TypeOK ==
  /\ pc \in Phases
  /\ m_callback \in BOOLEAN
  /\ enabled \in BOOLEAN
  /\ sent \in 0..MaxSent
  /\ messages \subseteq 1..sent
  /\ seen \in 0..sent
  /\ history \in Seq(1..seen)
  /\ Len(history) <= Depth
  /\ listener \in {"idle", "arriving", "notified"}
  /\ batch \in 0..Batch
  /\ received \in Seq(messages)

Init ==
  /\ pc = "start" /\ m_callback = FALSE /\ enabled = FALSE
  /\ sent = 0 /\ messages = {}
  /\ seen = 0 /\ history = <<>> /\ listener = "idle" /\ batch = 0
  /\ received = <<>>
-----------------------------------------------------------------------------
\* The constructor and the destructor of DDSTopicDataReader.

\* Mutant of SetCallback: the callback is not passed on.
SetCallback_Dropped ==
  /\ pc = "start"
  /\ pc' = "callback_set"
  /\ UNCHANGED <<m_callback, enabled, written, delivery>>

\* m_readerListener.m_callback = callback
SetCallback ==
  /\ pc = "start"
  /\ pc' = "callback_set"
  /\ m_callback' = TRUE
  /\ UNCHANGED <<enabled, written, delivery>>

\* External: create_datareader creates and enables the DataReader, or fails.
\* It starts with the samples written from now on (volatile durability).
create_datareader ==
  /\ pc = "callback_set"
  /\ pc' = "creating"
  /\ enabled' \in BOOLEAN
  /\ seen' = sent
  /\ UNCHANGED <<m_callback, written, history, listener, batch, received>>

\* m_dataReader is assigned, null if create_datareader failed.
Constructed ==
  /\ pc = "creating"
  /\ pc' = "constructed"
  /\ UNCHANGED <<m_callback, enabled, written, delivery>>

\* Mutant of Destruct: the DataReader is not deleted.
Destruct_KeepsReader ==
  /\ pc = "constructed"
  /\ pc' = "destroyed"
  /\ m_callback' = FALSE
  /\ UNCHANGED <<enabled, written, delivery>>

\* delete_datareader unless m_dataReader is null; then the members die, the
\* listener and its callback with them.
Destruct ==
  /\ pc = "constructed"
  /\ enabled => listener # "notified"
  /\ pc' = "destroyed"
  /\ m_callback' = FALSE
  /\ enabled' = FALSE
  /\ history' = <<>> /\ listener' = "idle" /\ batch' = 0
  /\ UNCHANGED <<written, seen, received>>
-----------------------------------------------------------------------------
\* The writer's side.

\* A successful write.  (A write that Fast DDS refuses changes nothing.)
writeMessage ==
  /\ sent < MaxSent
  /\ sent' = sent + 1
  /\ messages' = messages \cup {sent + 1}
  /\ UNCHANGED <<object, delivery>>

\* Another application's writer changes the state of the instance.
WriteState ==
  /\ sent < MaxSent
  /\ sent' = sent + 1
  /\ UNCHANGED <<messages, object, delivery>>
-----------------------------------------------------------------------------
\* The reader's side.

\* The history after a sample was added to it.
KeepLast(h) == IF Len(h) > Depth THEN Tail(h) ELSE h

\* Sample k becomes available; what lies between seen and k is lost.
Available(k) ==
  /\ enabled
  /\ listener # "notified"
  /\ batch < Batch
  /\ k \in (seen + 1)..sent
  /\ seen' = k
  /\ history' = KeepLast(Append(history, k))
  /\ listener' = "arriving"
  /\ batch' = batch + 1
  /\ UNCHANGED <<object, written, received>>

Notify ==
  /\ listener = "arriving"
  /\ listener' = "notified"
  /\ batch' = 0
  /\ UNCHANGED <<object, written, seen, history, received>>

\* Mutant of on_data_available: the sample is read, and stays in the history.
on_data_available_Reads ==
  /\ listener = "notified"
  /\ listener' = "idle"
  /\ IF Head(history) \in messages
     THEN received' = Append(received, Head(history))
     ELSE UNCHANGED received
  /\ UNCHANGED <<object, written, seen, history, batch>>

\* Mutant of on_data_available: valid_data is not looked at.
on_data_available_AnySample ==
  /\ listener = "notified"
  /\ listener' = "idle"
  /\ history' = Tail(history)
  /\ received' = Append(received, Head(history))
  /\ UNCHANGED <<object, written, seen, batch>>

\* Mutant of on_data_available: the test of valid_data is inverted.
on_data_available_Inverted ==
  /\ listener = "notified"
  /\ listener' = "idle"
  /\ history' = Tail(history)
  /\ IF Head(history) \in messages
     THEN UNCHANGED received
     ELSE received' = Append(received, Head(history))
  /\ UNCHANGED <<object, written, seen, batch>>

\* take_next_sample, and the callback if the sample has valid data.
on_data_available ==
  /\ listener = "notified"
  /\ listener' = "idle"
  /\ history' = Tail(history)
  /\ IF Head(history) \in messages
     THEN received' = Append(received, Head(history))
     ELSE UNCHANGED received
  /\ UNCHANGED <<object, written, seen, batch>>

Next ==
  \/ SetCallback
  \/ create_datareader
  \/ Constructed
  \/ Destruct
  \/ writeMessage
  \/ WriteState
  \/ \E k \in 1..MaxSent : Available(k)
  \/ Notify
  \/ on_data_available

Spec == Init /\ [][Next]_vars

\* Fast DDS notifies of what became available, and runs the listener.
FairSpec == Spec /\ WF_vars(Notify) /\ WF_vars(on_data_available)
-----------------------------------------------------------------------------
\* Properties.

(***************************************************************************)
(* The inductive invariant: the DataReader lives between the constructor   *)
(* and the destructor; the history is ordered, ends with the sample that   *)
(* became available last, holds one to be taken for each notification, and *)
(* only samples younger than everything the callback got.                  *)
(***************************************************************************)
Ordered ==
  /\ \A i, j \in DOMAIN history : i < j => history[i] < history[j]
  /\ \A i \in DOMAIN received, j \in DOMAIN history : received[i] < history[j]
  /\ \A i \in DOMAIN received : received[i] <= seen
  /\ history # <<>> => history[Len(history)] = seen

Lifetime ==
  /\ m_callback <=> pc \in {"callback_set", "creating", "constructed"}
  /\ enabled => pc \in {"creating", "constructed"}
  /\ ~enabled => listener = "idle" /\ history = <<>>

DInv ==
  /\ TypeOK
  /\ Lifetime
  /\ Ordered
  /\ IF listener = "idle" THEN Len(history) < Depth ELSE history # <<>>

(***************************************************************************)
(* When Fast DDS calls the listener, the listener exists and its callback  *)
(* is set, also while the constructor still runs and until the destructor  *)
(* has deleted the DataReader.                                             *)
(***************************************************************************)
NotifiedInLifetime ==
  listener = "notified" => m_callback /\ pc \in {"creating", "constructed"}

(***************************************************************************)
(* Between two notifications fewer than Depth samples wait in the history: *)
(* although one notification may stand for many samples and only one is    *)
(* taken, KEEP_LAST bounds how far the callback lags behind.  With depth 1,*)
(* which every reader made by DDSParticipantManager has, none waits.       *)
(***************************************************************************)
BoundedBacklog == listener = "idle" => Len(history) < Depth

(***************************************************************************)
(* With depth 1, every notification ends with the callback having got the  *)
(* newest sample that is available, if it carries a message: one take per  *)
(* notification loses older messages, but never holds the newest back.     *)
(***************************************************************************)
NewestTaken ==
  Depth = 1 /\ listener = "notified" /\ listener' = "idle" /\ seen \in messages =>
    received' = Append(received, seen)
NewestDelivered == [][NewestTaken]_vars

\* The callback sees a lossy stream: no repetition, reordering or invention.
Stream == INSTANCE MessageStream WITH Numbers <- 1..MaxSent
ImplementsStream == Stream!Spec

(***************************************************************************)
(* With depth 1, no sample stays in the history for ever, even if no other *)
(* follows.  (With a greater depth one may: the last samples of a batch    *)
(* wait for the next notification.)                                        *)
(***************************************************************************)
InHistory(k) == \E i \in DOMAIN history : history[i] = k
NothingStaysBehind == \A k \in 1..MaxSent : InHistory(k) ~> ~InHistory(k)
=============================================================================
