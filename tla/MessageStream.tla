---------------------------- MODULE MessageStream ----------------------------
(***************************************************************************)
(* What the application may expect between writeMessage on one side and    *)
(* its callback on the other: a stream that may lose messages, but never   *)
(* repeats, reorders or invents one.                                       *)
(***************************************************************************)
EXTENDS Naturals, Sequences

CONSTANT Numbers    \* what samples are numbered with

VARIABLES
  messages,   \* numbers of the messages written so far
  received    \* messages the callback was called with, in order

Init == messages = {} /\ received = <<>>

Write ==
  \E k \in Numbers : messages' = messages \cup {k} /\ UNCHANGED received

\* Message k is younger than all that were received before.
Deliver ==
  \E k \in messages :
    /\ \A i \in DOMAIN received : received[i] < k
    /\ received' = Append(received, k)
    /\ UNCHANGED messages

Next == Write \/ Deliver

Spec == Init /\ [][Next]_<<messages, received>>
=============================================================================
