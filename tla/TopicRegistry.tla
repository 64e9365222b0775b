---------------------------- MODULE TopicRegistry ----------------------------
(***************************************************************************)
(* What DDSDomainParticipant promises to concurrent callers: a registry of *)
(* topics in which every operation takes effect at one instant between its *)
(* call and its return, and answers from the state of that instant.  The   *)
(* state is that of the Fast DDS participant, so the wrapper's own map     *)
(* must never disagree with it where a caller could tell.                  *)
(***************************************************************************)
CONSTANTS TopicNames, TypeNames, Endpoints, Threads, None

VARIABLES
  registered,   \* data type of each existing topic
  taken,        \* type names some call has used up
  users,        \* the DataWriters and DataReaders of each topic
  request,      \* the call each thread is in
  answer,       \* its answer, once decided but not yet returned
  response      \* the answer each thread got last

vars == <<registered, taken, users, request, answer, response>>
registry == <<registered, taken, users>>

OpenOps == {"createDataWriter", "createDataReader"}
Requests ==
  [op : {"registerTopic"}, name : TopicNames, type : TypeNames]
    \cup [op : OpenOps \cup {"unregisterTopic"}, name : TopicNames, type : {None}]

Init ==
  /\ registered = [n \in TopicNames |-> None]
  /\ taken = {}
  /\ users = [n \in TopicNames |-> {}]
  /\ request = [t \in Threads |-> None]
  /\ answer = [t \in Threads |-> None]
  /\ response = [t \in Threads |-> "none"]

Invoke(t) ==
  /\ request[t] = None
  /\ \E r \in Requests : request' = [request EXCEPT ![t] = r]
  /\ response' = [response EXCEPT ![t] = "none"]
  /\ UNCHANGED <<registry, answer>>

\* A null data type is refused on the spot.
Refuse(t) ==
  /\ request[t] = None
  /\ response' = [response EXCEPT ![t] = "false"]
  /\ UNCHANGED <<registry, request, answer>>

Pending(t, ops) == request[t] # None /\ answer[t] = None /\ request[t].op \in ops

\* The operation of t takes effect now, and returns now or later.
Settle(t, r) ==
  \/ /\ answer' = [answer EXCEPT ![t] = r]
     /\ UNCHANGED <<request, response>>
  \/ /\ response' = [response EXCEPT ![t] = r]
     /\ request' = [request EXCEPT ![t] = None]
     /\ UNCHANGED answer

Reply(t) ==
  /\ answer[t] # None
  /\ response' = [response EXCEPT ![t] = answer[t]]
  /\ request' = [request EXCEPT ![t] = None]
  /\ answer' = [answer EXCEPT ![t] = None]
  /\ UNCHANGED registry

(***************************************************************************)
(* registerTopic answers true for a topic that exists, whatever its type,  *)
(* false when the type was used up by an earlier registration, and true    *)
(* otherwise, even if Fast DDS then declines to create the topic.          *)
(***************************************************************************)
Register(t) ==
  /\ Pending(t, {"registerTopic"})
  /\ LET n == request[t].name
         ty == request[t].type
     IN \/ /\ registered[n] # None
           /\ Settle(t, "true")
           /\ UNCHANGED registry
        \/ /\ registered[n] = None /\ ty \in taken
           /\ Settle(t, "false")
           /\ UNCHANGED registry
        \/ /\ registered[n] = None /\ ty \notin taken
           /\ taken' = taken \cup {ty}
           /\ registered' \in {registered, [registered EXCEPT ![n] = ty]}
           /\ Settle(t, "true")
           /\ UNCHANGED users

\* A topic that is in use stays; to unregister an absent one is no error.
Unregister(t) ==
  /\ Pending(t, {"unregisterTopic"})
  /\ LET n == request[t].name
     IN \/ /\ users[n] # {}
           /\ Settle(t, "false")
           /\ UNCHANGED registry
        \/ /\ users[n] = {}
           /\ registered' = [registered EXCEPT ![n] = None]
           /\ Settle(t, "true")
           /\ UNCHANGED <<taken, users>>

\* The caller gets an endpoint, which may have failed to attach to the topic.
Open(t) ==
  /\ Pending(t, OpenOps)
  /\ LET n == request[t].name
     IN \/ /\ registered[n] = None
           /\ Settle(t, "nullptr")
           /\ UNCHANGED registry
        \/ /\ registered[n] # None
           /\ Settle(t, "endpoint")
           /\ \E e \in Endpoints \ UNION {users[m] : m \in TopicNames} :
                users' \in {users, [users EXCEPT ![n] = @ \cup {e}]}
           /\ UNCHANGED <<registered, taken>>

Close(e) ==
  /\ users' = [n \in TopicNames |-> users[n] \ {e}]
  /\ UNCHANGED <<registered, taken, request, answer, response>>

Next ==
  \/ \E t \in Threads :
       Invoke(t) \/ Refuse(t) \/ Register(t) \/ Unregister(t) \/ Open(t) \/ Reply(t)
  \/ \E e \in Endpoints : Close(e)

Spec == Init /\ [][Next]_vars
=============================================================================
