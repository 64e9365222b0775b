----------------------------- MODULE HelloWorldApp -----------------------------
(***************************************************************************)
(* The example program as a client of DDSParticipantManager: main runs     *)
(* run_dds_data_writer ("pub") or run_dds_data_reader ("sub") on one       *)
(* DDSTestHandler.  The writer's loop ends when a detached thread, which   *)
(* reads standard input, has cleared runFlag, a variable on main's stack.  *)
(*                                                                         *)
(* runFlag is a plain bool.  The calls in the loop body are opaque to the  *)
(* compiler and runFlag's address has escaped, so each test reads it anew: *)
(* the race leaves open when the store becomes visible, not whether.  The  *)
(* value of index, what is printed and the sleep are left out.             *)
(***************************************************************************)
EXTENDS ParticipantManager

CONSTANTS
  main,           \* the only thread that calls the wrapper
  TopicOne, TopicTwo, \* DDS_TOPIC_HELLO_WORLD_ONE and _TWO
  TypeOne, TypeTwo    \* names of their data types

ASSUME AppAssumption ==
  /\ Threads = {main}
  /\ {TopicOne, TopicTwo} \subseteq TopicNames /\ TopicOne # TopicTwo
  /\ {TypeOne, TypeTwo} \subseteq TypeNames /\ TypeOne # TypeTwo
  /\ Null \notin Endpoints

VARIABLES
  role,         \* what the command line asked for
  apc,          \* the statement main is about to execute
  endpoint,     \* main's dataWriter or dataReader: an Endpoint, Null, None before
  frame,        \* is the stack frame of runFlag alive?
  runFlag,
  input,        \* who reads: "none"; "reading", "newline" (found), "done"
  eof,          \* has standard input ended?
  late,         \* messages written since runFlag was cleared
  nullThis      \* main called writeMessage on a null DDSTopicDataWriter

mainVars == <<role, apc, endpoint, frame, runFlag, late, nullThis>>
appVars == <<mainVars, input, eof>>
helloVars == <<allVars, appVars>>

\* Types; main's pointer has been assigned when the loop runs.
AppTypeOK ==
  /\ role \in {"none", "pub", "sub"}
  /\ apc \in {"start", "creator_one", "creator_two", "init", "create", "assign", "spawn",
              "test", "write", "read", "leave", "exited"}
  /\ endpoint \in Endpoints \cup {Null, None}
  /\ frame \in BOOLEAN /\ runFlag \in BOOLEAN /\ eof \in BOOLEAN /\ nullThis \in BOOLEAN
  /\ input \in {"none", "reading", "newline", "done"}
  /\ late \in Nat
  /\ apc \in {"spawn", "test", "write", "read"} => endpoint # None

AppInit ==
  /\ ManagerInit
  /\ role = "none" /\ apc = "start"
  /\ endpoint = None
  /\ frame = FALSE /\ runFlag = FALSE
  /\ input = "none" /\ eof = FALSE
  /\ late = 0 /\ nullThis = FALSE

At(statement, next) == apc = statement /\ apc' = next
-----------------------------------------------------------------------------
\* main, and the setup that both roles share.

Start ==
  /\ \/ At("start", "creator_one") /\ role' \in {"pub", "sub"} /\ frame' = TRUE
     \/ At("start", "exited") /\ UNCHANGED <<role, frame>>
  /\ UNCHANGED <<allVars, endpoint, runFlag, late, nullThis, input, eof>>

\* Mutant of TestHandlerCreators: the first creator is forgotten.
TestHandlerCreators_Forgets ==
  /\ \/ At("creator_one", "creator_two") /\ UNCHANGED allVars
     \/ At("creator_two", "init") /\ addTopicDataTypeCreator(TopicTwo, TypeTwo)
  /\ UNCHANGED <<role, endpoint, frame, runFlag, late, nullThis, input, eof>>

\* The constructor of DDSTestHandler.
TestHandlerCreators ==
  /\ \/ At("creator_one", "creator_two") /\ addTopicDataTypeCreator(TopicOne, TypeOne)
     \/ At("creator_two", "init") /\ addTopicDataTypeCreator(TopicTwo, TypeTwo)
  /\ UNCHANGED <<role, endpoint, frame, runFlag, late, nullThis, input, eof>>

\* Mutant of CallInit: initDomainParticipant is forgotten.
CallInit_Forgotten ==
  /\ At("init", "create")
  /\ UNCHANGED <<allVars, role, endpoint, frame, runFlag, late, nullThis, input, eof>>

\* handler.initDomainParticipant(...), its answer ignored.
CallInit ==
  /\ At("init", "create")
  /\ initDomainParticipant(main)
  /\ UNCHANGED <<role, endpoint, frame, runFlag, late, nullThis, input, eof>>

\* createDataWriter / createDataReader of DDS_TOPIC_HELLO_WORLD_ONE.
CallCreate ==
  LET o == IF role = "pub" THEN "createDataWriter" ELSE "createDataReader"
  IN /\ At("create", "assign")
     /\ \/ Create(main, o, TopicOne)
        \/ CreateTooEarly(main, TopicOne)
        \/ CreateUnknown(main, TopicOne)
     /\ UNCHANGED <<role, endpoint, frame, runFlag, late, nullThis, input, eof>>

\* Mutant of StoreEndpoint: the answer is dropped.
StoreEndpoint_Dropped ==
  /\ At("assign", IF role = "pub" THEN "spawn" ELSE "read")
  /\ Idle(main)
  /\ input' = IF role = "pub" THEN input ELSE "reading"
  /\ UNCHANGED <<allVars, role, endpoint, frame, runFlag, late, nullThis, eof>>

\* The answer is stored, and not compared with nullptr.
StoreEndpoint ==
  /\ At("assign", IF role = "pub" THEN "spawn" ELSE "read")
  /\ Idle(main)
  /\ endpoint' = IF mret[main] = "nullptr" THEN Null
                 ELSE CHOOSE e \in Endpoints : epKind[e] # "none"
  /\ input' = IF role = "pub" THEN input ELSE "reading"
  /\ UNCHANGED <<allVars, role, frame, runFlag, late, nullThis, eof>>
-----------------------------------------------------------------------------
\* run_dds_data_writer

SpawnInputThread ==
  /\ At("spawn", "test")
  /\ runFlag' = TRUE
  /\ input' = "reading"
  /\ UNCHANGED <<allVars, role, endpoint, frame, late, nullThis, eof>>

\* Mutant of TestFlag: the flag is read once, before the loop.
TestFlag_Hoisted ==
  /\ At("test", "write")
  /\ UNCHANGED <<allVars, role, endpoint, frame, runFlag, late, nullThis, input, eof>>

TestFlag ==
  /\ At("test", IF runFlag THEN "write" ELSE "leave")
  /\ UNCHANGED <<allVars, role, endpoint, frame, runFlag, late, nullThis, input, eof>>

\* Mutant of WriteMessage: a write that fails ends the loop.
WriteMessage_EndsLoop ==
  /\ apc = "write"
  /\ endpoint \in Endpoints /\ epTopic[endpoint] # None
  /\ apc' \in {"test", "leave"}
  /\ late' = IF runFlag THEN 0 ELSE late + 1
  /\ UNCHANGED <<allVars, role, endpoint, frame, runFlag, nullThis, input, eof>>

\* dataWriter->writeMessage(message), whose answer only decides about a print.
WriteMessage ==
  /\ apc = "write"
  /\ \/ /\ endpoint = Null
        /\ nullThis' = TRUE
        /\ UNCHANGED <<allVars, apc, late>>
     \/ /\ endpoint \in Endpoints
        /\ WriteToNull(endpoint)
        /\ UNCHANGED <<managerVars, apc, late, nullThis>>
     \/ /\ endpoint \in Endpoints /\ epTopic[endpoint] # None
        /\ apc' = "test"
        /\ late' = IF runFlag THEN 0 ELSE late + 1
        /\ UNCHANGED <<allVars, nullThis>>
  /\ UNCHANGED <<role, endpoint, frame, runFlag, input, eof>>
-----------------------------------------------------------------------------
\* Standard input, read by the detached thread ("pub") or by main ("sub").

\* cin.get(): a newline, or the end.  (Another character, or one more attempt
\* after the end, changes nothing: the loop goes on for ever.)
ReadInput ==
  /\ input = "reading" /\ ~eof
  /\ \/ input' = "newline" /\ UNCHANGED eof
     \/ eof' = TRUE /\ UNCHANGED input
  /\ UNCHANGED <<allVars, mainVars>>

\* Mutant of ClearFlag: the thread has a copy of the flag.
ClearFlag_Copy ==
  /\ input = "newline" /\ role = "pub"
  /\ input' = "done"
  /\ UNCHANGED <<allVars, mainVars, eof>>

\* runFlag = false, the last thing the detached thread does.
ClearFlag ==
  /\ input = "newline" /\ role = "pub"
  /\ input' = "done"
  /\ runFlag' = FALSE
  /\ UNCHANGED <<allVars, role, apc, endpoint, frame, late, nullThis, eof>>

\* run_dds_data_reader is done with its loop.
ReaderLoopEnds ==
  /\ At("read", "leave")
  /\ input = "newline"
  /\ input' = "done"
  /\ UNCHANGED <<allVars, role, endpoint, frame, runFlag, late, nullThis, eof>>

\* The function returns: its frame dies, handler with it.  The endpoint is leaked.
Leave ==
  /\ At("leave", "exited")
  /\ frame' = FALSE
  /\ DestroyManager
  /\ UNCHANGED <<role, endpoint, runFlag, late, nullThis, input, eof>>
-----------------------------------------------------------------------------
\* Steps inside the manager and the participant.
InsideCall ==
  /\ \/ MakeShared(main) \/ Assign(main) \/ Registered(main) \/ Created(main)
     \/ (AcquireLock(main) \/ Critical(main)) /\ UNCHANGED managerVars
  /\ UNCHANGED appVars

Main ==
  \/ Start \/ TestHandlerCreators \/ CallInit \/ CallCreate \/ StoreEndpoint
  \/ SpawnInputThread \/ TestFlag \/ WriteMessage
  \/ ReaderLoopEnds \/ Leave
  \/ InsideCall

Running == fault = "none" /\ ~mfault /\ ~nullThis

AppNext == Running /\ (Main \/ ReadInput \/ ClearFlag)

AppSpec == AppInit /\ [][AppNext]_helloVars

(***************************************************************************)
(* Both threads are scheduled, and the calls they are in return.  Nothing  *)
(* is assumed of the user: a newline may never come.                       *)
(***************************************************************************)
FairAppSpec == AppSpec /\ WF_helloVars(Running /\ Main) /\ WF_helloVars(Running /\ ClearFlag)
-----------------------------------------------------------------------------
\* Properties.

(***************************************************************************)
(* The detached thread refers to runFlag on main's stack and nobody joins  *)
(* it: as long as it may still clear the flag, the frame is there, because *)
(* main leaves the loop only on seeing the flag cleared.                   *)
(***************************************************************************)
FlagOutlivesThread ==
  role = "pub" /\ input \in {"reading", "newline"} => frame /\ m_participant # "gone"

(***************************************************************************)
(* Once runFlag is cleared, at most the message that was already on its    *)
(* way is written.  (Between reading the newline and clearing the flag the *)
(* input thread may be delayed, and any number of messages is.)            *)
(***************************************************************************)
AtMostOneLateMessage == late <= 1

\* Fast DDS refused DDSDomainParticipant, once it is constructed, its
\* participant, publisher or subscriber, or a wrapper its DataWriter.
EntityRefused ==
  /\ m_participant = "set"
  /\ \/ "null" \in {participant, publisher, subscriber}
     \/ \E e \in Endpoints : epKind[e] = "writer" /\ epTopic[e] = None

\* It took the data type of the topic, and refused the topic.
TopicRefused == types[TypeOne] # None /\ \A i \in TopicIds : topicName[i] # TopicOne

(***************************************************************************)
(* main checks neither initDomainParticipant's nor createDataWriter's      *)
(* answer, yet it only dies of what Fast DDS refused: inside the wrapper   *)
(* of an entity that was refused, in its own writeMessage on a nullptr of  *)
(* the topic.  It never dies of a call that came before the participant,   *)
(* nor of a nullptr for a topic that has no creator.                       *)
(***************************************************************************)
DiesOnlyOfRefusal ==
  /\ fault # "none" => EntityRefused
  /\ nullThis => TopicRefused
  /\ ~mfault

\* A newline on standard input ends the program, in either role, unless it dies.
NewlineEndsProgram == input = "newline" ~> (apc = "exited" \/ ~Running)
=============================================================================
