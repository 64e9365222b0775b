# A TLA+ verification of fastdds-wrapper

fastdds-wrapper is a thin C++ layer over eProsima Fast DDS (2.14, as `docker/dockerfile`
builds it).  It hides participants, topics and endpoints behind five classes, so that an
application only says "give me a writer for topic X" and "call me for every message on
topic Y".  Its code is short and looks sequential; what is hard about it is what happens
when several threads use it, when Fast DDS declines to create or delete something, and when
objects are destroyed in an order nobody planned.  Beside it stand an example program and the
code `fastddsgen` made of the example's two IDL files.  This directory holds TLA+ models of all
three, their TLC configurations, and proofs.

## 1. Inventory

| part | state it keeps | operations | talks to |
|---|---|---|---|
| `DDSDomainParticipant` | `m_participant`, `m_publisher`, `m_subscriber` (raw pointers), `m_mapTopics` (topic name to `Topic*`), `m_topicLock` | constructor, destructor, `registerTopic`, `unregisterTopic`, `createDataWriter<T>`, `createDataReader<T>` | Fast DDS, endpoint wrappers |
| `DDSTopicDataWriter<T>` | `m_dataWriter`, `m_publisher`, a listener | constructor, destructor, `writeMessage` | Fast DDS |
| `DDSTopicDataReader<T>` | `m_dataReader`, `m_subscriber`, a listener | constructor, destructor | Fast DDS |
| `DDSDataReaderListener<T>` | `m_callback` | `on_data_available` (take one sample, call back), two log-only handlers | called on Fast DDS's receiving threads; calls the application |
| `DDSDataWriterListener` | none | log-only handlers | called by Fast DDS |
| `DDSParticipantListener` | none | one log-only handler; never installed | nothing |
| `DDSParticipantManager` | `m_domainId`, `m_participant` (`shared_ptr`), `m_topicTypes` (topic name to type factory) | `initDomainParticipant`, `addTopicDataTypeCreator`, `getTopicDataType`, `createDataWriter<T>`, `createDataReader<T>` | `DDSDomainParticipant`, `ParticipantQosHandler` |
| `ParticipantQosHandler` | a `DomainParticipantQos` | constructor, `getQos`, five `add...Transport` | nothing |
| generated message classes (`HelloWorldOne`, `HelloWorldTwo`, `DataBase`, `ChildData`) | numbers, a string, a vector of octets, a vector of structs | constructors, copies, moves, assignments, `==`, accessors | used by the application and by the (de)serialisers |
| generated serialisation (`...CdrAux.ipp`, `...PubSubTypes.cxx`) | `m_typeSize`; nothing else | `calculate_serialized_size`, `serialize`, `deserialize`, `serialize_key`, and the `TopicDataType` functions around them | called by Fast DDS; calls Fast CDR |
| example (`DDSTestHandler`, `main.cpp`) | `runFlag`, the endpoint it was given | two creators in the constructor, the writer's loop with its detached input thread, the reader's wait | the manager |

How they interact: the manager owns one `DDSDomainParticipant` and asks it to register a
topic and then to create an endpoint; these are two separate calls, each of which takes
`m_topicLock` for itself.  The participant hands out endpoint wrappers that keep a raw
`Publisher*` or `Subscriber*` of their own, so the wrappers talk to Fast DDS behind the
participant's back, without its lock, and possibly after it is gone.  Fast DDS calls the
listeners on threads of its own, and these threads may call back into the wrapper.  For each
message it calls the generated code of the topic's type.

Where it is hard, and what makes each part correct:

* **DDSDomainParticipant.**  Concurrent operations; every creation may fail; a deletion may
  be refused; type objects change owner; endpoint destructors are not synchronised with
  topic deletion; the destructor ignores that `delete_participant` is refused.  Correct
  means: concurrent operations behave as if each happened at one instant; the map never
  disagrees with Fast DDS; nothing dangling or uninitialised is followed; no type object is
  leaked or freed while in use; the lock is always released.
* **Endpoint wrappers.**  A null endpoint looks like a success (`createDataWriter` returns
  a wrapper all the same); only the reader's destructor guards against it.  Correct means:
  what an endpoint refers to outlives it.
* **Reader listener.**  One sample is taken per notification, whatever has arrived.  Correct
  would mean: what was received is delivered, in order, once, and eventually.
* **Manager.**  Unsynchronised lazy construction; "initialised" reported although the
  participant could not be created; register-then-create is not atomic.
* **QoS handler.**  Built-in transports are disabled, so a participant has exactly the
  transports that were added; locator text is parsed by position and `atoi`.
* **Callbacks and the lock.**  `m_topicLock` is held while an endpoint is created and matched with
  the readers of the process, whose locks are held while their callbacks run; a new reader is enabled
  before the call returns; a callback may want `m_topicLock`; `delete_datareader` waits for callbacks.
  So threads can wait in a circle.  Correct means: only through what callbacks do themselves, and no
  callback for a reader that is gone.
* **Overlapping initialisation.**  `m_participant` is tested, assigned and dereferenced (twice per
  call) without a lock.  Correct means: every call stays in one participant that exists.
* **Generated serialisation.**  Sizes, writers, readers and the literals `..._max_cdr_typesize` are
  four pieces of code that must agree on members, order, alignment and headers, in two
  representations.  Correct means: the size asked for is the size written, the declared size covers
  all that is declared legal, and what is read is what was written.
* **Message classes.**  Copies, moves and comparisons are written out member by member and base by
  base.  Correct means: objects behave as values, and comparison looks at all of the value.
* **Example.**  No answer is checked, and a detached thread writes to a variable on `main`'s stack.
  Correct means: the variable outlives the thread, a newline ends the program, and only Fast DDS's
  refusals can kill it, not a call that comes too early or a creator that was forgotten.

`PROJECT.json` lists every hazard at its line.

## 2. What is modelled

| module | what it is |
|---|---|
| `FastDDS` | the external library's part of the state and its contracts |
| `DomainParticipant` | `DDSDomainParticipant`, with the construction and destruction of the endpoint wrappers |
| `TopicRegistry` | the abstract specification: what callers of `DDSDomainParticipant` may rely on |
| `DomainParticipantInv` | the inductive invariant |
| `DomainParticipantProofs` | the TLAPS proofs: the properties of the component, and that it implements `TopicRegistry` |
| `ListenerReentrancy`, `ListenerReentrancyProofs` | `DomainParticipant` composed with its readers' callbacks and with creations and deletions that wait for them |
| `ParticipantManager` | `DDSParticipantManager` on top of `DomainParticipant`, which it extends |
| `InitRace`, `InitRaceProofs` | `m_participant` of the manager under overlapping calls of `initDomainParticipant` |
| `HelloWorldApp`, `HelloWorldAppProofs` | the example program on top of `ParticipantManager`, which it extends; the proofs about both |
| `DataReaderDelivery` | from `writeMessage` to the callback: the reader wrapper, its listener, and the history the listener takes from |
| `MessageStream` | the abstract specification: what the application may expect of delivery |
| `DataReaderDeliveryProofs` | proofs about delivery |
| `ParticipantQos`, `ParticipantQosProofs` | `ParticipantQosHandler`: transports, initial peers, parsing of peer locators |
| `Cdr` | external: Fast CDR's size calculator and its stream, as the generated code uses them |
| `HelloWorldCdrAux` | generated sizes, writers and readers of the four types |
| `PubSubType`, `HelloWorldTypes` | one generated `TopicDataType` class, and its four instances |
| `TopicData`, `TopicDataProofs` | a message's way through the generated code: payload, `serialize`, `deserialize` |
| `MessageObjects` | the generated message classes, down to who owns the storage of strings and vectors |
| `MessageValues` | the abstract specification: message objects are values |
| `MessageObjectsProofs` | the proofs of comparison, and that the objects implement values |
| `MC...` | the instances for TLC |

### State of the core

| in `DomainParticipant` / `FastDDS` | in the code |
|---|---|
| `participant`, `publisher`, `subscriber` | `m_participant`, `m_publisher`, `m_subscriber`: what the pointer points at (`live`, `null`, `deleted`, or `garbage` for a member the constructor never assigned) |
| `mapTopics` | `m_mapTopics`; `None` is "no such key" |
| `topicLock` | the thread inside `std::lock_guard` on `m_topicLock` |
| `stage` | whether the C++ object exists |
| `pc`, `op`, `name`, `obj`, `tid` | per thread: the next statement, which operation it is in, and its `topicName`, `dataType`, `topic` |
| `ret` | what the thread's last call returned |
| `fault` | how the program died, if it dereferenced a pointer that is not live |
| `types`, `objType` | types registered with the participant; which type objects are allocated |
| `topicName`, `topicType` | the `Topic` objects that exist |
| `epKind`, `epTopic` | the endpoint wrappers that exist, and the topic their `DataWriter` / `DataReader` uses (`None`: Fast DDS returned null) |

### Actions

An operation is split where another thread could see the difference: at the lock and at each
call into Fast DDS.  Steps between two such points are one action.

| action | code |
|---|---|
| `Construct` | `DDSDomainParticipant.cpp:11-24`; each `create_...` may return null |
| `Destroy` | `:26-35`, with `delete_participant`'s refusal |
| `RegisterNullType`, `CallRegisterTopic`, `CallWithName` | the entry of the four operations, up to the lock |
| `AcquireLock` | the `lock_guard` |
| `FindHit`, `FindMiss` | the lookup, and the early return it decides |
| `RegisterType`, `CreateTopic`, `Insert` | `registerTopic`, `:47`, `:53`, `:54-56` |
| `DeleteTopic`, `Erase` | `unregisterTopic`, `:67-71`, `:73-74` |
| `CreateEndpoint` | `DDSDomainParticipant.h:57-77` with the endpoint wrapper's constructor |
| `CloseEndpoint` | `~DDSTopicDataWriter` / `~DDSTopicDataReader`, by any thread, at any time |
| `WriteToNull` | `writeMessage` of a writer whose DataWriter is null |
| `Crash` | the next statement dereferences a pointer that is not live |

`Return` is part of every action that leaves an operation: it runs the destructors of the
`lock_guard` and of the local `TypeSupport` (which frees the type object unless the
participant shares it).

Ids of topics, type objects and wrappers stand for heap addresses and are reused as soon as
the object is gone.  A stale pointer may therefore denote a younger object, as it may in C++.

### The manager

`ParticipantManager` adds `m_participant` (the `shared_ptr`), `m_topicTypes` and, per thread, what it
is doing in the manager (`mpc`, `mop`, `mname`, `mret`).  Its variables only decide which operation
of the participant a thread calls next; the operation itself runs through the actions of
`DomainParticipant`, step by step and interleaved with other threads (`Inner`).

| action | code |
|---|---|
| `addTopicDataTypeCreator` | `DDSParticipantManager.cpp:38-42`: the first creator of a name stays |
| `initDomainParticipant`, `MakeShared`, `Assign` | `:14-27`, split where another thread can see `m_participant` |
| `CreateUnknown`, `Create`, `CreateTooEarly` | the entry of `createDataWriter` / `createDataReader` (`DDSParticipantManager.h:54-71`): no creator, the call of `registerTopic`, or the null `shared_ptr` |
| `Registered`, `Created` | its answer, and the answer of the second call |
| `DestroyManager` | the destructor, which destroys the participant |

`m_participant` and `m_topicTypes` have no lock.  The model uses the class as that requires:
`addTopicDataTypeCreator` overlaps with nothing, and `initDomainParticipant` not with itself;
`createDataWriter` and `createDataReader` may overlap with an initialisation in progress.

### Overlapping initialisation

`InitRace` drops that rule and keeps of the manager only what it is about: the pointer, the
`DDSDomainParticipant` objects that exist, and which of them a call has entered.

| action | code |
|---|---|
| `TestParticipant`, `MakeShared` | `DDSParticipantManager.cpp:18`, the test and the new object |
| `AssignReads`, `AssignStores` | the assignment: which object it releases is read first, then the pointer is written and the released object destroyed |
| `CallRegisterTopic`, `RegisterTopicReturns`, `CallCreate`, `CreateReturns` | the two uses of `m_participant` in `createDataWriter` / `createDataReader` |

### Callbacks and deletions

`ListenerReentrancy` adds three variables to `DomainParticipant`: `callback` (which reader's callback a
thread is in; the creating thread stands for a reader that `create_datareader` has not returned yet),
`deleting` (which endpoint a thread is destroying) and `matching` (which reader's lock a thread inside
Fast DDS is waiting for).

| action | code |
|---|---|
| `on_data_available`, `CallbackReturns` | a sample arrives for a reader, also one under construction; the callback is done |
| `Operation`, `InsideOperation` | the participant's operations, from any thread, in a callback or not |
| `WriterCreated`, `ReaderCreated` | `create_datawriter` / `create_datareader` return (`DDSDomainParticipant.h:64`, `:76`), when no lock of a reader is waited for; `ReaderCreated` names the reader of the callbacks that are under way |
| `Match`, `Matched` | external: creating or deleting an endpoint needs the lock of a reader, which it gets when nobody else is in that reader's callback |
| `Delete`, `Deleted` | the endpoint destructors, `DDSTopicDataReader.hpp:46-51`: begun, and done when no callback of the reader runs |

`Match` may name any reader that has a DataReader, any number of times in one creation or deletion:
which ones an endpoint is matched with is Fast DDS's choice.  It uses the class as its destructors
require: a callback does not delete the reader it was called for, which would destroy the lock and the
`std::function` it runs under.  Other endpoints it may delete.

### The example

`HelloWorldApp` extends `ParticipantManager`: `main` is the only thread that calls the wrapper, and its
calls run step by step through the manager and the participant (`InsideCall`).

| action | code |
|---|---|
| `Start` | `main`, the role taken from the command line |
| `TestHandlerCreators`, `CallInit`, `CallCreate`, `StoreEndpoint` | the handler's constructor, `initDomainParticipant`, the creation, its answer stored unchecked |
| `SpawnInputThread`, `TestFlag`, `WriteMessage` | the writer's loop; `WriteMessage` also on a null wrapper or a null DataWriter |
| `ReadInput`, `ClearFlag` | `cin.get()`, and the last statement of the detached thread |
| `ReaderLoopEnds`, `Leave` | the reader's wait; the function's return, with the manager's destructor |

`runFlag` is a plain `bool`.  Its address has escaped and the loop calls functions the compiler does
not see through, so it is read on each test: the race leaves open when the store is seen.

### Generated code: messages on the wire

`TopicData` follows one message at a time: `Reserve` (a payload of the size the memory policy gives,
from `m_typeSize` and `getSerializedSizeProvider`), `Fill` (`serialize`, which may throw half-way),
`Take` (`deserialize` into a new object) or `Lose`.  A payload that is not of `DYNAMIC_RESERVE` is used
again with what it held.

`Cdr` has three views of the format, as Fast CDR has: position arithmetic for sizes, a stream that
writes, a stream that reads.  A buffer is a function from offsets to the scalars that start there;
overwriting part of a scalar destroys it, and what is not an intact scalar reads as `Garbage`.  So a
reader that is out of step with the writer is seen, without any byte being modelled.  A text is its
length.  `HelloWorldCdrAux` translates the three generated functions of each type, and `PubSubType` the
class around them, which the generator stamps out per type just as `HelloWorldTypes` instantiates it.

### Generated code: message objects

`MessageObjects` has variables of the two top classes.  A string or vector member is the address of its
storage, or `None`.  Each constructor and assignment is an operator that lists members as the code
does (`HelloWorldTwoCopy`, `DataBaseMoveAssign`, ...); the actions `Construct`, `CopyConstruct`,
`MoveConstruct`, `CopyAssign` (also to itself), `MoveAssign`, `Destroy`, the setters `baseId`, `index`,
`message`, `points`, and `children` / `EraseChild` (through the reference the accessor returns) apply
them and keep the books of the heap.

### Delivery

`DataReaderDelivery` numbers the samples of one writer.  `messages` are those with data, `history` is
what the DataReader holds, `listener` says whether a notification is being prepared or has been
given, `received` is what the callback got.

| action | code |
|---|---|
| `SetCallback`, `create_datareader`, `Constructed` | `DDSTopicDataReader.hpp:36-44`; the DataReader is enabled before `create_datareader` returns |
| `Destruct` | `:46-51`, then the members |
| `writeMessage`, `WriteState` | `DDSTopicDataWriter.hpp:51-55`; another application's change of the instance's state |
| `Available`, `Notify` | external: samples arrive in order, with gaps, several at a time, and are announced together |
| `on_data_available` | `DDSDataReaderListener.hpp:39-49`: one `take_next_sample`, the callback if `valid_data` |

### QoS

`ParticipantQos` has one action per `add...Transport` function.  A text is the sequence of its fields
between colons; what `atoi` makes of a field is a constant.  `requested` and `given` are history
variables that remember what the caller asked for.

### What is assumed of Fast DDS

None of its code is in this repository.  `FastDDS` states, and the results rest on:

1. `register_type` answers `PRECONDITION_NOT_MET` when another object is registered under
   that type name (`RegisterTypeRefused`); the participant shares ownership of the object it
   registered, and keeps it until it is itself deleted.
2. `create_topic` never makes a second topic of a name that exists, nor one of an
   unregistered type; it may also fail for reasons of its own.
3. `delete_topic` is refused while a DataWriter or DataReader uses the topic.
4. `delete_participant` is refused while the participant has a Publisher, a Subscriber or a
   Topic.
5. Each call is atomic towards the others, and returns, unless it waits for a callback (8).
6. A DataReader hands over the samples of one writer in order, keeps the last `Depth` of them
   (one instance: the example's types have no key), calls the listener under its own lock once for
   all samples that became available together, and not after `delete_datareader` has returned.
7. `IPLocator::setIPv4` leaves the address invalid if the text is no IPv4 address.
8. The lock of 6 is recursive and the reader's own, so one reader's callback runs on one thread at a
   time; callbacks do not nest.  `delete_datareader` takes the lock of its reader.  Creating or deleting
   an endpoint may take that of any other reader of the process, to match the two.  No other call takes
   one.  Calls that need the lock wait for the callback, unless they come from it.
9. The DataWriter's payload pool follows its memory policy (`PayloadFor`), a write fails if `serialize`
   throws, and a sample arrives whole or not at all.
10. Fast CDR aligns by the size of a value, at most 4 here, counted from the end of the encapsulation
    header; XCDRv2 puts a 4-byte size before each struct and sequence of structs; a value that does
    not fit throws.  It also throws on a text with a NUL inside; `TopicData` knows of a text only its
    length, so its results are for texts without one.
11. `std::string` and `std::vector` copy into storage of their own, and hand it over when moved.

And of the application: it does not call operations on an object that is not constructed, or
concurrently with its destructor; it destroys an endpoint wrapper once; a `dataType` it
passes is a fresh object; a callback does not delete its own reader.  Memory allocation does not fail.  `create_topic` and the like may
always fail, so no result depends on Fast DDS being willing.

## 3. Properties

Safety (`DomainParticipant`):

* `MapMirrorsParticipant`: when the lock is free, the map and Fast DDS's topics are the same.
* `EndpointsAnchored`: an endpoint's topic, its map entry and its parent exist as long as the
  endpoint.  The code contains nothing that says so; it follows from two refusals of Fast DDS
  together with the lock.
* `NoWildDereference`: no pointer that dangles or was never assigned is followed.
* `OneTopicPerDataType`, `SpentTypeStaysSpent`: consequences of registering a fresh type
  object each time that a user of the class will meet: two topics cannot share a type, and
  register / unregister / register of one type fails for good.
* `TypeObjectsOwned`: type objects are neither leaked nor freed while in use.
* `CrashOnlyAfterFailure`: the null pointers the code does not check are all consequences of a
  creation that Fast DDS refused; a program for which every creation succeeds does not die.
* `IInv`: the inductive invariant (section 5).

Refinement: `ImplementsRegistry`.  `TopicRegistry` is a registry whose operations take effect
at one instant between call and return and answer from the state of that instant.  The
mapping takes the registry's state from Fast DDS, not from the map, so the property says that
the map is never visibly out of date.  An operation's instant is the Fast DDS call that
changes something, or the lookup if it changes nothing.  The abstract `Register` also shows
what the code really promises: `true` even if no topic could be created.

Liveness: `LockReleased`.  Whoever holds `m_topicLock` gives it back, on every path, as long as Fast DDS's
calls return.  That they do is an assumption here: it excludes callbacks that call the participant,
which are `ListenerReentrancy`'s subject.

Manager (`ParticipantManager`):

* `TopicsHaveCreatorsType`: `registerTopic` says true for an existing topic without looking at the type
  it is asked for; still, through the manager a topic never gets another type than its creator's.
* `NullptrIsFinal`: the manager registers and creates in two critical sections.  Nevertheless a
  `nullptr` for a topic with a creator is never a matter of timing: the topic does not exist and
  never will, because its type is used up.  Retrying is pointless, and one success is enough for
  all later calls.  (It would not hold if the manager offered `unregisterTopic`.)

Delivery (`DataReaderDelivery`):

* `ImplementsStream`: the callback sees a lossy stream (`MessageStream`): nothing repeated, reordered or
  invented.
* `BoundedBacklog`: one notification may stand for several samples and only one is taken, so samples
  stay behind, but fewer than the history depth.
* `NewestDelivered`, `NothingStaysBehind`: with depth 1, the default and the only depth the manager's
  readers have, one take per notification is enough.  With a greater depth it is not: a run with
  depth 2 violates `NothingStaysBehind`, as the last sample of a batch waits for the next one.
* `NotifiedInLifetime`: the order of the statements in the reader's constructor and destructor keeps
  the callback set whenever Fast DDS can call it.

QoS (`ParticipantQos`):

* `PeersInOrder`: documented peers (`127.0.0.1:10001`) arrive with their address and port and in
  order, whatever malformed text is among them.
* `PeersWereGiven`: conversely, each TCP peer comes from a text of its own that has a colon, with that
  text's address and port.  `substr` with `npos` would accept a text without a colon as both.
* `PeersHaveTransport`: each locator's kind is one of a transport that was added.
* `RequestedIsAdded` is **violated**: `ParticipantQosHandler.h:41` says that `addTCPV6Transport` adds
  the TCPv6 strategy; its body (`ParticipantQosHandler.cpp:67-69`) is empty.  With the built-in
  transports disabled, a participant configured with it alone has no transport.

Callbacks and deletions (`ListenerReentrancy`):

* `DeadlockOnlyByCallbacks`: threads wait for each other in a circle in two ways only.  The first is in
  the code and the model reaches it: a thread in `createDataWriter` or `createDataReader` holds
  `m_topicLock` and needs the lock of a reader (the one it is creating included, which is enabled
  already) whose callback calls the participant and waits for `m_topicLock`.  In the second a callback
  deletes endpoints, as when two callbacks delete each other's reader.  Both are hazards for an
  application whose callbacks do such things; no text of the repository allows or forbids it, so
  neither is a finding.  What the property excludes is every other circle: `registerTopic` and
  `unregisterTopic` wait for no callback, and the destructors hold no lock while they do.  A
  destructor that took `m_topicLock` would break it.
* `CallbackHasReader`: a callback runs only while its reader has a DataReader, from before
  `createDataReader` returns until the destructor is done.

Overlapping initialisation (`InitRace`):

* `CallsStayInOneParticipant`, `OneParticipant`: as long as no two calls of `initDomainParticipant` overlap,
  no call of any other kind, however timed, runs in a destroyed `DDSDomainParticipant`, or registers
  a topic with one and asks another for the endpoint; and none is lost.  The condition is needed:
  without `~overlapped` TLC finds that the second assignment destroys an object in use.  No text of
  the repository says that overlapping calls are allowed, so that is a hazard and no finding.

Example (`HelloWorldApp`):

* `FlagOutlivesThread`: the detached thread's reference into `main`'s stack never dangles, because `main`
  leaves the loop only on seeing what that thread does last.
* `AtMostOneLateMessage`: once `runFlag` is cleared, only the message already on its way is written.
  Between reading the newline and clearing the flag the input thread may be delayed, and any number of
  messages is written meanwhile.
* `DiesOnlyOfRefusal`: although no answer is checked, the program dies in two ways only: inside a wrapper
  of an entity that Fast DDS refused when the participant was already constructed, or in its own
  `writeMessage` on the `nullptr` it got for a topic that Fast DDS refused although its type was
  registered.  A call before `initDomainParticipant`, which finds the pointers null as well, or a topic
  without a creator counts as neither.
* `NewlineEndsProgram` (liveness): in either role a newline ends the program.  The end of input without a
  newline does not, it loops for ever; the property says nothing about that case.

Generated code on the wire (`TopicData`):

* `SizeIsExact`: `getSerializedSizeProvider` is to the byte what `serialize` writes.
* `OnlyOversizedRefused`: only a message beyond the declared bounds can be refused, and only by a
  preallocated payload: the literals `8`, `12`, `1480` and `10000012` are large enough.
* `ReceivedIsSent`: every member of base and elements arrives, whatever an earlier message, or half of
  one, left in the payload.

The bound of `points` in `HelloWorldOne.idl` (10000000) is enforced nowhere: a longer sequence is refused
with preallocated payloads and arrives whole with the others.

Message objects (`MessageObjects`): `EqualIsSameValue` (`==` looks at every member, and at the bases), and the refinement
`ImplementsValues`: objects are values, and an operation on one changes another only when it is moved
from.

What the model says about the null pointers: `fault = "null_deref"` is reachable.  A failed
`create_participant` is noticed by nobody, and the first `registerTopic` follows the null
`m_participant`; a null DataWriter is deleted by `~DDSTopicDataWriter` without a check.
Nothing in the repository says otherwise, so these are hazards in `PROJECT.json` and not
violated properties.  `EndpointsAnchored` has a price too: as every participant that could
be created has a Publisher or Subscriber unless both of those creations failed,
`delete_participant` is refused and the participant leaks.

## 4. Runs

| run | instance | what it shows |
|---|---|---|
| `participant` | 2 threads, 2 names, 2 types, 3 type objects, 2 topic addresses, 2 endpoints | all safety properties, `IInv`, `SpentTypeStaysSpent`, `ImplementsRegistry` |
| `manager` | as above, 1 participant under 1 manager, 2 topic names with creators added on the way | `ManagerInv`, `TopicsHaveCreatorsType`, `NullptrIsFinal` |
| `delivery` | depth 2, batches of up to 3, 5 samples | `TypeOK`, `DInv`, `BoundedBacklog`, `NotifiedInLifetime`, `ImplementsStream` |
| `delivery_depth1` | depth 1, batches of up to 3, 4 samples | `NewestDelivered`, `NothingStaysBehind` |
| `qos` | 2 calls, vectors of up to 2 of 7 texts, 4-bit physical ports | `PeersInOrder`, `PeersWereGiven`, `PeersHaveTransport` |
| `qos_tcpv6` | as `qos` | the violation of `RequestedIsAdded` |
| `participant_live` | 2 threads, 1 name, 1 type, 2 type objects, 1 topic address, 2 endpoints | `LockReleased` |
| `listener_reentrancy` | 3 threads, 1 name, 1 type, 2 type objects, 1 topic address, 2 endpoints | `DeadlockOnlyByCallbacks`, `CallbackHasReader` |
| `init_race` | 3 threads, 3 objects | `CallsStayInOneParticipant`, `OneParticipant` |
| `hello_world_app` | `main`, 2 topics with their 2 types, 2 type objects, 1 endpoint | `AppTypeOK`, `FlagOutlivesThread`, `AtMostOneLateMessage`, `DiesOnlyOfRefusal`, `NewlineEndsProgram` |
| `topic_data` | all types, representations and policies; 2 writes | `TypeOK`, `SizeIsExact`, `OnlyOversizedRefused`, `ReceivedIsSent` |
| `message_objects` | 2 objects, 6 buffers, strings and vectors of up to 2 | `EqualIsSameValue`, `ImplementsValues` |

Why the bounds are enough for the interesting cases: two threads give every pairwise
interleaving, and with the lock a third can only wait; two names and two types let a type be
requested under another name, and a topic be recreated at the address of a deleted one; three
type objects are both registered types and one more to be refused; two endpoints keep one
topic in use while another is opened, and also allow one of each kind.  `HeapRoom` is the one
bound in a guard: a creation starts only if the endpoint pool has a free address for it, so
the pool's size never blocks a thread that holds the lock.  Type objects need no such guard,
as `CallRegisterTopic` simply needs a free one.

For delivery, batches larger than the depth make samples fall out of the history before they are
taken, and five samples allow a full batch after a backlog.  For QoS, two vectors of two texts put
every kind of malformed text before and after a good one, in one call and in two; ports have 4
bits instead of 16 and the port field 8 instead of 32, and the texts hold numbers on each side of
those limits.

For callbacks, three threads are one that creates, one in a callback and one that deletes, and two
endpoints let a callback use another reader than its own, and let a creation meet a reader that exists or
the one under construction.  For initialisation, three threads are two
that initialise and one that calls meanwhile.  The example has one caller and creates one endpoint.  Two
writes show what the first leaves in a payload for the second; the texts have each length modulo the
alignment, and one message lies on each side of each bound (points 10000000 and 10000001, text 255 and
256, children 100 and 101).  Two message objects are all that a copy, move or comparison involves; two
buffers more than they can hold mean that the heap is never full.

The constant sets of `participant`, `manager`, `listener_reentrancy` and `init_race` are symmetric, and
these runs use that.  They check no liveness, for which symmetry would be unsound; the other runs use
none.  `message_objects` compares states without their addresses (`MCView`: values, who shares storage
with whom, how much is allocated), which the operations treat alike.  Deadlock is not checked: the
application may stop calling, and a program that has crashed stops.

Fairness: `WF_vars(Next /\ Critical(t))` for each thread: inside its critical section a
thread is scheduled again and Fast DDS's calls return.  In `DataReaderDelivery`, `WF` of `Notify` and
`on_data_available`: Fast DDS announces what has arrived and its receiving thread runs the
listener; no fairness of the writer or of the network.  In `HelloWorldApp`, `WF` of `main`'s next step
and of `ClearFlag`: both threads are scheduled and calls return; nothing is assumed of the user, who may
never press a key.  Nothing is assumed of `std::mutex`, which may starve a waiter, of the
application, or of destructors.

Every property has a mutant: a definition of the module with a plausible slip (`..._Skipped`,
`..._IgnoresRefusal`, `..._KeepsLock`, ...) under which TLC finds the property violated.

## 5. Proofs

`DomainParticipantProofs` proves, for any sets of threads, names, types, addresses and
endpoints, finite or not, from `NoneAssumption` and `ThreadAssumption` (the markers `None`
and `Null` are not members of the sets they are used beside):

* `Invariance`: `Spec => []IInv`;
* `TypeCorrect`, `MapCorrect`, `EndpointsSafe`, `NoWildPointer`, `TypesNotShared`,
  `TypeObjectsSafe`: the safety properties the run checks;
* `SpentForever`: the action property `SpentTypeStaysSpent`;
* `CrashSafety`: `CrashOnlyAfterFailure`.

`HelloWorldAppProofs` begins with the manager, likewise for any constants: `ManagerIsClient` (every step of the
composition is a step of `DomainParticipant` or a stutter, hence all of the above holds of it),
`ManagerInvariance`, `CreatorsTypeKept`, `NullptrFinal`.  Its invariant `ManagerInv` says for each
position in the manager which operation the thread is in, and for the moment between the two calls
what the first answer implies: `true` means that the topic exists, or that `create_topic` failed and
everything is `Final`; `false` means `Final`.  `Final` is stable as no action unregisters a type.

`DataReaderDeliveryProofs`, for every depth, batch size and number of samples:
`DeliveryInvariance`, `ListenerInLifetime`, `BacklogBounded`, `NewestReachesCallback`, and
`StreamImplemented`, the refinement of `MessageStream`.  `DInv` adds to the types that the history is
increasing, ends with the newest sample, and holds only samples younger than all that were
received.

For constants that satisfy in addition `RequestAssumption` (the markers are neither answers nor
requests), `DomainParticipantProofs` ends with `RegistryImplemented`, that is
`Spec => ImplementsRegistry`.  There is
one lemma per action of `DomainParticipant`, which maps it to the one registry action that takes effect
there, or to a stutter.  `IInv` is needed for it: the lookup answers from `m_mapTopics`, the registry from
the topics, and `MapInv` says that at that statement they agree.

`ListenerReentrancyProofs`, for any number of threads and readers: `ListenerIsClient` (every step is one
of `DomainParticipant` or a stutter, so its theorems carry over), `CallbacksAnchored`, and
`CirclesNeedCallbacks`.  The invariant `LInv` adds `DeleteInv` (a thread that deletes is in no operation, and
no two delete one endpoint), `CreatorInv` (a callback for a reader under construction has a creator at that
very statement) and `MatchInv` (who waits for a reader's lock is inside a creation or a
deletion).  The argument about circles: suppose no callback in the set deletes.  A thread of
the set waits for `m_topicLock` or for a callback; a callback of the set, which deletes nothing, can
only be waiting for `m_topicLock` or creating.  So somebody waits for the lock, its holder is in the set,
and as the holder waits it is creating an endpoint (`HolderCreates`); what it waits for is another
thread's callback, which cannot hold the lock too and so waits for it (`CircleShape`).

`InitRaceProofs`: `CallsSafe`, `NoSecondParticipant`, with the invariant that without overlap at most one
thread is initialising, and that what was released was null.

About the example, `HelloWorldAppProofs` has `AppIsClient` (the example is a client of the manager, whose theorems and the
participant's hold of it), `AppTypeCorrect`, `FlagSafe`, `LateMessages`, `ExampleDies`.  `AppInv` ties the
statement `main` is at to the input thread and the flag (`ControlInv`, `FlagInv`), to the creators added
so far (`SetupInv`) and to the endpoint it was given (`HandleInv`); `ReadyInv` says that whatever runs
or fails inside the participant has `initDomainParticipant` behind it.

`TopicDataProofs`, for messages of any length: `DataTypeCorrect`, `SizesAgree`, `RefusedOnlyBeyondBounds`,
`ReceivedCorrect`.  A stream that a writer function was applied to is `Near` a position: there if nothing
failed, else the position is beyond the payload's end.  One lemma per writer takes it to where
`calculate_serialized_size` ends.  The two count from different origins, 0 and the 4 bytes of the
encapsulation, so each size function is shown to shift by 4; and it is largest for the largest text and
sequence, which the literals of the generator then cover.

`ReceivedCorrect` is about what lies in the buffer, and has three parts.  For each type a predicate says
what a payload that holds a message looks like (`HoldsDataBase`, ..., `HoldsHelloWorldTwo`: a scalar of
the right size at each member's place, headers where the representation has them), and each writer
establishes it for its own part without touching what lies before (`Beyond`).  A later write leaves an
earlier scalar intact (`Keeps`), so the parts add up, whatever the buffer held at first.  The readers are
loops that call a member's reader until the struct ends; `Reading` says where the k-th iteration starts
and what has been read by then, and that the loop stops after the last member and not before.  A
sequence of structs is a loop of such loops.  The invariant `ReadInv` adds `Readable` to the property: a
payload that was filled holds the message that was sent.

`ParticipantQosProofs`, for any texts, ports and number of calls: `DocumentedPeersArrive`, `NoPeerMadeUp`,
`PeersReachable`.  `QosInv` is the conjunction of the types and the three properties.  The
loop over the texts is taken one iteration at a time: an order-preserving map from the documented
peers of the first i texts into the list so far grows by one pair (`LeadsAppend`) or stays as it is
(`LeadsSkip`), and the maps of two calls are joined end to end (`LeadsConcat`).  The map of `NoPeerMadeUp`
runs the other way, from peers to texts, and is built likewise (`TracesAppend`, ...).

`MessageObjectsProofs`, for any finite number of objects, and texts and sequences of every length:
`EqualityCorrect` and `ObjectsAreValues`, that is `Spec => ImplementsValues`.  It
assumes `ArgumentsAssumption` (what the setters get are numbers and elements), `NoneAssumption` (`None`
is no address, value or record) and `HeapAssumption`: there are two buffers more than the objects can
hold.  The last says that memory allocation does not fail; two is what a copy needs while the object it
replaces still has its own.  The invariant is `MInv`: objects are records of their class whose texts are
texts and whose sequences are sequences (`Typed`), and storage is allocated exactly if one object holds
it (`Owned`: what `std::string` and `std::vector` promise, which the value of an object rests on, as a
step on one object must not change what another holds).  Three lemmas carry the proof.  `TwoFree` counts: as many addresses as members can be held, so two are left.
`OneChanges` and `TwoChange` say of any two states that differ in one object or two, and in storage that
was given up or taken, that `MInv` survives and that no other object's value changed.  Each action is an
instance of one of them.

Why an inductive invariant is needed: the properties speak of states with the lock free, or
of the outcome.  `MapMirrorsParticipant` alone says nothing about a thread halfway through
`registerTopic`.  `IInv` adds what holds in the middle: `LockInv` (the holder is the one
thread past the lock), `CallInv` (which operation reaches which statement), `EntityInv` (the
parents live as long as one of them does), `ObjInv` (a call's type object is its own, and
registered exactly between `register_type` and the return), `TopicInv` (names and types are
not shared; a thread about to create a topic has a type nobody uses), `MapInv` (map and
participant agree but for the one entry being inserted or erased), `EndpointInv`.

There is one lemma per action (`ConstructStep`, ..., `CloseEndpointStep`) with one step per
conjunct of `IInv`; `NextStep` puts them together, and each theorem follows by PTL.  The
argument against wild pointers is in `CrashStep`: a thread past the lookup holds a topic that
exists, a topic exists only in a live participant, and a live participant has assigned both
parents.

About induction.  The library's induction theorems take an operator as a parameter, which the
provers cannot instantiate.  Where a loop or a sequence needs one, it is over a set instead:
`SetInduction` says that a set that holds 0, and with each number the next, holds every number; the
statement to prove is put into the definition of the set.  It follows from the well-foundedness of `<`.

Every invariant, action property and refinement that a run checks is proved.  Only model-checked are
`LockReleased`, `NothingStaysBehind` and `NewlineEndsProgram`: liveness under fairness is out of the
prover's reach.  `RequestedIsAdded` is refuted by a run.

## 6. Plan

Everything planned is in place: participant, registry and the proof of the refinement; manager;
delivery; QoS; callbacks and deletions; overlapping initialisation; the generated code; the example;
proofs of all safety properties.  What would add something still:

1. A proof that `InitRace`, as long as no two initialisations overlap, implements what
   `ParticipantManager` makes of the same calls.
2. `InitRace` and `ListenerReentrancy` in one composition, so that initialisation may overlap with
   callbacks.

## 7. Not modelled, and why

* `DDSDataWriterListener` and `DDSParticipantListener` only log (the latter is never installed).
* Fast DDS's transport, discovery and reliability protocol are external; what the wrapper observes
  of them is in `FastDDS`, `DataReaderDelivery` and `TopicData`.
* `T` of `createDataWriter<T>` is compared with the topic's type nowhere in the wrapper.  It is a
  static property of each call; the models give a topic one class.
* QoS values other than history depth, memory policy and data representation do not influence the
  wrapper's control.  The example's `createParticipantQos` is a fixed list of calls that
  `ParticipantQos` has as actions.
* Callbacks that delete the reader they were called for are excluded as a rule of use (section 2).
* Keys: no type has one, so `serialize_key` writes nothing and the MD5 branch of `getKey` is never
  taken.  Endianness: writer and reader go through the same Fast CDR.
* What the example prints, its sleep, and the texts of log messages.
* Build and container files have no behaviour to check.
