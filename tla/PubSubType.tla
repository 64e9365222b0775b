------------------------------ MODULE PubSubType ------------------------------
(***************************************************************************)
(* The TopicDataType of one generated type: what Fast DDS calls to size,   *)
(* write, read and create messages.  The generator stamps out one such     *)
(* class per type; so does HelloWorldTypes, by instantiating this module.  *)
(* The operators have no state but the payload they are given.             *)
(*                                                                         *)
(* A payload is [data, length, max_size]: a buffer of max_size bytes of    *)
(* which the first length are valid.                                       *)
(***************************************************************************)
EXTENDS Cdr

CONSTANTS
  type,                 \* a message as new type() leaves it
  max_cdr_typesize,
  End(_, _, _),         \* calculate_serialized_size
  Write(_, _),          \* serialize
  Read(_),              \* deserialize
  WriteKey(_, _)        \* serialize_key

Stream(data, max) ==
  [buf |-> data, max |-> max, pos |-> 0, ok |-> TRUE,
   rep |-> "XCDRv2", obj |-> type, val |-> 0, more |-> TRUE]

\* Mutant of m_typeSize: without the bytes of the encapsulation.
m_typeSize_NoEncapsulation == max_cdr_typesize + Alignment(max_cdr_typesize, 4)

\* The constructor: the size of a payload that holds any message.
m_typeSize == max_cdr_typesize + Alignment(max_cdr_typesize, 4) + Encapsulation

m_isGetKeyDefined == FALSE

\* Mutant of serialize: payload->length is the size asked for, even on failure.
serialize_LengthFirst(data, payload, representation) ==
  LET header == Put([Stream(payload.data, payload.max_size) EXCEPT !.rep = representation],
                    Encapsulation, representation)
      end == Write(header, data)
  IN [ok |-> end.ok,
      payload |-> [payload EXCEPT !.data = end.buf,
                                  !.length = End(representation, 0, data) + Encapsulation]]

\* serialize: the header, the message, and if nothing is thrown the length.
serialize(data, payload, representation) ==
  LET header == Put([Stream(payload.data, payload.max_size) EXCEPT !.rep = representation],
                    Encapsulation, representation)
      end == Write(header, data)
  IN [ok |-> end.ok,
      payload |-> [payload EXCEPT !.data = end.buf,
                                  !.length = IF end.ok THEN end.pos ELSE @]]

\* Mutant of deserialize: the representation is not read from the header.
deserialize_AssumesXCDRv2(payload, data) ==
  LET end == Read([Get(Stream(payload.data, payload.length), Encapsulation)
                     EXCEPT !.obj = data])
  IN [ok |-> end.ok, data |-> end.obj]

\* deserialize: the header says which representation follows.
deserialize(payload, data) ==
  LET header == Get(Stream(payload.data, payload.length), Encapsulation)
      end == Read([header EXCEPT !.rep = header.val, !.obj = data])
  IN [ok |-> end.ok, data |-> end.obj]

getSerializedSizeProvider(data, representation) ==
  End(representation, 0, data) + Encapsulation

createData == type

\* getKey: the instance a message belongs to; handle stays as it is.
getKey(data, handle) ==
  IF ~m_isGetKeyDefined THEN [ok |-> FALSE, handle |-> handle]
  ELSE [ok |-> TRUE, handle |-> WriteKey(Stream(<<>>, 16), data).buf]
=============================================================================
