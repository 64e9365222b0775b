---------------------------- MODULE HelloWorldTypes ----------------------------
(***************************************************************************)
(* The four TopicDataType classes of the example, and the choice between   *)
(* them by the name of the topic's type.                                   *)
(***************************************************************************)
EXTENDS HelloWorldCdrAux

DataBasePubSubType == INSTANCE PubSubType WITH
  type <- DataBase, max_cdr_typesize <- DataBase_max_cdr_typesize,
  End <- DataBaseEnd, Write <- SerializeDataBase, Read <- DeserializeDataBase,
  WriteKey <- DataBaseKey

ChildDataPubSubType == INSTANCE PubSubType WITH
  type <- ChildData, max_cdr_typesize <- ChildData_max_cdr_typesize,
  End <- ChildDataEnd, Write <- SerializeChildData, Read <- DeserializeChildData,
  WriteKey <- ChildDataKey

HelloWorldTwoPubSubType == INSTANCE PubSubType WITH
  type <- HelloWorldTwo, max_cdr_typesize <- HelloWorldTwo_max_cdr_typesize,
  End <- HelloWorldTwoEnd, Write <- SerializeHelloWorldTwo, Read <- DeserializeHelloWorldTwo,
  WriteKey <- HelloWorldTwoKey

HelloWorldOnePubSubType == INSTANCE PubSubType WITH
  type <- HelloWorldOne, max_cdr_typesize <- HelloWorldOne_max_cdr_typesize,
  End <- HelloWorldOneEnd, Write <- SerializeHelloWorldOne, Read <- DeserializeHelloWorldOne,
  WriteKey <- HelloWorldOneKey

TypeNames == {"DataBase", "ChildData", "HelloWorldTwo", "HelloWorldOne"}

\* The virtual functions of TopicDataType, for the type named name.
TypeSize(name) ==
  CASE name = "DataBase"      -> DataBasePubSubType!m_typeSize
    [] name = "ChildData"     -> ChildDataPubSubType!m_typeSize
    [] name = "HelloWorldTwo" -> HelloWorldTwoPubSubType!m_typeSize
    [] name = "HelloWorldOne" -> HelloWorldOnePubSubType!m_typeSize

SerializedSize(name, data, rep) ==
  CASE name = "DataBase"      -> DataBasePubSubType!getSerializedSizeProvider(data, rep)
    [] name = "ChildData"     -> ChildDataPubSubType!getSerializedSizeProvider(data, rep)
    [] name = "HelloWorldTwo" -> HelloWorldTwoPubSubType!getSerializedSizeProvider(data, rep)
    [] name = "HelloWorldOne" -> HelloWorldOnePubSubType!getSerializedSizeProvider(data, rep)

Serialize(name, data, payload, rep) ==
  CASE name = "DataBase"      -> DataBasePubSubType!serialize(data, payload, rep)
    [] name = "ChildData"     -> ChildDataPubSubType!serialize(data, payload, rep)
    [] name = "HelloWorldTwo" -> HelloWorldTwoPubSubType!serialize(data, payload, rep)
    [] name = "HelloWorldOne" -> HelloWorldOnePubSubType!serialize(data, payload, rep)

\* Into a new object, as DDSDataReaderListener makes one for each message.
Deserialize(name, payload) ==
  CASE name = "DataBase"      ->
         DataBasePubSubType!deserialize(payload, DataBasePubSubType!createData)
    [] name = "ChildData"     ->
         ChildDataPubSubType!deserialize(payload, ChildDataPubSubType!createData)
    [] name = "HelloWorldTwo" ->
         HelloWorldTwoPubSubType!deserialize(payload, HelloWorldTwoPubSubType!createData)
    [] name = "HelloWorldOne" ->
         HelloWorldOnePubSubType!deserialize(payload, HelloWorldOnePubSubType!createData)

InstanceOf(name, data) ==
  CASE name = "DataBase"      -> DataBasePubSubType!getKey(data, <<>>).handle
    [] name = "ChildData"     -> ChildDataPubSubType!getKey(data, <<>>).handle
    [] name = "HelloWorldTwo" -> HelloWorldTwoPubSubType!getKey(data, <<>>).handle
    [] name = "HelloWorldOne" -> HelloWorldOnePubSubType!getKey(data, <<>>).handle
=============================================================================
