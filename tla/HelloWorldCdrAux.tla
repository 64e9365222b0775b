--------------------------- MODULE HelloWorldCdrAux ---------------------------
(***************************************************************************)
(* The code fastddsgen made of HelloWorldOne.idl and HelloWorldTwo.idl to  *)
(* size, write and read the four types.  Sizes, writers and readers are    *)
(* three separate pieces of code that must agree on members, order and     *)
(* encoding.  A struct with a base has the base's members first.           *)
(***************************************************************************)
EXTENDS Cdr

\* Bounds of the IDL: of points, and fastddsgen's own where the IDL has none.
MaxPoints == 10000000
MaxMessage == 255
MaxChildren == 100

DataBase_max_cdr_typesize == 8
ChildData_max_cdr_typesize == 12
HelloWorldTwo_max_cdr_typesize == 1480
HelloWorldOne_max_cdr_typesize == 10000012

\* Objects as their default constructors leave them.
DataBase == [baseId |-> 0]
ChildData == [baseId |-> 0, childId |-> 0]
HelloWorldTwo == [baseId |-> 0, index |-> 0, message |-> 0, children |-> <<>>]
HelloWorldOne == [index |-> 0, points |-> 0]
-----------------------------------------------------------------------------
\* calculate_serialized_size: the position after data, from position pos.

DataBaseEnd(rep, pos, data) == AfterLong(AfterHeader(rep, pos))

ChildDataEnd(rep, pos, data) == AfterLong(AfterLong(AfterHeader(rep, pos)))

\* Mutant of HelloWorldTwoEnd: the index is left out, as if added to the IDL later.
HelloWorldTwoEnd_NoIndex(rep, pos, data) ==
  AfterStructs(rep, AfterString(AfterLong(AfterHeader(rep, pos)), data.message),
               Len(data.children), ChildDataEnd(rep, 0, ChildData))

HelloWorldTwoEnd(rep, pos, data) ==
  AfterStructs(rep, AfterString(AfterLong(AfterLong(AfterHeader(rep, pos))), data.message),
               Len(data.children), ChildDataEnd(rep, 0, ChildData))

HelloWorldOneEnd(rep, pos, data) ==
  AfterOctets(AfterLong(AfterHeader(rep, pos)), data.points)
-----------------------------------------------------------------------------
\* serialize

SerializeDataBase(s, data) == PutStruct(s, LAMBDA u : PutLong(u, data.baseId))

SerializeChildData(s, data) ==
  PutStruct(s, LAMBDA u : PutLong(PutLong(u, data.baseId), data.childId))

SerializeHelloWorldTwo(s, data) ==
  PutStruct(s, LAMBDA u :
    PutStructs(PutString(PutLong(PutLong(u, data.baseId), data.index), data.message),
               data.children, SerializeChildData))

SerializeHelloWorldOne(s, data) ==
  PutStruct(s, LAMBDA u : PutOctets(PutLong(u, data.index), data.points))
-----------------------------------------------------------------------------
\* deserialize: the switch over member ids; default declines the id.

Decline(u) == [u EXCEPT !.more = FALSE]

DeserializeDataBase(s) ==
  GetStruct(s, LAMBDA u, id :
    CASE id = 0 -> GetLong(u, "baseId")
      [] OTHER  -> Decline(u))

DeserializeChildData(s) ==
  GetStruct(s, LAMBDA u, id :
    CASE id = 0 -> GetLong(u, "baseId")
      [] id = 1 -> GetLong(u, "childId")
      [] OTHER  -> Decline(u))

DeserializeHelloWorldTwo(s) ==
  GetStruct(s, LAMBDA u, id :
    CASE id = 0 -> GetLong(u, "baseId")
      [] id = 1 -> GetLong(u, "index")
      [] id = 2 -> GetString(u, "message")
      [] id = 3 -> GetStructs(u, "children", ChildData, DeserializeChildData)
      [] OTHER  -> Decline(u))

DeserializeHelloWorldOne(s) ==
  GetStruct(s, LAMBDA u, id :
    CASE id = 0 -> GetLong(u, "index")
      [] id = 1 -> GetOctets(u, "points")
      [] OTHER  -> Decline(u))
-----------------------------------------------------------------------------
\* serialize_key: no type has a key, so nothing is written.

DataBaseKey(s, data) == s
ChildDataKey(s, data) == s
HelloWorldTwoKey(s, data) == s
HelloWorldOneKey(s, data) == s
=============================================================================
