---------------------------- MODULE MessageObjects ----------------------------
(***************************************************************************)
(* The message classes fastddsgen made: construction, copy, move,          *)
(* assignment, comparison and accessors of HelloWorldOne, HelloWorldTwo,   *)
(* their base DataBase and the element type ChildData.                     *)
(*                                                                         *)
(* An object holds numbers, and for each string or vector the address of   *)
(* its storage.  External: std::string and std::vector.  Copying one makes *)
(* new storage, moving one hands its storage over and leaves it empty; the *)
(* elements of a vector are moved when it grows, and move-assigned to the  *)
(* place before when one is erased.                                        *)
(***************************************************************************)
EXTENDS Integers, Sequences, FiniteSets

CONSTANTS
  Objects,      \* variables of type HelloWorldOne or HelloWorldTwo
  Buffers,      \* addresses of storage
  Ids,          \* numbers
  Elements,     \* ChildData objects the application adds
  MaxLength,    \* bound: length of a string or vector
  None          \* no object; no storage

ASSUME ArgumentsAssumption ==
  Ids \subseteq Int /\ Elements \subseteq [baseId : Int, childId : Int] /\ MaxLength \in Nat

\* The heap is never full: it has two more than all objects can hold.
ASSUME HeapAssumption ==
  /\ IsFiniteSet(Objects) /\ IsFiniteSet(Buffers)
  /\ Cardinality(Buffers) >= 2 * Cardinality(Objects) + 2

\* Objects, or their values, when texts and sequences are of the given sets.
ClassTwo(text, elements) ==
  [class : {"HelloWorldTwo"}, baseId : Int, index : Int, message : text, children : elements]
ClassOne(octets) == [class : {"HelloWorldOne"}, index : Int, points : octets]

Texts == Seq(Int)
Vectors == Seq([baseId : Int, childId : Int])
Addresses == Buffers \cup {None}

ASSUME NoneAssumption ==
  /\ None \notin Buffers /\ None \notin Texts /\ None \notin Vectors
  /\ None \notin ClassTwo(Addresses, Addresses) /\ None \notin ClassOne(Addresses)
  /\ None \notin ClassTwo(Texts, Vectors) /\ None \notin ClassOne(Texts)

VARIABLES
  obj,          \* the objects that exist
  heap          \* the contents of the storage that is allocated

vars == <<obj, heap>>
-----------------------------------------------------------------------------
\* Default constructors.

ChildDataNew == [baseId |-> 0, childId |-> 0]
HelloWorldTwoNew ==
  [class |-> "HelloWorldTwo", baseId |-> 0, index |-> 0, message |-> None, children |-> None]
HelloWorldOneNew == [class |-> "HelloWorldOne", index |-> 0, points |-> None]

\* The members that have storage.
Dynamic(x) == IF x.class = "HelloWorldTwo" THEN {"message", "children"} ELSE {"points"}
Held(x) == {x[m] : m \in Dynamic(x)} \ {None}
Contents(b) == IF b = None THEN <<>> ELSE heap[b]
-----------------------------------------------------------------------------
\* Copy constructors, applied to the object t as default-constructed; new
\* is the storage of the copy.

DataBaseCopy(t, x) == [t EXCEPT !.baseId = x.baseId]

ChildDataCopy(t, x) == [DataBaseCopy(t, x) EXCEPT !.childId = x.childId]

\* Mutant of HelloWorldTwoCopy: the base is default-constructed.
HelloWorldTwoCopy_NoBase(t, x, new) ==
  [t EXCEPT !.index = x.index, !.message = new.message, !.children = new.children]

HelloWorldTwoCopy(t, x, new) ==
  [DataBaseCopy(t, x) EXCEPT
     !.index = x.index, !.message = new.message, !.children = new.children]

HelloWorldOneCopy(t, x, new) == [t EXCEPT !.index = x.index, !.points = new.points]

\* Move constructors: the storage changes hands (see MovedFrom).

DataBaseMove(t, x) == [t EXCEPT !.baseId = x.baseId]

ChildDataMove(t, x) == [DataBaseMove(t, x) EXCEPT !.childId = x.childId]

HelloWorldTwoMove(t, x) ==
  [DataBaseMove(t, x) EXCEPT
     !.index = x.index, !.message = x.message, !.children = x.children]

HelloWorldOneMove(t, x) == [t EXCEPT !.index = x.index, !.points = x.points]

\* Copy assignments to t.

DataBaseAssign(t, x) == [t EXCEPT !.baseId = x.baseId]

ChildDataAssign(t, x) == [DataBaseAssign(t, x) EXCEPT !.childId = x.childId]

HelloWorldTwoAssign(t, x, new) ==
  [DataBaseAssign(t, x) EXCEPT
     !.index = x.index, !.message = new.message, !.children = new.children]

HelloWorldOneAssign(t, x, new) == [t EXCEPT !.index = x.index, !.points = new.points]

\* Move assignments to t.

DataBaseMoveAssign(t, x) == [t EXCEPT !.baseId = x.baseId]

ChildDataMoveAssign(t, x) == [DataBaseMoveAssign(t, x) EXCEPT !.childId = x.childId]

HelloWorldTwoMoveAssign(t, x) ==
  [DataBaseMoveAssign(t, x) EXCEPT
     !.index = x.index, !.message = x.message, !.children = x.children]

HelloWorldOneMoveAssign(t, x) == [t EXCEPT !.index = x.index, !.points = x.points]

\* External: what is left of a moved-from object.
MovedFrom(x) == [m \in DOMAIN x |-> IF m \in Dynamic(x) THEN None ELSE x[m]]
-----------------------------------------------------------------------------
\* operator == and operator !=

DataBaseEqual(x, y) == x.baseId = y.baseId
DataBaseUnequal(x, y) == ~DataBaseEqual(x, y)

\* Mutant of ChildDataEqual: the base is not compared.
ChildDataEqual_NoBase(x, y) == x.childId = y.childId

ChildDataEqual(x, y) == IF DataBaseUnequal(x, y) THEN FALSE ELSE x.childId = y.childId

ElementsEqual(p, q) == Len(p) = Len(q) /\ \A i \in DOMAIN p : ChildDataEqual(p[i], q[i])

HelloWorldTwoEqual(x, y) ==
  IF DataBaseUnequal(x, y) THEN FALSE
  ELSE /\ x.index = y.index
       /\ Contents(x.message) = Contents(y.message)
       /\ ElementsEqual(Contents(x.children), Contents(y.children))

HelloWorldOneEqual(x, y) ==
  x.index = y.index /\ Contents(x.points) = Contents(y.points)
-----------------------------------------------------------------------------
Init ==
  /\ obj = [o \in Objects |-> None]
  /\ heap = [b \in Buffers |-> None]

Exists(o) == obj[o] # None
IsTwo(x) == x.class = "HelloWorldTwo"

\* Storage for a copy of x: which free addresses it has makes no difference.
NewStorage(x) ==
  CHOOSE new \in [Dynamic(x) -> {b \in Buffers : heap[b] = None}] :
    \A m, k \in Dynamic(x) : new[m] = new[k] => m = k

\* The contents of the storage new, copied from x, after dropped was freed.
\* CopyElement copies the elements of a vector.
HeapWithCopy(x, new, dropped, CopyElement(_)) ==
  [b \in Buffers |->
     IF \E m \in Dynamic(x) : new[m] = b
     THEN LET m == CHOOSE k \in Dynamic(x) : new[k] = b
              c == Contents(x[m])
          IN IF m = "children" THEN [i \in DOMAIN c |-> CopyElement(c[i])] ELSE c
     ELSE IF b \in dropped THEN None ELSE heap[b]]

HeapWithout(dropped) == [b \in Buffers |-> IF b \in dropped THEN None ELSE heap[b]]

Construct(o) ==
  /\ ~Exists(o)
  /\ \E x \in {HelloWorldOneNew, HelloWorldTwoNew} : obj' = [obj EXCEPT ![o] = x]
  /\ UNCHANGED heap

CopyConstruct(o, x) ==
  /\ ~Exists(o) /\ Exists(x)
  /\ LET new == NewStorage(obj[x])
     IN /\ obj' = [obj EXCEPT ![o] =
                     IF IsTwo(obj[x]) THEN HelloWorldTwoCopy(HelloWorldTwoNew, obj[x], new)
                     ELSE HelloWorldOneCopy(HelloWorldOneNew, obj[x], new)]
        /\ heap' = HeapWithCopy(obj[x], new, {}, LAMBDA c : ChildDataCopy(ChildDataNew, c))

MoveConstruct(o, x) ==
  /\ ~Exists(o) /\ Exists(x)
  /\ obj' = [obj EXCEPT ![o] = IF IsTwo(obj[x]) THEN HelloWorldTwoMove(HelloWorldTwoNew, obj[x])
                               ELSE HelloWorldOneMove(HelloWorldOneNew, obj[x]),
                        ![x] = MovedFrom(obj[x])]
  /\ UNCHANGED heap

\* Also o = x, which std::string and std::vector survive.
CopyAssign(o, x) ==
  /\ Exists(o) /\ Exists(x) /\ obj[o].class = obj[x].class
  /\ LET new == NewStorage(obj[x])
     IN /\ obj' = [obj EXCEPT ![o] =
                     IF IsTwo(obj[x]) THEN HelloWorldTwoAssign(obj[o], obj[x], new)
                     ELSE HelloWorldOneAssign(obj[o], obj[x], new)]
        /\ heap' = HeapWithCopy(obj[x], new, Held(obj[o]),
                                LAMBDA c : ChildDataAssign(ChildDataNew, c))

\* Not o = x: that would leave the object's string and vector empty.
MoveAssign(o, x) ==
  /\ o # x /\ Exists(o) /\ Exists(x) /\ obj[o].class = obj[x].class
  /\ obj' = [obj EXCEPT ![o] = IF IsTwo(obj[x]) THEN HelloWorldTwoMoveAssign(obj[o], obj[x])
                               ELSE HelloWorldOneMoveAssign(obj[o], obj[x]),
                        ![x] = MovedFrom(obj[x])]
  /\ heap' = HeapWithout(Held(obj[o]))

Destroy(o) ==
  /\ Exists(o)
  /\ obj' = [obj EXCEPT ![o] = None]
  /\ heap' = HeapWithout(Held(obj[o]))
-----------------------------------------------------------------------------
\* Accessors: setters, and what is done through the references they return.

\* baseId and index.
baseId(o, v) ==
  /\ Exists(o) /\ IsTwo(obj[o])
  /\ obj' = [obj EXCEPT ![o].baseId = v]
  /\ UNCHANGED heap

index(o, v) ==
  /\ Exists(o)
  /\ obj' = [obj EXCEPT ![o].index = v]
  /\ UNCHANGED heap

\* A member gets the contents c of the argument, copied or moved.
SetMember(o, m, c) ==
  LET b == CHOOSE b \in Buffers : heap[b] = None
  IN /\ obj' = [obj EXCEPT ![o][m] = b]
     /\ heap' = [HeapWithout({obj[o][m]}) EXCEPT ![b] = c]

message(o, length) ==
  /\ Exists(o) /\ IsTwo(obj[o])
  /\ SetMember(o, "message", [i \in 1..length |-> 0])

points(o, length) ==
  /\ Exists(o) /\ ~IsTwo(obj[o])
  /\ SetMember(o, "points", [i \in 1..length |-> 0])

\* children().push_back(e): the vector grows, and moves its elements.
children(o, e) ==
  /\ Exists(o) /\ IsTwo(obj[o])
  /\ LET c == Contents(obj[o].children)
     IN /\ Len(c) < MaxLength
        /\ SetMember(o, "children",
             Append([i \in DOMAIN c |-> ChildDataMove(ChildDataNew, c[i])],
                    ChildDataCopy(ChildDataNew, e)))

\* children().erase(children().begin())
EraseChild(o) ==
  /\ Exists(o) /\ IsTwo(obj[o])
  /\ LET c == Contents(obj[o].children)
     IN /\ c # <<>>
        /\ heap' = [heap EXCEPT ![obj[o].children] =
                      [i \in 1..(Len(c) - 1) |-> ChildDataMoveAssign(c[i], c[i + 1])]]
  /\ UNCHANGED obj

Next ==
  \E o \in Objects :
    \/ Construct(o)
    \/ \E x \in Objects :
         CopyConstruct(o, x) \/ MoveConstruct(o, x) \/ CopyAssign(o, x) \/ MoveAssign(o, x)
    \/ Destroy(o)
    \/ \E v \in Ids : baseId(o, v) \/ index(o, v)
    \/ \E length \in 0..MaxLength : message(o, length) \/ points(o, length)
    \/ \E e \in Elements : children(o, e)
    \/ EraseChild(o)

Spec == Init /\ [][Next]_vars
-----------------------------------------------------------------------------
\* Properties.

\* What an object is worth: its members, with the contents of their storage.
ValueOf(x) == [m \in DOMAIN x |-> IF m \in Dynamic(x) THEN Contents(x[m]) ELSE x[m]]

(***************************************************************************)
(* operator == says whether all members agree, those of the base and of    *)
(* the elements' bases included.                                           *)
(***************************************************************************)
EqualIsSameValue ==
  \A o, x \in Objects : Exists(o) /\ Exists(x) /\ obj[o].class = obj[x].class =>
    ((IF IsTwo(obj[o]) THEN HelloWorldTwoEqual(obj[o], obj[x])
                       ELSE HelloWorldOneEqual(obj[o], obj[x]))
       <=> ValueOf(obj[o]) = ValueOf(obj[x]))

(***************************************************************************)
(* The objects behave as values, in every sequence of construction, copy,  *)
(* move, assignment and access: MessageValues says how.                    *)
(***************************************************************************)
Defaults ==
  {[HelloWorldOneNew EXCEPT !.points = <<>>],
   [HelloWorldTwoNew EXCEPT !.message = <<>>, !.children = <<>>]}
ObjectValues == [o \in Objects |-> IF Exists(o) THEN ValueOf(obj[o]) ELSE None]
Values == INSTANCE MessageValues WITH value <- ObjectValues
ImplementsValues == Values!Spec
=============================================================================
