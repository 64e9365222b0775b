------------------------- MODULE MessageObjectsProofs -------------------------
(***************************************************************************)
(* For any number of message objects, and texts and sequences of every     *)
(* length: operator == compares values, and the objects behave as values.  *)
(* That no storage is used twice is part of the inductive invariant, as a  *)
(* step that changes one object must leave the values of the others.       *)
(***************************************************************************)
EXTENDS MessageObjects, FunctionTheorems, FiniteSetTheorems, SequenceTheorems, TLAPS

-----------------------------------------------------------------------------
(***************************************************************************)
(* States as constants: O is obj, h is heap.  What is said of two states   *)
(* is then said of O, h before a step and P, k after it.                   *)
(***************************************************************************)
Records == ClassTwo(Addresses, Addresses) \cup ClassOne(Addresses)

HeldIn(O, o) == IF O[o] = None THEN {} ELSE Held(O[o])

\* The contents of the storage of x.
Stored(x, h) == [m \in Dynamic(x) |-> IF x[m] = None THEN <<>> ELSE h[x[m]]]

\* Texts are texts, and sequences are sequences; no storage is used twice in x.
Sound(x, h) ==
  /\ x \in Records
  /\ IsTwo(x) => /\ Stored(x, h).message \in Texts /\ Stored(x, h).children \in Vectors
                 /\ x.message # None => x.message # x.children
  /\ ~IsTwo(x) => Stored(x, h).points \in Texts

Typed(O, h) ==
  /\ O = [o \in Objects |-> O[o]]
  /\ h \in [Buffers -> {None} \cup Texts \cup Vectors]
  /\ \A o \in Objects : O[o] # None => Sound(O[o], h)

Owned(O, h) ==
  /\ \A b \in Buffers : h[b] # None <=> \E o \in Objects : b \in HeldIn(O, o)
  /\ \A o, x \in Objects : o # x => HeldIn(O, o) \cap HeldIn(O, x) = {}

\* The value of x, and of all objects.
Worth(x, h) == [m \in DOMAIN x |-> IF m \in Dynamic(x) THEN Stored(x, h)[m] ELSE x[m]]
Worths(O, h) == [o \in Objects |-> IF O[o] = None THEN None ELSE Worth(O[o], h)]

\* The two classes.
LEMMA Classes ==
  ASSUME NEW x \in Records
  PROVE  /\ IsTwo(x) => /\ x = [class |-> "HelloWorldTwo", baseId |-> x.baseId, index |-> x.index,
                                message |-> x.message, children |-> x.children]
                        /\ Dynamic(x) = {"message", "children"}
                        /\ Held(x) = {x.message, x.children} \ {None}
                        /\ x.baseId \in Int /\ x.index \in Int
                        /\ x.message \in Addresses /\ x.children \in Addresses
         /\ ~IsTwo(x) => /\ x = [class |-> "HelloWorldOne", index |-> x.index, points |-> x.points]
                         /\ Dynamic(x) = {"points"}
                         /\ Held(x) = {x.points} \ {None}
                         /\ x.index \in Int /\ x.points \in Addresses
<1>1. CASE x \in ClassTwo(Addresses, Addresses)
  <2>1. IsTwo(x) /\ x.class = "HelloWorldTwo"
    BY <1>1 DEF ClassTwo, IsTwo
  <2>2. Dynamic(x) = {"message", "children"}
    BY <2>1 DEF Dynamic
  <2>3. Held(x) = {x.message, x.children} \ {None}
    BY <2>2 DEF Held
  <2>4. /\ x = [class |-> "HelloWorldTwo", baseId |-> x.baseId, index |-> x.index,
                message |-> x.message, children |-> x.children]
        /\ x.baseId \in Int /\ x.index \in Int
        /\ x.message \in Addresses /\ x.children \in Addresses
    BY <1>1 DEF ClassTwo
  <2> QED
    BY <2>1, <2>2, <2>3, <2>4
<1>2. CASE x \in ClassOne(Addresses)
  <2>1. ~IsTwo(x) /\ x.class = "HelloWorldOne"
    BY <1>2 DEF ClassOne, IsTwo
  <2>2. Dynamic(x) = {"points"}
    BY <2>1 DEF Dynamic
  <2>3. Held(x) = {x.points} \ {None}
    BY <2>2 DEF Held
  <2>4. /\ x = [class |-> "HelloWorldOne", index |-> x.index, points |-> x.points]
        /\ x.index \in Int /\ x.points \in Addresses
    BY <1>2 DEF ClassOne
  <2> QED
    BY <2>1, <2>2, <2>3, <2>4
<1> QED
  BY <1>1, <1>2 DEF Records

\* What is held is storage.
LEMMA HeldIsStorage ==
  ASSUME NEW x \in Records
  PROVE  /\ Held(x) \subseteq Buffers
         /\ \A m \in Dynamic(x) : x[m] \in Addresses /\ (x[m] # None => x[m] \in Held(x))
<1>1. Dynamic(x) = {"message", "children"} \/ Dynamic(x) = {"points"}
  BY Classes
<1>2. \A m \in Dynamic(x) : x[m] \in Addresses
  BY Classes
<1> QED
  BY <1>2 DEF Held, Addresses

\* What an object is worth depends on nothing but itself and its storage.
LEMMA SameStorage ==
  ASSUME NEW x \in Records, NEW h, NEW k, \A b \in Held(x) : k[b] = h[b]
  PROVE  /\ Stored(x, k) = Stored(x, h)
         /\ Worth(x, k) = Worth(x, h)
         /\ Sound(x, h) => Sound(x, k)
<1>1. \A m \in Dynamic(x) : x[m] # None => k[x[m]] = h[x[m]]
  BY HeldIsStorage
<1>2. Stored(x, k) = Stored(x, h)
  BY <1>1 DEF Stored
<1> QED
  BY <1>2 DEF Worth, Sound

\* A value is not None.
LEMMA WorthIsValue ==
  ASSUME NEW x, NEW h, Sound(x, h)
  PROVE  /\ Worth(x, h) # None /\ x # None
         /\ DOMAIN Worth(x, h) = DOMAIN x
         /\ Worth(x, h).class = x.class
<1>1. x \in Records
  BY DEF Sound
<1> DEFINE s == Stored(x, h)
           w == Worth(x, h)
<1>2. DOMAIN w = DOMAIN x
  BY DEF Worth
<1>3. CASE IsTwo(x)
  <2>1. /\ DOMAIN x = {"class", "baseId", "index", "message", "children"}
        /\ x.baseId \in Int /\ x.index \in Int /\ x.class = "HelloWorldTwo"
        /\ Dynamic(x) = {"message", "children"}
    BY <1>1, <1>3, Classes
  <2>2. s.message \in Texts /\ s.children \in Vectors
    BY <1>3 DEF Sound
  <2> HIDE DEF s
  <2>3. w = [class |-> "HelloWorldTwo", baseId |-> x.baseId, index |-> x.index,
             message |-> s.message, children |-> s.children]
    BY <2>1 DEF Worth, s
  <2> HIDE DEF w
  <2>4. w \in ClassTwo(Texts, Vectors) /\ w.class = x.class
    BY <2>1, <2>2, <2>3 DEF ClassTwo
  <2> QED
    BY <1>1, <1>2, <2>4, NoneAssumption DEF w, Records
<1>4. CASE ~IsTwo(x)
  <2>1. /\ DOMAIN x = {"class", "index", "points"}
        /\ x.index \in Int /\ x.class = "HelloWorldOne"
        /\ Dynamic(x) = {"points"}
    BY <1>1, <1>4, Classes
  <2>2. s.points \in Texts
    BY <1>4 DEF Sound
  <2> HIDE DEF s
  <2>3. w = [class |-> "HelloWorldOne", index |-> x.index, points |-> s.points]
    BY <2>1 DEF Worth, s
  <2> HIDE DEF w
  <2>4. w \in ClassOne(Texts) /\ w.class = x.class
    BY <2>1, <2>2, <2>3 DEF ClassOne
  <2> QED
    BY <1>1, <1>2, <2>4, NoneAssumption DEF w, Records
<1> QED
  BY <1>3, <1>4
-----------------------------------------------------------------------------
\* Steps that change one object, or two.

Cells == {None} \cup Texts \cup Vectors

\* Held storage is allocated.
LEMMA HeldIsAllocated ==
  ASSUME NEW O, NEW h, Typed(O, h), Owned(O, h), NEW o \in Objects, NEW b \in HeldIn(O, o)
  PROVE  b \in Buffers /\ h[b] # None
<1>1. O[o] \in Records /\ HeldIn(O, o) = Held(O[o])
  BY DEF Typed, HeldIn, Sound
<1>2. b \in Buffers
  BY <1>1, HeldIsStorage
<1> QED
  BY <1>2 DEF Owned

\* An object that is left alone, and its storage.
LeftAlone(O, h, P, k, z) == P[z] = O[z] /\ \A b \in HeldIn(O, z) : k[b] = h[b]
Unchanged(O, h, P, k, z) ==
  /\ P[z] # None => Sound(P[z], k)
  /\ HeldIn(P, z) = HeldIn(O, z)
  /\ Worths(P, k)[z] = Worths(O, h)[z]

LEMMA Untouched ==
  ASSUME NEW O, NEW h, Typed(O, h), NEW P, NEW k, NEW z \in Objects, LeftAlone(O, h, P, k, z)
  PROVE  Unchanged(O, h, P, k, z)
<1> USE DEF LeftAlone, Unchanged
<1>1. HeldIn(P, z) = HeldIn(O, z)
  BY DEF HeldIn
<1>2. CASE O[z] = None
  BY <1>1, <1>2 DEF Worths
<1>3. CASE O[z] # None
  <2> DEFINE x == O[z]
  <2>1. Sound(x, h) /\ x \in Records
    BY <1>3 DEF Typed, Sound
  <2>2. \A b \in Held(x) : k[b] = h[b]
    BY <1>3 DEF HeldIn
  <2> HIDE DEF x
  <2>3. Worth(x, k) = Worth(x, h) /\ Sound(x, k)
    BY <2>1, <2>2, SameStorage
  <2> QED
    BY <1>1, <1>3, <2>3 DEF x, Worths
<1> QED
  BY <1>2, <1>3

\* Object o becomes y: it gives up the storage in D, and takes that in F.
OneNew(O, h, o, y, P, k, D, F) ==
  /\ P = [O EXCEPT ![o] = y]
  /\ k \in [Buffers -> Cells]
  /\ y # None => Sound(y, k)
  /\ D \subseteq HeldIn(O, o) /\ F \subseteq Buffers /\ \A b \in F : h[b] = None
  /\ HeldIn(P, o) = (HeldIn(O, o) \ D) \cup F
  /\ \A b \in Buffers : /\ b \in HeldIn(P, o) => k[b] # None
                        /\ b \in D => k[b] = None
                        /\ b \notin HeldIn(O, o) \cup F => k[b] = h[b]

LEMMA OneChanges ==
  ASSUME NEW O, NEW h, Typed(O, h), Owned(O, h), NEW o \in Objects,
         NEW y, NEW P, NEW k, NEW D, NEW F, OneNew(O, h, o, y, P, k, D, F)
  PROVE  /\ Typed(P, k) /\ Owned(P, k)
         /\ Worths(P, k) = [Worths(O, h) EXCEPT ![o] = IF y = None THEN None ELSE Worth(y, k)]
<1> USE DEF OneNew
<1>1. /\ P = [z \in Objects |-> P[z]] /\ P[o] = y
      /\ \A z \in Objects : z # o => P[z] = O[z]
  BY DEF Typed
<1>2. ASSUME NEW z \in Objects, z # o, NEW b \in HeldIn(O, z)
      PROVE  b \in Buffers /\ k[b] = h[b] /\ k[b] # None
  <2>1. b \in Buffers /\ h[b] # None
    BY HeldIsAllocated
  <2>2. b \notin HeldIn(O, o)
    BY <1>2 DEF Owned
  <2>3. b \notin F
    BY <2>1
  <2> QED
    BY <2>1, <2>2, <2>3
<1>3. ASSUME NEW z \in Objects, z # o
      PROVE  /\ P[z] # None => Sound(P[z], k)
             /\ HeldIn(P, z) = HeldIn(O, z)
             /\ Worths(P, k)[z] = Worths(O, h)[z]
  <2>1. P[z] = O[z]
    BY <1>1, <1>3
  <2>2. \A b \in HeldIn(O, z) : k[b] = h[b]
    BY <1>2, <1>3
  <2>3. LeftAlone(O, h, P, k, z)
    BY <2>1, <2>2 DEF LeftAlone
  <2>4. Unchanged(O, h, P, k, z)
    BY <2>3, Untouched
  <2> QED
    BY <2>4 DEF Unchanged
<1>4. Typed(P, k)
  BY <1>1, <1>3 DEF Typed, Cells
<1>5. Owned(P, k)
  <2>1. ASSUME NEW b \in Buffers
        PROVE  k[b] # None <=> \E z \in Objects : b \in HeldIn(P, z)
    <3>1. CASE \E z \in Objects : z # o /\ b \in HeldIn(O, z)
      BY <1>2, <1>3, <3>1
    <3>2. CASE ~\E z \in Objects : z # o /\ b \in HeldIn(O, z)
      <4>1. (\E z \in Objects : b \in HeldIn(P, z)) <=> b \in HeldIn(P, o)
        BY <1>3, <3>2
      <4>2. k[b] # None => b \in HeldIn(P, o)
        <5> SUFFICES ASSUME b \notin HeldIn(P, o) PROVE k[b] = None
          OBVIOUS
        <5>1. CASE b \in D
          BY <5>1
        <5>2. CASE b \notin D
          <6>1. b \notin HeldIn(O, o) \cup F
            BY <5>2
          <6>2. h[b] = None
            BY <3>2, <6>1 DEF Owned
          <6> QED
            BY <6>1, <6>2
        <5> QED
          BY <5>1, <5>2
      <4> QED
        BY <4>1, <4>2
    <3> QED
      BY <3>1, <3>2
  <2>2. ASSUME NEW z \in Objects, z # o
        PROVE  HeldIn(P, z) \cap HeldIn(P, o) = {}
    <3>1. HeldIn(O, z) \cap HeldIn(O, o) = {}
      BY <2>2 DEF Owned
    <3>2. HeldIn(O, z) \cap F = {}
      BY HeldIsAllocated
    <3> QED
      BY <1>3, <2>2, <3>1, <3>2
  <2>3. ASSUME NEW z \in Objects, NEW x \in Objects, z # x
        PROVE  HeldIn(P, z) \cap HeldIn(P, x) = {}
    <3>1. CASE z = o
      BY <2>2, <2>3, <3>1
    <3>2. CASE x = o
      BY <2>2, <2>3, <3>2
    <3>3. CASE z # o /\ x # o
      BY <1>3, <2>3, <3>3 DEF Owned
    <3> QED
      BY <3>1, <3>2, <3>3
  <2> QED
    BY <2>1, <2>3 DEF Owned
<1>6. Worths(P, k) = [Worths(O, h) EXCEPT ![o] = IF y = None THEN None ELSE Worth(y, k)]
  <2> DEFINE v == Worths(O, h)
             w == Worths(P, k)
             c == IF y = None THEN None ELSE Worth(y, k)
  <2>1. DOMAIN v = Objects /\ DOMAIN w = Objects /\ w = [z \in Objects |-> w[z]]
    BY DEF Worths
  <2>2. w[o] = c
    BY <1>1 DEF Worths
  <2>3. \A z \in Objects : z # o => w[z] = v[z]
    BY <1>3
  <2> HIDE DEF v, w, c
  <2>4. w = [v EXCEPT ![o] = c]
    BY <2>1, <2>2, <2>3
  <2> QED
    BY <2>4 DEF v, w, c
<1> QED
  BY <1>4, <1>5, <1>6

\* Object o becomes y, with the storage of x, which becomes w and keeps none.
TwoNew(O, h, o, x, y, w, P, k) ==
  /\ P = [O EXCEPT ![o] = y, ![x] = w]
  /\ k \in [Buffers -> Cells]
  /\ y # None /\ Sound(y, k)
  /\ w # None /\ Sound(w, k)
  /\ HeldIn(P, o) = HeldIn(O, x) /\ HeldIn(P, x) = {}
  /\ \A b \in Buffers : k[b] = IF b \in HeldIn(O, o) THEN None ELSE h[b]

LEMMA TwoChange ==
  ASSUME NEW O, NEW h, Typed(O, h), Owned(O, h), NEW o \in Objects, NEW x \in Objects, o # x,
         NEW y, NEW w, NEW P, NEW k, TwoNew(O, h, o, x, y, w, P, k)
  PROVE  /\ Typed(P, k) /\ Owned(P, k)
         /\ Worths(P, k) = [Worths(O, h) EXCEPT ![o] = Worth(y, k), ![x] = Worth(w, k)]
<1> USE DEF TwoNew
<1>1. /\ P = [z \in Objects |-> P[z]] /\ P[o] = y /\ P[x] = w
      /\ \A z \in Objects : z # o /\ z # x => P[z] = O[z]
  BY DEF Typed
<1>2. ASSUME NEW z \in Objects, z # o, NEW b \in HeldIn(O, z)
      PROVE  b \in Buffers /\ k[b] = h[b] /\ k[b] # None
  <2>1. b \in Buffers /\ h[b] # None
    BY HeldIsAllocated
  <2>2. b \notin HeldIn(O, o)
    BY <1>2 DEF Owned
  <2> QED
    BY <2>1, <2>2
<1>3. ASSUME NEW z \in Objects, z # o, z # x
      PROVE  /\ P[z] # None => Sound(P[z], k)
             /\ HeldIn(P, z) = HeldIn(O, z)
             /\ Worths(P, k)[z] = Worths(O, h)[z]
  <2>1. P[z] = O[z]
    BY <1>1, <1>3
  <2>2. \A b \in HeldIn(O, z) : k[b] = h[b]
    BY <1>2, <1>3
  <2>3. LeftAlone(O, h, P, k, z)
    BY <2>1, <2>2 DEF LeftAlone
  <2>4. Unchanged(O, h, P, k, z)
    BY <2>3, Untouched
  <2> QED
    BY <2>4 DEF Unchanged
<1>4. Typed(P, k)
  BY <1>1, <1>3 DEF Typed, Cells
<1>5. Owned(P, k)
  <2>1. ASSUME NEW b \in Buffers
        PROVE  k[b] # None <=> \E z \in Objects : b \in HeldIn(P, z)
    <3>1. CASE \E z \in Objects : z # o /\ b \in HeldIn(O, z)
      <4>1. PICK z \in Objects : z # o /\ b \in HeldIn(O, z)
        BY <3>1
      <4>2. k[b] # None
        BY <1>2, <4>1
      <4>3. b \in HeldIn(P, z) \/ b \in HeldIn(P, o)
        BY <1>3, <4>1
      <4> QED
        BY <4>2, <4>3
    <3>2. CASE ~\E z \in Objects : z # o /\ b \in HeldIn(O, z)
      <4>1. ~\E z \in Objects : b \in HeldIn(P, z)
        BY <1>3, <3>2
      <4>2. k[b] = None
        <5>1. CASE b \in HeldIn(O, o)
          BY <5>1
        <5>2. CASE b \notin HeldIn(O, o)
          <6>1. h[b] = None
            BY <3>2, <5>2 DEF Owned
          <6> QED
            BY <5>2, <6>1
        <5> QED
          BY <5>1, <5>2
      <4> QED
        BY <4>1, <4>2
    <3> QED
      BY <3>1, <3>2
  <2>2. ASSUME NEW z \in Objects, z # o
        PROVE  HeldIn(P, z) \cap HeldIn(P, o) = {}
    <3>1. CASE z = x
      BY <3>1
    <3>2. CASE z # x
      <4>1. HeldIn(P, z) = HeldIn(O, z)
        BY <1>3, <2>2, <3>2
      <4>2. HeldIn(O, z) \cap HeldIn(O, x) = {}
        BY <3>2 DEF Owned
      <4> QED
        BY <4>1, <4>2
    <3> QED
      BY <3>1, <3>2
  <2>3. ASSUME NEW z \in Objects, NEW a \in Objects, z # a
        PROVE  HeldIn(P, z) \cap HeldIn(P, a) = {}
    <3>1. CASE z = o
      BY <2>2, <2>3, <3>1
    <3>2. CASE a = o
      BY <2>2, <2>3, <3>2
    <3>3. CASE z = x \/ a = x
      BY <3>3
    <3>4. CASE z # o /\ a # o /\ z # x /\ a # x
      <4>1. HeldIn(P, z) = HeldIn(O, z) /\ HeldIn(P, a) = HeldIn(O, a)
        BY <1>3, <3>4
      <4>2. HeldIn(O, z) \cap HeldIn(O, a) = {}
        BY <2>3 DEF Owned
      <4> QED
        BY <4>1, <4>2
    <3> QED
      BY <3>1, <3>2, <3>3, <3>4
  <2> QED
    BY <2>1, <2>3 DEF Owned
<1>6. Worths(P, k) = [Worths(O, h) EXCEPT ![o] = Worth(y, k), ![x] = Worth(w, k)]
  <2> DEFINE v == Worths(O, h)
             u == Worths(P, k)
             c == Worth(y, k)
             d == Worth(w, k)
  <2>1. DOMAIN v = Objects /\ DOMAIN u = Objects /\ u = [z \in Objects |-> u[z]]
    BY DEF Worths
  <2>2. u[o] = c /\ u[x] = d
    BY <1>1 DEF Worths
  <2>3. \A z \in Objects : z # o /\ z # x => u[z] = v[z]
    BY <1>3
  <2> HIDE DEF v, u, c, d
  <2>4. u = [v EXCEPT ![o] = c, ![x] = d]
    BY <2>1, <2>2, <2>3
  <2> QED
    BY <2>4 DEF v, u, c, d
<1> QED
  BY <1>4, <1>5, <1>6
-----------------------------------------------------------------------------
\* New storage.

\* The heap is never full: the objects hold two addresses each at most.
LEMMA TwoFree ==
  ASSUME NEW O, NEW h, Typed(O, h), Owned(O, h)
  PROVE  \E a, b \in Buffers : a # b /\ h[a] = None /\ h[b] = None
<1> DEFINE M == Objects \X {1, 2}
           Place(x, i) == IF IsTwo(x) THEN IF i = 1 THEN x.message ELSE x.children ELSE x.points
           r == [p \in M |-> IF O[p[1]] = None THEN None ELSE Place(O[p[1]], p[2])]
           T == {r[p] : p \in M}
           Free == Buffers \ T
<1>1. IsFiniteSet(M) /\ Cardinality(M) = 2 * Cardinality(Objects)
  <2>1. IsFiniteSet({1}) /\ Cardinality({1}) = 1
    BY FS_Singleton
  <2>2. IsFiniteSet({1} \cup {2}) /\ Cardinality({1} \cup {2}) = 2
    BY <2>1, FS_AddElement
  <2>3. {1} \cup {2} = {1, 2}
    OBVIOUS
  <2>4. IsFiniteSet(Objects) /\ Cardinality(Objects) \in Nat
    BY HeapAssumption, FS_CardinalityType
  <2>5. IsFiniteSet(M) /\ Cardinality(M) = Cardinality(Objects) * Cardinality({1, 2})
    BY <2>2, <2>3, <2>4, FS_Product
  <2> QED
    BY <2>2, <2>3, <2>4, <2>5
<1>2. IsFiniteSet(T) /\ Cardinality(T) <= Cardinality(M)
  <2>1. r \in Surjection(M, T)
    BY DEF Surjection
  <2> HIDE DEF M, r, T
  <2> QED
    BY <1>1, <2>1, FS_Surjection
<1>3. \A o \in Objects : HeldIn(O, o) \subseteq T
  <2> SUFFICES ASSUME NEW o \in Objects, NEW b \in HeldIn(O, o)
               PROVE  b \in T
    BY Zenon
  <2>1. O[o] # None /\ b \in Held(O[o]) /\ O[o] \in Records
    BY DEF HeldIn, Typed, Sound
  <2> DEFINE x == O[o]
  <2>2. <<o, 1>> \in M /\ <<o, 2>> \in M
    OBVIOUS
  <2>3. r[<<o, 1>>] = Place(x, 1) /\ r[<<o, 2>>] = Place(x, 2)
    BY <2>1, <2>2
  <2>4. b = Place(x, 1) \/ b = Place(x, 2)
    BY <2>1, Classes
  <2> HIDE DEF M, r
  <2> QED
    BY <2>2, <2>3, <2>4
<1>4. \A b \in Free : b \in Buffers /\ h[b] = None
  BY <1>3 DEF Owned
<1> HIDE DEF M, r, T
<1>5. IsFiniteSet(Free) /\ Cardinality(Free) \in Nat /\ Cardinality(Free) >= 2
  <2>1. IsFiniteSet(Buffers) /\ Cardinality(Buffers) >= 2 * Cardinality(Objects) + 2
    BY HeapAssumption
  <2>2. Cardinality(Free) = Cardinality(Buffers) - Cardinality(Buffers \cap T) /\ IsFiniteSet(Free)
    BY <2>1, FS_Difference
  <2>3. Cardinality(Buffers \cap T) <= Cardinality(T)
    BY <1>2, <2>1, FS_Intersection
  <2>4. IsFiniteSet(Buffers \cap T)
    BY <1>2, FS_Intersection
  <2>5. /\ Cardinality(Free) \in Nat /\ Cardinality(Buffers) \in Nat /\ Cardinality(T) \in Nat
        /\ Cardinality(Buffers \cap T) \in Nat /\ Cardinality(Objects) \in Nat
    BY <1>2, <2>1, <2>2, <2>4, HeapAssumption, FS_CardinalityType
  <2> HIDE DEF Free
  <2> QED
    BY <1>1, <1>2, <2>1, <2>2, <2>3, <2>5
<1> HIDE DEF Free
<1>6. PICK a : a \in Free
  BY <1>5, FS_EmptySet
<1>7. IsFiniteSet(Free \ {a}) /\ Cardinality(Free \ {a}) >= 1
  <2>1. IsFiniteSet(Free \ {a}) /\ Cardinality(Free \ {a}) = Cardinality(Free) - 1
    BY <1>5, <1>6, FS_RemoveElement
  <2> QED
    BY <1>5, <2>1
<1>8. PICK b : b \in Free \ {a}
  BY <1>7, FS_EmptySet
<1> QED
  BY <1>4, <1>6, <1>8

\* The storage of a copy of x is free, and each member of the copy has its own.
LEMMA NewIsFree ==
  ASSUME Typed(obj, heap), Owned(obj, heap), NEW x \in Records
  PROVE  /\ NewStorage(x) \in [Dynamic(x) -> {b \in Buffers : heap[b] = None}]
         /\ \A m, k \in Dynamic(x) : NewStorage(x)[m] = NewStorage(x)[k] => m = k
<1> DEFINE F == {b \in Buffers : heap[b] = None}
           S == [Dynamic(x) -> F]
           Apart(new) == \A m, k \in Dynamic(x) : new[m] = new[k] => m = k
<1>1. PICK a, b \in Buffers : a # b /\ heap[a] = None /\ heap[b] = None
  BY TwoFree
<1> DEFINE s == [m \in Dynamic(x) |-> IF m = "children" THEN a ELSE b]
<1>2. Dynamic(x) = {"message", "children"} \/ Dynamic(x) = {"points"}
  BY Classes
<1>3. s \in S /\ Apart(s)
  BY <1>1, <1>2
<1> HIDE DEF s, F
<1>4. NewStorage(x) = CHOOSE new \in S : Apart(new)
  BY DEF NewStorage, F
<1>5. NewStorage(x) \in S /\ Apart(NewStorage(x))
  BY <1>3, <1>4
<1> QED
  BY <1>5 DEF F
-----------------------------------------------------------------------------
\* Copies.

\* An element is copied, assigned and moved with the member of its base.
LEMMA SameElements ==
  ASSUME NEW c \in Vectors
  PROVE  /\ [i \in DOMAIN c |-> ChildDataCopy(ChildDataNew, c[i])] = c
         /\ [i \in DOMAIN c |-> ChildDataAssign(ChildDataNew, c[i])] = c
         /\ [i \in DOMAIN c |-> ChildDataMove(ChildDataNew, c[i])] = c
<1>1. ASSUME NEW e \in [baseId : Int, childId : Int]
      PROVE  /\ ChildDataCopy(ChildDataNew, e) = e
             /\ ChildDataAssign(ChildDataNew, e) = e
             /\ ChildDataMove(ChildDataNew, e) = e
  BY DEF ChildDataCopy, DataBaseCopy, ChildDataAssign, DataBaseAssign, ChildDataMove, DataBaseMove,
         ChildDataNew
<1>2. /\ c = [i \in DOMAIN c |-> c[i]]
      /\ \A i \in DOMAIN c : c[i] \in [baseId : Int, childId : Int]
  BY LenProperties DEF Vectors
<1> QED
  BY <1>1, <1>2

\* The heap k once x was copied to the storage new, and dropped was freed.
Refilled(k, x, new, dropped) ==
  /\ k \in [Buffers -> Cells]
  /\ \A m \in Dynamic(x) : k[new[m]] = Stored(x, heap)[m]
  /\ \A b \in Buffers : (\A m \in Dynamic(x) : new[m] # b) =>
       k[b] = IF b \in dropped THEN None ELSE heap[b]

\* What is stored is a text or a sequence.
LEMMA StoredTypes ==
  ASSUME NEW x, NEW h, Sound(x, h), NEW m \in Dynamic(x)
  PROVE  /\ Stored(x, h)[m] \in Texts \cup Vectors
         /\ m = "children" => Stored(x, h)[m] \in Vectors
<1>1. x \in Records
  BY DEF Sound
<1>2. CASE IsTwo(x)
  <2>1. m = "message" \/ m = "children"
    BY <1>1, <1>2, Classes
  <2> QED
    BY <1>2, <2>1 DEF Sound
<1>3. CASE ~IsTwo(x)
  <2>1. m = "points"
    BY <1>1, <1>3, Classes
  <2> QED
    BY <1>3, <2>1 DEF Sound
<1> QED
  BY <1>2, <1>3

LEMMA CopiesAreEqual ==
  ASSUME Typed(obj, heap), NEW x, Sound(x, heap), NEW new \in [Dynamic(x) -> Buffers],
         \A m, k \in Dynamic(x) : new[m] = new[k] => m = k, NEW dropped
  PROVE  /\ Refilled(HeapWithCopy(x, new, dropped, LAMBDA c : ChildDataCopy(ChildDataNew, c)),
                     x, new, dropped)
         /\ Refilled(HeapWithCopy(x, new, dropped, LAMBDA c : ChildDataAssign(ChildDataNew, c)),
                     x, new, dropped)
<1> DEFINE s == Stored(x, heap)
           Slot(b) == CHOOSE k \in Dynamic(x) : new[k] = b
           Taken(b) == \E m \in Dynamic(x) : new[m] = b
           Left(b) == IF b \in dropped THEN None ELSE heap[b]
           k == [b \in Buffers |-> IF Taken(b) THEN s[Slot(b)] ELSE Left(b)]
<1>1. \A m \in Dynamic(x) : Contents(x[m]) = s[m]
  BY DEF Contents, Stored
<1>2. \A m \in Dynamic(x) : s[m] \in Texts \cup Vectors /\ (m = "children" => s[m] \in Vectors)
  BY StoredTypes
<1>3. \A b \in Buffers : Taken(b) => Slot(b) \in Dynamic(x) /\ new[Slot(b)] = b
  OBVIOUS
<1>4. \A m \in Dynamic(x) : new[m] \in Buffers /\ Taken(new[m]) /\ Slot(new[m]) = m
  BY <1>3
<1>5. \A b \in Buffers : heap[b] \in Cells
  BY DEF Typed, Cells
<1>6. HeapWithCopy(x, new, dropped, LAMBDA c : ChildDataCopy(ChildDataNew, c)) = k
  <2>1. ASSUME NEW b \in Buffers, Taken(b)
        PROVE  LET m == Slot(b)
                   c == Contents(x[m])
               IN (IF m = "children" THEN [i \in DOMAIN c |-> ChildDataCopy(ChildDataNew, c[i])]
                   ELSE c) = s[m]
    <3> DEFINE m == Slot(b)
               c == Contents(x[m])
    <3>1. m \in Dynamic(x)
      BY <1>3, <2>1
    <3>2. c = s[m] /\ (m = "children" => c \in Vectors)
      BY <1>1, <1>2, <3>1
    <3> HIDE DEF m, c
    <3>3. (IF m = "children" THEN [i \in DOMAIN c |-> ChildDataCopy(ChildDataNew, c[i])] ELSE c) = s[m]
      BY <3>2, SameElements
    <3> QED
      BY <3>3 DEF m, c
  <2> HIDE DEF s
  <2> QED
    BY <2>1 DEF HeapWithCopy
<1>7. HeapWithCopy(x, new, dropped, LAMBDA c : ChildDataAssign(ChildDataNew, c)) = k
  <2>1. ASSUME NEW b \in Buffers, Taken(b)
        PROVE  LET m == Slot(b)
                   c == Contents(x[m])
               IN (IF m = "children" THEN [i \in DOMAIN c |-> ChildDataAssign(ChildDataNew, c[i])]
                   ELSE c) = s[m]
    <3> DEFINE m == Slot(b)
               c == Contents(x[m])
    <3>1. m \in Dynamic(x)
      BY <1>3, <2>1
    <3>2. c = s[m] /\ (m = "children" => c \in Vectors)
      BY <1>1, <1>2, <3>1
    <3> HIDE DEF m, c
    <3>3. (IF m = "children" THEN [i \in DOMAIN c |-> ChildDataAssign(ChildDataNew, c[i])] ELSE c) = s[m]
      BY <3>2, SameElements
    <3> QED
      BY <3>3 DEF m, c
  <2> HIDE DEF s
  <2> QED
    BY <2>1 DEF HeapWithCopy
<1>8. Refilled(k, x, new, dropped)
  <2> HIDE DEF s, Slot
  <2>1. k \in [Buffers -> Cells]
    BY <1>2, <1>3, <1>5 DEF Cells
  <2>2. \A m \in Dynamic(x) : k[new[m]] = s[m]
    BY <1>4
  <2>3. \A b \in Buffers : ~Taken(b) => k[b] = Left(b)
    OBVIOUS
  <2> HIDE DEF k
  <2> QED
    BY <2>1, <2>2, <2>3 DEF Refilled, s
<1> HIDE DEF k
<1> QED
  BY <1>6, <1>7, <1>8

\* x with the storage new.
Renewed(x, new) == [m \in DOMAIN x |-> IF m \in Dynamic(x) THEN new[m] ELSE x[m]]

LEMMA RenewedIsSound ==
  ASSUME NEW x, Sound(x, heap), NEW new \in [Dynamic(x) -> Buffers],
         \A m, k \in Dynamic(x) : new[m] = new[k] => m = k,
         NEW dropped, NEW k, Refilled(k, x, new, dropped)
  PROVE  /\ Sound(Renewed(x, new), k)
         /\ Worth(Renewed(x, new), k) = Worth(x, heap)
         /\ Held(Renewed(x, new)) = {new[m] : m \in Dynamic(x)}
<1> DEFINE y == Renewed(x, new)
           s == Stored(x, heap)
<1>1. x \in Records
  BY DEF Sound
<1>2. /\ DOMAIN y = DOMAIN x
      /\ \A m \in DOMAIN x : y[m] = IF m \in Dynamic(x) THEN new[m] ELSE x[m]
  BY DEF Renewed
<1>3. Dynamic(x) \subseteq DOMAIN x /\ "class" \in DOMAIN x /\ "class" \notin Dynamic(x)
  <2>1. CASE IsTwo(x)
    <3>1. /\ DOMAIN x = {"class", "baseId", "index", "message", "children"}
          /\ Dynamic(x) = {"message", "children"}
      BY <1>1, <2>1, Classes
    <3> QED
      BY <3>1
  <2>2. CASE ~IsTwo(x)
    <3>1. DOMAIN x = {"class", "index", "points"} /\ Dynamic(x) = {"points"}
      BY <1>1, <2>2, Classes
    <3> QED
      BY <3>1
  <2> QED
    BY <2>1, <2>2
<1>4. y.class = x.class /\ Dynamic(y) = Dynamic(x) /\ (IsTwo(y) <=> IsTwo(x))
  BY <1>2, <1>3 DEF Dynamic, IsTwo
<1>5. \A m \in Dynamic(x) : y[m] = new[m] /\ new[m] \in Buffers /\ new[m] # None
  BY <1>2, <1>3, NoneAssumption
<1>6. Held(y) = {new[m] : m \in Dynamic(x)}
  BY <1>4, <1>5 DEF Held
<1>7. Stored(y, k) = s
  BY <1>4, <1>5 DEF Stored, Refilled
<1>8. y \in Records
  <2>1. CASE IsTwo(x)
    <3>1. /\ DOMAIN x = {"class", "baseId", "index", "message", "children"}
          /\ Dynamic(x) = {"message", "children"}
          /\ x.baseId \in Int /\ x.index \in Int /\ x.class = "HelloWorldTwo"
      BY <1>1, <2>1, Classes
    <3>2. y = [class |-> "HelloWorldTwo", baseId |-> x.baseId, index |-> x.index,
               message |-> new.message, children |-> new.children]
      BY <3>1 DEF Renewed
    <3>3. new.message \in Addresses /\ new.children \in Addresses
      BY <1>5, <3>1 DEF Addresses
    <3> HIDE DEF y
    <3> QED
      BY <3>1, <3>2, <3>3 DEF Records, ClassTwo
  <2>2. CASE ~IsTwo(x)
    <3>1. /\ DOMAIN x = {"class", "index", "points"} /\ Dynamic(x) = {"points"}
          /\ x.index \in Int /\ x.class = "HelloWorldOne"
      BY <1>1, <2>2, Classes
    <3>2. y = [class |-> "HelloWorldOne", index |-> x.index, points |-> new.points]
      BY <3>1 DEF Renewed
    <3>3. new.points \in Addresses
      BY <1>5, <3>1 DEF Addresses
    <3> HIDE DEF y
    <3> QED
      BY <3>1, <3>2, <3>3 DEF Records, ClassOne
  <2> QED
    BY <2>1, <2>2
<1> HIDE DEF y
<1>9. Sound(y, k)
  <2>1. IsTwo(x) => y.message # y.children
    <3>1. IsTwo(x) => Dynamic(x) = {"message", "children"}
      BY <1>1, Classes
    <3> QED
      BY <1>5, <3>1
  <2> QED
    BY <1>4, <1>7, <1>8, <2>1 DEF Sound
<1>10. Worth(y, k) = Worth(x, heap)
  BY <1>2, <1>4, <1>7 DEF Worth
<1> QED
  BY <1>6, <1>9, <1>10 DEF y

\* o becomes a copy of x, which may be o itself.
LEMMA CopyOne ==
  ASSUME Typed(obj, heap), Owned(obj, heap), NEW o \in Objects, NEW x \in Objects, obj[x] # None,
         NEW P, P = [obj EXCEPT ![o] = Renewed(obj[x], NewStorage(obj[x]))],
         NEW k, Refilled(k, obj[x], NewStorage(obj[x]), HeldIn(obj, o))
  PROVE  /\ Typed(P, k) /\ Owned(P, k)
         /\ Worths(P, k) = [Worths(obj, heap) EXCEPT ![o] = Worths(obj, heap)[x]]
<1> DEFINE z == obj[x]
           new == NewStorage(z)
           y == Renewed(z, new)
           D == HeldIn(obj, o)
           F == {new[m] : m \in Dynamic(z)}
           c == IF y = None THEN None ELSE Worth(y, k)
<1>1. Sound(z, heap) /\ z \in Records
  BY DEF Typed, Sound
<1>2. /\ new \in [Dynamic(z) -> {b \in Buffers : heap[b] = None}]
      /\ \A m, n \in Dynamic(z) : new[m] = new[n] => m = n
  BY <1>1, NewIsFree
<1>3. new \in [Dynamic(z) -> Buffers] /\ \A m \in Dynamic(z) : heap[new[m]] = None
  BY <1>2
<1>4. Refilled(k, z, new, D)
  OBVIOUS
<1>5. P = [obj EXCEPT ![o] = y]
  OBVIOUS
<1>6. Worths(obj, heap)[x] = Worth(z, heap)
  BY DEF Worths
<1> HIDE DEF z, new
<1>7. Sound(y, k) /\ Worth(y, k) = Worth(z, heap) /\ Held(y) = F
  BY <1>1, <1>2, <1>3, <1>4, RenewedIsSound
<1> HIDE DEF y
<1>8. y # None
  BY <1>7, WorthIsValue
<1>9. HeldIn(P, o) = F
  <2>1. P[o] = y
    BY <1>5 DEF Typed
  <2> QED
    BY <1>7, <1>8, <2>1 DEF HeldIn
<1>10. F \subseteq Buffers /\ \A b \in F : heap[b] = None
  BY <1>3
<1>11. k \in [Buffers -> Cells]
  BY <1>4 DEF Refilled
<1>12. \A m \in Dynamic(z) : k[new[m]] # None
  <2>1. \A m \in Dynamic(z) : Stored(z, heap)[m] \in Texts \cup Vectors
    BY <1>1, StoredTypes
  <2> QED
    BY <1>4, <2>1, NoneAssumption DEF Refilled
<1>13. \A b \in F : k[b] # None
  BY <1>12
<1>14. \A b \in Buffers : b \notin F => k[b] = IF b \in D THEN None ELSE heap[b]
  BY <1>4 DEF Refilled
<1>15. D \cap F = {}
  BY <1>10, HeldIsAllocated
<1>16. HeldIn(P, o) = (HeldIn(obj, o) \ D) \cup F
  BY <1>9
<1>17. \A b \in Buffers : /\ b \in HeldIn(P, o) => k[b] # None
                          /\ b \in D => k[b] = None
                          /\ b \notin HeldIn(obj, o) \cup F => k[b] = heap[b]
  BY <1>9, <1>13, <1>14, <1>15
<1> HIDE DEF F, D
<1>18. D \subseteq HeldIn(obj, o)
  BY DEF D
<1>19. OneNew(obj, heap, o, y, P, k, D, F)
  BY <1>5, <1>7, <1>10, <1>11, <1>16, <1>17, <1>18 DEF OneNew
<1>20. /\ Typed(P, k) /\ Owned(P, k)
       /\ Worths(P, k) = [Worths(obj, heap) EXCEPT ![o] = c]
  BY <1>19, OneChanges
<1> QED
  BY <1>6, <1>7, <1>8, <1>20
-----------------------------------------------------------------------------
(***************************************************************************)
(* The inductive invariant: objects are of their class, and each piece of  *)
(* storage that is allocated is held by one object.                        *)
(***************************************************************************)
MInv == Typed(obj, heap) /\ Owned(obj, heap)

\* ObjectValues, before and after a step.
Now == Worths(obj, heap)
Then == Worths(obj', heap')

LEMMA InitMInv == Init => MInv
<1> SUFFICES ASSUME Init PROVE MInv
  OBVIOUS
<1>1. obj = [o \in Objects |-> None] /\ heap = [b \in Buffers |-> None]
  BY DEF Init
<1>2. Typed(obj, heap)
  BY <1>1 DEF Typed
<1>3. Owned(obj, heap)
  BY <1>1 DEF Owned, HeldIn
<1> QED
  BY <1>2, <1>3 DEF MInv

LEMMA ConstructStep ==
  ASSUME MInv, NEW o \in Objects, Construct(o)
  PROVE  MInv' /\ Now[o] = None /\ \E v \in Defaults : Then = [Now EXCEPT ![o] = v]
<1>1. Typed(obj, heap) /\ Owned(obj, heap)
  BY DEF MInv
<1>2. PICK x \in {HelloWorldOneNew, HelloWorldTwoNew} : obj' = [obj EXCEPT ![o] = x]
  BY DEF Construct
<1>3. obj[o] = None /\ heap' = heap
  BY DEF Construct, Exists
<1>4. obj'[o] = x
  BY <1>1, <1>2 DEF Typed
<1>5. <<>> \in Texts /\ <<>> \in Vectors /\ None \in Addresses
  BY DEF Texts, Vectors, Addresses
<1>6. Sound(x, heap) /\ Held(x) = {} /\ Worth(x, heap) \in Defaults
  <2>1. CASE x = HelloWorldOneNew
    <3>1. x = [class |-> "HelloWorldOne", index |-> 0, points |-> None]
      BY <2>1 DEF HelloWorldOneNew
    <3>2. x \in Records /\ ~IsTwo(x) /\ Dynamic(x) = {"points"} /\ x.points = None
      BY <1>5, <3>1 DEF Records, ClassOne, IsTwo, Dynamic
    <3>3. Held(x) = {} /\ Stored(x, heap).points = <<>>
      BY <3>2 DEF Held, Stored
    <3>4. Sound(x, heap)
      BY <1>5, <3>2, <3>3 DEF Sound
    <3>5. Worth(x, heap) = [class |-> "HelloWorldOne", index |-> 0, points |-> <<>>]
      BY <3>1, <3>2, <3>3 DEF Worth
    <3>6. [HelloWorldOneNew EXCEPT !.points = <<>>]
            = [class |-> "HelloWorldOne", index |-> 0, points |-> <<>>]
      BY DEF HelloWorldOneNew
    <3> QED
      BY <3>3, <3>4, <3>5, <3>6 DEF Defaults
  <2>2. CASE x = HelloWorldTwoNew
    <3>1. x = [class |-> "HelloWorldTwo", baseId |-> 0, index |-> 0,
               message |-> None, children |-> None]
      BY <2>2 DEF HelloWorldTwoNew
    <3>2. /\ x \in Records /\ IsTwo(x) /\ Dynamic(x) = {"message", "children"}
          /\ x.message = None /\ x.children = None
      BY <1>5, <3>1 DEF Records, ClassTwo, IsTwo, Dynamic
    <3>3. Held(x) = {} /\ Stored(x, heap).message = <<>> /\ Stored(x, heap).children = <<>>
      BY <3>2 DEF Held, Stored
    <3>4. Sound(x, heap)
      BY <1>5, <3>2, <3>3 DEF Sound
    <3>5. Worth(x, heap) = [class |-> "HelloWorldTwo", baseId |-> 0, index |-> 0,
                            message |-> <<>>, children |-> <<>>]
      BY <3>1, <3>2, <3>3 DEF Worth
    <3> DEFINE a == [HelloWorldTwoNew EXCEPT !.message = <<>>, !.children = <<>>]
    <3>6. a = [f \in {"class", "baseId", "index", "message", "children"} |-> a[f]]
      BY DEF HelloWorldTwoNew
    <3>7. /\ a.class = "HelloWorldTwo" /\ a.baseId = 0 /\ a.index = 0
          /\ a.message = <<>> /\ a.children = <<>>
      BY DEF HelloWorldTwoNew
    <3>8. a \in Defaults
      BY DEF Defaults
    <3> HIDE DEF a
    <3>9. Worth(x, heap) = a
      BY <3>5, <3>6, <3>7
    <3> QED
      BY <3>3, <3>4, <3>8, <3>9
  <2> QED
    BY <2>1, <2>2
<1>7. x # None
  BY <1>6, WorthIsValue
<1>8. HeldIn(obj', o) = {} /\ HeldIn(obj, o) = {}
  BY <1>3, <1>4, <1>6 DEF HeldIn
<1>9. heap' \in [Buffers -> Cells]
  BY <1>1, <1>3 DEF Typed, Cells
<1>10. OneNew(obj, heap, o, x, obj', heap', {}, {})
  BY <1>2, <1>3, <1>6, <1>8, <1>9 DEF OneNew
<1>11. /\ Typed(obj', heap') /\ Owned(obj', heap')
       /\ Worths(obj', heap') = [Worths(obj, heap) EXCEPT ![o] = IF x = None THEN None ELSE Worth(x, heap')]
  BY <1>1, <1>10, OneChanges
<1>12. Worths(obj, heap)[o] = None
  BY <1>3 DEF Worths
<1> QED
  BY <1>3, <1>6, <1>7, <1>11, <1>12 DEF MInv, Now, Then

\* The copy constructors and copy assignments make all members anew.
LEMMA CopyRecord ==
  ASSUME NEW x \in Records, NEW new
  PROVE  /\ (IF IsTwo(x) THEN HelloWorldTwoCopy(HelloWorldTwoNew, x, new)
             ELSE HelloWorldOneCopy(HelloWorldOneNew, x, new)) = Renewed(x, new)
         /\ \A t \in Records : t.class = x.class =>
              (IF IsTwo(x) THEN HelloWorldTwoAssign(t, x, new)
               ELSE HelloWorldOneAssign(t, x, new)) = Renewed(x, new)
<1>1. CASE IsTwo(x)
  <2>1. /\ DOMAIN x = {"class", "baseId", "index", "message", "children"}
        /\ Dynamic(x) = {"message", "children"} /\ x.class = "HelloWorldTwo"
    BY <1>1, Classes
  <2>2. Renewed(x, new) = [class |-> "HelloWorldTwo", baseId |-> x.baseId, index |-> x.index,
                           message |-> new.message, children |-> new.children]
    BY <2>1 DEF Renewed
  <2>3. HelloWorldTwoCopy(HelloWorldTwoNew, x, new)
          = [class |-> "HelloWorldTwo", baseId |-> x.baseId, index |-> x.index,
             message |-> new.message, children |-> new.children]
    <3> DEFINE a == HelloWorldTwoCopy(HelloWorldTwoNew, x, new)
    <3>1. a = [f \in {"class", "baseId", "index", "message", "children"} |-> a[f]]
      BY DEF HelloWorldTwoCopy, DataBaseCopy, HelloWorldTwoNew
    <3>2. /\ a.class = "HelloWorldTwo" /\ a.baseId = x.baseId /\ a.index = x.index
          /\ a.message = new.message /\ a.children = new.children
      BY DEF HelloWorldTwoCopy, DataBaseCopy, HelloWorldTwoNew
    <3> HIDE DEF a
    <3>3. a = [class |-> "HelloWorldTwo", baseId |-> x.baseId, index |-> x.index,
               message |-> new.message, children |-> new.children]
      BY <3>1, <3>2
    <3> QED
      BY <3>3 DEF a
  <2>4. ASSUME NEW t \in Records, t.class = x.class
        PROVE  HelloWorldTwoAssign(t, x, new)
                 = [class |-> "HelloWorldTwo", baseId |-> x.baseId, index |-> x.index,
                    message |-> new.message, children |-> new.children]
    <3>1. t = [class |-> "HelloWorldTwo", baseId |-> t.baseId, index |-> t.index,
               message |-> t.message, children |-> t.children]
      BY <1>1, <2>4, Classes DEF IsTwo
    <3> DEFINE a == HelloWorldTwoAssign(t, x, new)
    <3>2. a = [f \in {"class", "baseId", "index", "message", "children"} |-> a[f]]
      BY <3>1 DEF HelloWorldTwoAssign, DataBaseAssign
    <3>3. /\ a.class = "HelloWorldTwo" /\ a.baseId = x.baseId /\ a.index = x.index
          /\ a.message = new.message /\ a.children = new.children
      BY <3>1 DEF HelloWorldTwoAssign, DataBaseAssign
    <3> HIDE DEF a
    <3>4. a = [class |-> "HelloWorldTwo", baseId |-> x.baseId, index |-> x.index,
               message |-> new.message, children |-> new.children]
      BY <3>2, <3>3
    <3> QED
      BY <3>4 DEF a
  <2> QED
    BY <1>1, <2>2, <2>3, <2>4
<1>2. CASE ~IsTwo(x)
  <2>1. /\ DOMAIN x = {"class", "index", "points"}
        /\ Dynamic(x) = {"points"} /\ x.class = "HelloWorldOne"
    BY <1>2, Classes
  <2>2. Renewed(x, new) = [class |-> "HelloWorldOne", index |-> x.index, points |-> new.points]
    BY <2>1 DEF Renewed
  <2>3. HelloWorldOneCopy(HelloWorldOneNew, x, new)
          = [class |-> "HelloWorldOne", index |-> x.index, points |-> new.points]
    <3> DEFINE a == HelloWorldOneCopy(HelloWorldOneNew, x, new)
    <3>1. a = [f \in {"class", "index", "points"} |-> a[f]]
      BY DEF HelloWorldOneCopy, HelloWorldOneNew
    <3>2. a.class = "HelloWorldOne" /\ a.index = x.index /\ a.points = new.points
      BY DEF HelloWorldOneCopy, HelloWorldOneNew
    <3> HIDE DEF a
    <3>3. a = [class |-> "HelloWorldOne", index |-> x.index, points |-> new.points]
      BY <3>1, <3>2
    <3> QED
      BY <3>3 DEF a
  <2>4. ASSUME NEW t \in Records, t.class = x.class
        PROVE  HelloWorldOneAssign(t, x, new)
                 = [class |-> "HelloWorldOne", index |-> x.index, points |-> new.points]
    <3>1. t = [class |-> "HelloWorldOne", index |-> t.index, points |-> t.points]
      BY <1>2, <2>4, Classes DEF IsTwo
    <3> DEFINE a == HelloWorldOneAssign(t, x, new)
    <3>2. a = [f \in {"class", "index", "points"} |-> a[f]]
      BY <3>1 DEF HelloWorldOneAssign
    <3>3. a.class = "HelloWorldOne" /\ a.index = x.index /\ a.points = new.points
      BY <3>1 DEF HelloWorldOneAssign
    <3> HIDE DEF a
    <3>4. a = [class |-> "HelloWorldOne", index |-> x.index, points |-> new.points]
      BY <3>2, <3>3
    <3> QED
      BY <3>4 DEF a
  <2> QED
    BY <1>2, <2>2, <2>3, <2>4
<1> QED
  BY <1>1, <1>2

LEMMA CopyStep ==
  ASSUME MInv, NEW o \in Objects, NEW x \in Objects, CopyConstruct(o, x) \/ CopyAssign(o, x)
  PROVE  MInv' /\ Now[x] # None /\ Then = [Now EXCEPT ![o] = Now[x]]
<1> DEFINE z == obj[x]
           new == NewStorage(z)
<1>1. Typed(obj, heap) /\ Owned(obj, heap)
  BY DEF MInv
<1>2. z # None
  BY DEF CopyConstruct, CopyAssign, Exists
<1>3. Sound(z, heap) /\ z \in Records
  BY <1>1, <1>2 DEF Typed, Sound
<1>4. /\ new \in [Dynamic(z) -> {b \in Buffers : heap[b] = None}]
      /\ \A m, n \in Dynamic(z) : new[m] = new[n] => m = n
  BY <1>1, <1>3, NewIsFree
<1>5. new \in [Dynamic(z) -> Buffers]
  BY <1>4
<1>6. obj' = [obj EXCEPT ![o] = Renewed(z, new)] /\ Refilled(heap', z, new, HeldIn(obj, o))
  <2>1. CASE CopyConstruct(o, x)
    <3>1. /\ obj' = [obj EXCEPT ![o] =
                       IF IsTwo(z) THEN HelloWorldTwoCopy(HelloWorldTwoNew, z, new)
                       ELSE HelloWorldOneCopy(HelloWorldOneNew, z, new)]
          /\ heap' = HeapWithCopy(z, new, {}, LAMBDA c : ChildDataCopy(ChildDataNew, c))
      BY <2>1 DEF CopyConstruct
    <3>2. HeldIn(obj, o) = {}
      BY <2>1 DEF CopyConstruct, Exists, HeldIn
    <3> HIDE DEF z, new
    <3>3. Refilled(HeapWithCopy(z, new, {}, LAMBDA c : ChildDataCopy(ChildDataNew, c)), z, new, {})
      BY <1>1, <1>3, <1>4, <1>5, CopiesAreEqual
    <3> QED
      BY <1>3, <3>1, <3>2, <3>3, CopyRecord
  <2>2. CASE CopyAssign(o, x)
    <3>1. /\ obj' = [obj EXCEPT ![o] = IF IsTwo(z) THEN HelloWorldTwoAssign(obj[o], z, new)
                                       ELSE HelloWorldOneAssign(obj[o], z, new)]
          /\ heap' = HeapWithCopy(z, new, Held(obj[o]),
                                  LAMBDA c : ChildDataAssign(ChildDataNew, c))
      BY <2>2 DEF CopyAssign
    <3>2. HeldIn(obj, o) = Held(obj[o]) /\ obj[o] # None /\ obj[o].class = z.class
      BY <2>2 DEF CopyAssign, Exists, HeldIn
    <3>3. obj[o] \in Records
      BY <1>1, <3>2 DEF Typed, Sound
    <3> DEFINE d == Held(obj[o])
    <3> HIDE DEF z, new, d
    <3>4. Refilled(HeapWithCopy(z, new, d, LAMBDA c : ChildDataAssign(ChildDataNew, c)), z, new, d)
      BY <1>1, <1>3, <1>4, <1>5, CopiesAreEqual
    <3>5. Refilled(heap', z, new, HeldIn(obj, o))
      BY <3>1, <3>2, <3>4 DEF d
    <3>6. (IF IsTwo(z) THEN HelloWorldTwoAssign(obj[o], z, new)
           ELSE HelloWorldOneAssign(obj[o], z, new)) = Renewed(z, new)
      BY <1>3, <3>2, <3>3, CopyRecord
    <3> QED
      BY <3>1, <3>5, <3>6
  <2> QED
    BY <2>1, <2>2
<1>7. /\ Typed(obj', heap') /\ Owned(obj', heap')
      /\ Worths(obj', heap') = [Worths(obj, heap) EXCEPT ![o] = Worths(obj, heap)[x]]
  BY <1>1, <1>2, <1>6, CopyOne
<1>8. Worths(obj, heap)[x] # None
  BY <1>2, <1>3, WorthIsValue DEF Worths
<1> QED
  BY <1>7, <1>8 DEF MInv, Now, Then
-----------------------------------------------------------------------------
\* Moves.

\* What is left of x is sound, whatever the heap, and has no storage.
LEMMA MovedIsSound ==
  ASSUME NEW x \in Records, NEW k
  PROVE  LET w == MovedFrom(x)
         IN /\ Sound(w, k) /\ Held(w) = {}
            /\ DOMAIN Worth(w, k) = DOMAIN x
            /\ \A m \in DOMAIN x \ Dynamic(x) : Worth(w, k)[m] = x[m]
<1> DEFINE w == MovedFrom(x)
<1>1. /\ DOMAIN w = DOMAIN x
      /\ \A m \in DOMAIN x : w[m] = IF m \in Dynamic(x) THEN None ELSE x[m]
  BY DEF MovedFrom
<1>2. <<>> \in Texts /\ <<>> \in Vectors /\ None \in Addresses
  BY DEF Texts, Vectors, Addresses
<1>3. /\ w \in Records /\ Dynamic(w) = Dynamic(x) /\ (IsTwo(w) <=> IsTwo(x))
      /\ \A m \in Dynamic(x) : w[m] = None
  <2>1. CASE IsTwo(x)
    <3>1. /\ DOMAIN x = {"class", "baseId", "index", "message", "children"}
          /\ Dynamic(x) = {"message", "children"}
          /\ x.baseId \in Int /\ x.index \in Int /\ x.class = "HelloWorldTwo"
      BY <2>1, Classes
    <3>2. w = [class |-> "HelloWorldTwo", baseId |-> x.baseId, index |-> x.index,
               message |-> None, children |-> None]
      BY <3>1 DEF MovedFrom
    <3> HIDE DEF w
    <3>3. w \in Records /\ IsTwo(w)
      BY <1>2, <3>1, <3>2 DEF Records, ClassTwo, IsTwo
    <3> QED
      BY <2>1, <3>1, <3>2, <3>3, Classes
  <2>2. CASE ~IsTwo(x)
    <3>1. /\ DOMAIN x = {"class", "index", "points"} /\ Dynamic(x) = {"points"}
          /\ x.index \in Int /\ x.class = "HelloWorldOne"
      BY <2>2, Classes
    <3>2. w = [class |-> "HelloWorldOne", index |-> x.index, points |-> None]
      BY <3>1 DEF MovedFrom
    <3> HIDE DEF w
    <3>3. w \in Records /\ ~IsTwo(w)
      BY <1>2, <3>1, <3>2 DEF Records, ClassOne, IsTwo
    <3> QED
      BY <2>2, <3>1, <3>2, <3>3, Classes
  <2> QED
    BY <2>1, <2>2
<1> HIDE DEF w
<1>4. Held(w) = {}
  BY <1>3 DEF Held
<1>5. \A m \in Dynamic(w) : Stored(w, k)[m] = <<>>
  BY <1>3 DEF Stored
<1>6. IsTwo(w) => /\ Stored(w, k).message = <<>> /\ Stored(w, k).children = <<>>
                  /\ w.message = None
  <2>1. IsTwo(w) => Dynamic(w) = {"message", "children"}
    BY <1>3, Classes
  <2> QED
    BY <1>3, <1>5, <2>1
<1>7. ~IsTwo(w) => Stored(w, k).points = <<>>
  <2>1. ~IsTwo(w) => Dynamic(w) = {"points"}
    BY <1>3, Classes
  <2> QED
    BY <1>5, <2>1
<1>8. Sound(w, k)
  BY <1>2, <1>3, <1>6, <1>7 DEF Sound
<1>9. /\ DOMAIN Worth(w, k) = DOMAIN x
      /\ \A m \in DOMAIN x \ Dynamic(x) : Worth(w, k)[m] = x[m]
  BY <1>1, <1>3 DEF Worth
<1> QED
  BY <1>4, <1>8, <1>9 DEF w

\* The move constructors and move assignments take all members over.
LEMMA MoveRecord ==
  ASSUME NEW x \in Records
  PROVE  /\ (IF IsTwo(x) THEN HelloWorldTwoMove(HelloWorldTwoNew, x)
             ELSE HelloWorldOneMove(HelloWorldOneNew, x)) = x
         /\ \A t \in Records : t.class = x.class =>
              (IF IsTwo(x) THEN HelloWorldTwoMoveAssign(t, x)
               ELSE HelloWorldOneMoveAssign(t, x)) = x
<1>1. CASE IsTwo(x)
  <2>1. x = [class |-> "HelloWorldTwo", baseId |-> x.baseId, index |-> x.index,
             message |-> x.message, children |-> x.children]
    BY <1>1, Classes
  <2>2. HelloWorldTwoMove(HelloWorldTwoNew, x) = x
    <3> DEFINE a == HelloWorldTwoMove(HelloWorldTwoNew, x)
    <3>1. a = [f \in {"class", "baseId", "index", "message", "children"} |-> a[f]]
      BY DEF HelloWorldTwoMove, DataBaseMove, HelloWorldTwoNew
    <3>2. /\ a.class = "HelloWorldTwo" /\ a.baseId = x.baseId /\ a.index = x.index
          /\ a.message = x.message /\ a.children = x.children
      BY DEF HelloWorldTwoMove, DataBaseMove, HelloWorldTwoNew
    <3> HIDE DEF a
    <3>3. a = x
      BY <2>1, <3>1, <3>2
    <3> QED
      BY <3>3 DEF a
  <2>3. ASSUME NEW t \in Records, t.class = x.class
        PROVE  HelloWorldTwoMoveAssign(t, x) = x
    <3>1. t = [class |-> "HelloWorldTwo", baseId |-> t.baseId, index |-> t.index,
               message |-> t.message, children |-> t.children]
      BY <1>1, <2>3, Classes DEF IsTwo
    <3> DEFINE a == HelloWorldTwoMoveAssign(t, x)
    <3>2. a = [f \in {"class", "baseId", "index", "message", "children"} |-> a[f]]
      BY <3>1 DEF HelloWorldTwoMoveAssign, DataBaseMoveAssign
    <3>3. /\ a.class = "HelloWorldTwo" /\ a.baseId = x.baseId /\ a.index = x.index
          /\ a.message = x.message /\ a.children = x.children
      BY <3>1 DEF HelloWorldTwoMoveAssign, DataBaseMoveAssign
    <3> HIDE DEF a
    <3>4. a = x
      BY <2>1, <3>2, <3>3
    <3> QED
      BY <3>4 DEF a
  <2> QED
    BY <1>1, <2>2, <2>3
<1>2. CASE ~IsTwo(x)
  <2>1. x = [class |-> "HelloWorldOne", index |-> x.index, points |-> x.points]
    BY <1>2, Classes
  <2>2. HelloWorldOneMove(HelloWorldOneNew, x) = x
    <3> DEFINE a == HelloWorldOneMove(HelloWorldOneNew, x)
    <3>1. a = [f \in {"class", "index", "points"} |-> a[f]]
      BY DEF HelloWorldOneMove, HelloWorldOneNew
    <3>2. a.class = "HelloWorldOne" /\ a.index = x.index /\ a.points = x.points
      BY DEF HelloWorldOneMove, HelloWorldOneNew
    <3> HIDE DEF a
    <3>3. a = x
      BY <2>1, <3>1, <3>2
    <3> QED
      BY <3>3 DEF a
  <2>3. ASSUME NEW t \in Records, t.class = x.class
        PROVE  HelloWorldOneMoveAssign(t, x) = x
    <3>1. t = [class |-> "HelloWorldOne", index |-> t.index, points |-> t.points]
      BY <1>2, <2>3, Classes DEF IsTwo
    <3> DEFINE a == HelloWorldOneMoveAssign(t, x)
    <3>2. a = [f \in {"class", "index", "points"} |-> a[f]]
      BY <3>1 DEF HelloWorldOneMoveAssign
    <3>3. a.class = "HelloWorldOne" /\ a.index = x.index /\ a.points = x.points
      BY <3>1 DEF HelloWorldOneMoveAssign
    <3> HIDE DEF a
    <3>4. a = x
      BY <2>1, <3>2, <3>3
    <3> QED
      BY <3>4 DEF a
  <2> QED
    BY <1>2, <2>2, <2>3
<1> QED
  BY <1>1, <1>2

LEMMA MoveStep ==
  ASSUME MInv, NEW o \in Objects, NEW x \in Objects, MoveConstruct(o, x) \/ MoveAssign(o, x)
  PROVE  /\ MInv' /\ o # x /\ Now[x] # None
         /\ \E w : /\ Then = [Now EXCEPT ![o] = Now[x], ![x] = w] /\ w # None
                   /\ DOMAIN w = DOMAIN Now[x]
                   /\ \A m \in DOMAIN Now[x] \ Dynamic(Now[x]) : w[m] = Now[x][m]
<1> DEFINE z == obj[x]
           r == MovedFrom(z)
           w == Worth(r, heap')
<1>1. Typed(obj, heap) /\ Owned(obj, heap)
  BY DEF MInv
<1>2. o # x /\ z # None
  BY DEF MoveConstruct, MoveAssign, Exists
<1>3. Sound(z, heap) /\ z \in Records
  BY <1>1, <1>2 DEF Typed, Sound
<1>4. /\ obj' = [obj EXCEPT ![o] = z, ![x] = r]
      /\ heap' = HeapWithout(HeldIn(obj, o))
  <2>1. CASE MoveConstruct(o, x)
    <3>1. /\ obj' = [obj EXCEPT ![o] = IF IsTwo(z) THEN HelloWorldTwoMove(HelloWorldTwoNew, z)
                                       ELSE HelloWorldOneMove(HelloWorldOneNew, z),
                                ![x] = r]
          /\ heap' = heap /\ HeldIn(obj, o) = {}
      BY <2>1 DEF MoveConstruct, Exists, HeldIn
    <3>2. heap = HeapWithout({})
      BY <1>1 DEF HeapWithout, Typed
    <3> HIDE DEF z
    <3> QED
      BY <1>3, <3>1, <3>2, MoveRecord
  <2>2. CASE MoveAssign(o, x)
    <3>1. /\ obj' = [obj EXCEPT ![o] = IF IsTwo(z) THEN HelloWorldTwoMoveAssign(obj[o], z)
                                       ELSE HelloWorldOneMoveAssign(obj[o], z),
                                ![x] = r]
          /\ heap' = HeapWithout(Held(obj[o]))
      BY <2>2 DEF MoveAssign
    <3>2. HeldIn(obj, o) = Held(obj[o]) /\ obj[o] # None /\ obj[o].class = z.class
      BY <2>2 DEF MoveAssign, Exists, HeldIn
    <3>3. obj[o] \in Records
      BY <1>1, <3>2 DEF Typed, Sound
    <3> HIDE DEF z
    <3>4. (IF IsTwo(z) THEN HelloWorldTwoMoveAssign(obj[o], z)
           ELSE HelloWorldOneMoveAssign(obj[o], z)) = z
      BY <1>3, <3>2, <3>3, MoveRecord
    <3> QED
      BY <3>1, <3>2, <3>4
  <2> QED
    BY <2>1, <2>2
<1>5. /\ heap' \in [Buffers -> Cells]
      /\ \A b \in Buffers : heap'[b] = IF b \in HeldIn(obj, o) THEN None ELSE heap[b]
  BY <1>1, <1>4 DEF HeapWithout, Typed, Cells
<1>6. HeldIn(obj, x) = Held(z)
  BY <1>2 DEF HeldIn
<1>7. \A b \in Held(z) : heap'[b] = heap[b]
  <2>1. HeldIn(obj, x) \cap HeldIn(obj, o) = {}
    BY <1>1, <1>2 DEF Owned
  <2>2. \A b \in HeldIn(obj, x) : b \in Buffers
    BY <1>1, HeldIsAllocated
  <2> QED
    BY <1>5, <1>6, <2>1, <2>2
<1>8. Worths(obj, heap)[x] = Worth(z, heap)
  BY <1>2 DEF Worths
<1>9. obj'[o] = z /\ obj'[x] = r
  BY <1>1, <1>2, <1>4 DEF Typed
<1> HIDE DEF z, r
<1>10. Sound(z, heap') /\ Worth(z, heap') = Worth(z, heap)
  BY <1>3, <1>7, SameStorage
<1>11. /\ Sound(r, heap') /\ Held(r) = {} /\ DOMAIN w = DOMAIN z
       /\ \A m \in DOMAIN z \ Dynamic(z) : w[m] = z[m]
  BY <1>3, MovedIsSound DEF r
<1>12. /\ w # None /\ r # None
       /\ Worth(z, heap) # None /\ DOMAIN Worth(z, heap) = DOMAIN z
       /\ Worth(z, heap).class = z.class
  BY <1>3, <1>11, WorthIsValue
<1>13. HeldIn(obj', o) = HeldIn(obj, x) /\ HeldIn(obj', x) = {}
  BY <1>2, <1>6, <1>9, <1>11, <1>12 DEF HeldIn
<1>14. TwoNew(obj, heap, o, x, z, r, obj', heap')
  BY <1>2, <1>4, <1>5, <1>10, <1>11, <1>12, <1>13 DEF TwoNew
<1>15. /\ Typed(obj', heap') /\ Owned(obj', heap')
       /\ Worths(obj', heap') = [Worths(obj, heap) EXCEPT ![o] = Worth(z, heap'), ![x] = w]
  BY <1>1, <1>2, <1>14, TwoChange
<1>16. Dynamic(Worth(z, heap)) = Dynamic(z)
  BY <1>12 DEF Dynamic
<1>17. \A m \in DOMAIN z \ Dynamic(z) : Worth(z, heap)[m] = z[m]
  BY DEF Worth
<1> HIDE DEF w
<1>18. /\ Worths(obj', heap') = [Worths(obj, heap) EXCEPT ![o] = Worths(obj, heap)[x], ![x] = w]
       /\ w # None /\ DOMAIN w = DOMAIN Worths(obj, heap)[x]
       /\ \A m \in DOMAIN Worths(obj, heap)[x] \ Dynamic(Worths(obj, heap)[x]) :
            w[m] = Worths(obj, heap)[x][m]
       /\ Worths(obj, heap)[x] # None
  BY <1>8, <1>10, <1>11, <1>12, <1>15, <1>16, <1>17
<1> QED
  BY <1>2, <1>15, <1>18 DEF MInv, Now, Then

LEMMA DestroyStep ==
  ASSUME MInv, NEW o \in Objects, Destroy(o)
  PROVE  MInv' /\ Then = [Now EXCEPT ![o] = None]
<1> DEFINE D == HeldIn(obj, o)
<1>1. Typed(obj, heap) /\ Owned(obj, heap)
  BY DEF MInv
<1>2. obj' = [obj EXCEPT ![o] = None] /\ heap' = HeapWithout(D)
  BY DEF Destroy, Exists, HeldIn
<1>3. /\ heap' \in [Buffers -> Cells]
      /\ \A b \in Buffers : heap'[b] = IF b \in D THEN None ELSE heap[b]
  BY <1>1, <1>2 DEF HeapWithout, Typed, Cells
<1>4. HeldIn(obj', o) = {}
  BY <1>1, <1>2 DEF HeldIn, Typed
<1>5. OneNew(obj, heap, o, None, obj', heap', D, {})
  BY <1>2, <1>3, <1>4 DEF OneNew
<1>6. /\ Typed(obj', heap') /\ Owned(obj', heap')
      /\ Worths(obj', heap') = [Worths(obj, heap) EXCEPT ![o] = None]
  BY <1>1, <1>5, OneChanges
<1> QED
  BY <1>6 DEF MInv, Now, Then
-----------------------------------------------------------------------------
\* Accessors.

Members == {"baseId", "index", "message", "children", "points"}

\* The value V[o] becomes u, which differs in m.
DiffersIn(V, W, o, m, u) ==
  /\ V[o] # None /\ u # None
  /\ W = [V EXCEPT ![o] = u]
  /\ DOMAIN u = DOMAIN V[o]
  /\ \A f \in DOMAIN V[o] \ {m} : u[f] = V[o][f]

\* The step changes a member of o and nothing else.
Changed(o) ==
  /\ MInv'
  /\ \E m \in Members : \E u : DiffersIn(Now, Then, o, m, u)

LEMMA MemberChanges ==
  ASSUME MInv, NEW o \in Objects, obj[o] # None, NEW m \in Members,
         NEW y, Sound(y, heap'), DOMAIN y = DOMAIN obj[o],
         \A f \in DOMAIN y \ {m} : y[f] = obj[o][f],
         \A f \in Dynamic(y) \ {m} : Stored(y, heap')[f] = Stored(obj[o], heap)[f],
         NEW D, NEW F, OneNew(obj, heap, o, y, obj', heap', D, F)
  PROVE  Changed(o)
<1> DEFINE x == obj[o]
           u == Worth(y, heap')
           v == Worth(x, heap)
<1>1. Typed(obj, heap) /\ Owned(obj, heap)
  BY DEF MInv
<1>2. Sound(x, heap)
  BY <1>1 DEF Typed
<1>3. x # None /\ DOMAIN y = DOMAIN x /\ \A f \in DOMAIN x \ {m} : y[f] = x[f]
  OBVIOUS
<1>4. \A f \in Dynamic(y) \ {m} : Stored(y, heap')[f] = Stored(x, heap)[f]
  OBVIOUS
<1>5. Worths(obj, heap)[o] = v
  BY DEF Worths
<1> HIDE DEF x
<1>6. /\ u # None /\ DOMAIN u = DOMAIN x
      /\ v # None /\ DOMAIN v = DOMAIN x
  BY <1>2, <1>3, WorthIsValue
<1>7. y.class = x.class
  <2>1. x \in Records
    BY <1>2 DEF Sound
  <2>2. "class" \in DOMAIN x
    BY <2>1 DEF Records, ClassTwo, ClassOne
  <2>3. m # "class"
    BY DEF Members
  <2> QED
    BY <1>3, <2>2, <2>3
<1>8. Dynamic(y) = Dynamic(x)
  BY <1>7 DEF Dynamic
<1>9. \A f \in DOMAIN x \ {m} : u[f] = v[f]
  BY <1>3, <1>4, <1>8 DEF Worth
<1>10. y # None
  BY WorthIsValue
<1>11. /\ Typed(obj', heap') /\ Owned(obj', heap')
       /\ Worths(obj', heap') = [Worths(obj, heap) EXCEPT ![o] = IF y = None THEN None ELSE Worth(y, heap')]
  BY <1>1, OneChanges
<1> HIDE DEF u, v
<1>12. Worths(obj', heap') = [Worths(obj, heap) EXCEPT ![o] = u]
  BY <1>10, <1>11 DEF u
<1>13. MInv'
  BY <1>11 DEF MInv
<1>14. /\ Worths(obj, heap)[o] # None /\ u # None
       /\ DOMAIN u = DOMAIN Worths(obj, heap)[o]
       /\ \A f \in DOMAIN Worths(obj, heap)[o] \ {m} : u[f] = Worths(obj, heap)[o][f]
  BY <1>5, <1>6, <1>9
<1>15. DiffersIn(Now, Then, o, m, u)
  BY <1>12, <1>14 DEF DiffersIn, Now, Then
<1> QED
  BY <1>13, <1>15 DEF Changed

\* baseId and index.
LEMMA NumberStep ==
  ASSUME MInv, NEW o \in Objects, NEW v \in Ids, baseId(o, v) \/ index(o, v)
  PROVE  Changed(o)
<1> DEFINE x == obj[o]
<1>1. Typed(obj, heap) /\ Owned(obj, heap)
  BY DEF MInv
<1>2. x # None /\ heap' = heap
  BY DEF baseId, index, Exists
<1>3. Sound(x, heap) /\ x \in Records
  BY <1>1, <1>2 DEF Typed, Sound
<1>4. v \in Int
  BY ArgumentsAssumption
<1>5. PICK m \in {"baseId", "index"} : /\ m = "baseId" => IsTwo(x)
                                       /\ obj' = [obj EXCEPT ![o] = [x EXCEPT ![m] = v]]
  <2>1. CASE baseId(o, v)
    BY <2>1 DEF baseId
  <2>2. CASE index(o, v)
    BY <2>2 DEF index
  <2> QED
    BY <2>1, <2>2
<1> DEFINE y == [x EXCEPT ![m] = v]
<1>6. obj' = [obj EXCEPT ![o] = y] /\ obj'[o] = y
  BY <1>1, <1>5 DEF Typed
<1>7. HeldIn(obj, o) = Held(x)
  BY <1>2 DEF HeldIn
<1> HIDE DEF x
<1>8. /\ y \in Records /\ DOMAIN y = DOMAIN x /\ (IsTwo(y) <=> IsTwo(x))
      /\ \A f \in DOMAIN y \ {m} : y[f] = x[f]
  <2>1. CASE IsTwo(x)
    <3>1. x \in ClassTwo(Addresses, Addresses)
      BY <1>3, <2>1 DEF Records, ClassOne, IsTwo
    <3> QED
      BY <1>4, <2>1, <3>1 DEF Records, ClassTwo, IsTwo
  <2>2. CASE ~IsTwo(x)
    <3>1. x \in ClassOne(Addresses)
      BY <1>3, <2>2 DEF Records, ClassTwo, IsTwo
    <3>2. m = "index"
      BY <1>5, <2>2
    <3> QED
      BY <1>4, <2>2, <3>1, <3>2 DEF Records, ClassOne, IsTwo
  <2> QED
    BY <2>1, <2>2
<1> HIDE DEF y
<1>9. Dynamic(y) = Dynamic(x) /\ Dynamic(x) \subseteq DOMAIN x /\ m \notin Dynamic(x)
  BY <1>3, <1>8, Classes DEF Dynamic, IsTwo
<1>10. \A f \in Dynamic(x) : y[f] = x[f]
  BY <1>8, <1>9
<1>11. Stored(y, heap') = Stored(x, heap) /\ Held(y) = Held(x)
  BY <1>2, <1>9, <1>10 DEF Stored, Held
<1>12. IsTwo(x) => y.message = x.message /\ y.children = x.children
  BY <1>3, <1>10, Classes
<1>13. Sound(y, heap')
  BY <1>3, <1>8, <1>11, <1>12 DEF Sound
<1>14. y # None
  BY <1>13, WorthIsValue
<1>15. HeldIn(obj', o) = HeldIn(obj, o)
  BY <1>6, <1>7, <1>11, <1>14 DEF HeldIn
<1>16. \A b \in HeldIn(obj, o) : heap'[b] # None
  BY <1>1, <1>2, HeldIsAllocated
<1>17. heap' \in [Buffers -> Cells]
  BY <1>1, <1>2 DEF Typed, Cells
<1>18. OneNew(obj, heap, o, y, obj', heap', {}, {})
  BY <1>2, <1>6, <1>13, <1>15, <1>16, <1>17 DEF OneNew
<1>19. m \in Members
  BY DEF Members
<1>20. \A f \in Dynamic(y) \ {m} : Stored(y, heap')[f] = Stored(x, heap)[f]
  BY <1>11
<1> QED
  BY <1>2, <1>8, <1>13, <1>18, <1>19, <1>20, MemberChanges DEF x

\* Text or sequence m gets new storage, with the contents c.
LEMMA SetMemberStep ==
  ASSUME MInv, NEW o \in Objects, obj[o] # None, NEW m \in Dynamic(obj[o]),
         NEW c, m = "children" => c \in Vectors, m # "children" => c \in Texts,
         SetMember(o, m, c)
  PROVE  Changed(o)
<1> DEFINE x == obj[o]
           b == CHOOSE b \in Buffers : heap[b] = None
           D == {x[m]} \ {None}
           y == [x EXCEPT ![m] = b]
<1>1. Typed(obj, heap) /\ Owned(obj, heap)
  BY DEF MInv
<1>2. b \in Buffers /\ heap[b] = None
  BY <1>1, TwoFree
<1>3. Sound(x, heap) /\ x \in Records
  BY <1>1 DEF Typed, Sound
<1>4. /\ obj' = [obj EXCEPT ![o] = y]
      /\ heap' = [HeapWithout({x[m]}) EXCEPT ![b] = c]
  BY DEF SetMember
<1> HIDE DEF b
<1>5. obj'[o] = y
  BY <1>1, <1>4 DEF Typed
<1>6. HeldIn(obj, o) = Held(x)
  BY DEF HeldIn
<1>7. \A a \in Held(x) : a \in Buffers /\ heap[a] # None
  BY <1>1, <1>6, HeldIsAllocated
<1>8. c \in Cells /\ c # None
  BY NoneAssumption DEF Cells
<1>9. /\ heap' \in [Buffers -> Cells] /\ heap'[b] = c
      /\ \A a \in Buffers \ {b} : heap'[a] = IF a \in {x[m]} THEN None ELSE heap[a]
  BY <1>1, <1>2, <1>4, <1>8 DEF HeapWithout, Typed, Cells
<1> HIDE DEF x
<1>10. x # None /\ m \in Dynamic(x)
  BY DEF x
<1>11. b \in Addresses /\ b # None
  BY <1>2, NoneAssumption DEF Addresses
<1>12. /\ y \in Records /\ DOMAIN y = DOMAIN x /\ (IsTwo(y) <=> IsTwo(x)) /\ y[m] = b
       /\ \A f \in DOMAIN y \ {m} : y[f] = x[f]
       /\ Dynamic(x) \subseteq DOMAIN x
  <2>1. CASE IsTwo(x)
    <3>1. /\ x \in ClassTwo(Addresses, Addresses) /\ Dynamic(x) = {"message", "children"}
      BY <1>3, <2>1, Classes DEF Records, ClassOne, IsTwo
    <3>2. m = "message" \/ m = "children"
      BY <1>10, <3>1
    <3> QED
      BY <1>11, <2>1, <3>1, <3>2 DEF Records, ClassTwo, IsTwo
  <2>2. CASE ~IsTwo(x)
    <3>1. x \in ClassOne(Addresses) /\ Dynamic(x) = {"points"}
      BY <1>3, <2>2, Classes DEF Records, ClassTwo, IsTwo
    <3>2. m = "points"
      BY <1>10, <3>1
    <3> QED
      BY <1>11, <2>2, <3>1, <3>2 DEF Records, ClassOne, IsTwo
  <2> QED
    BY <2>1, <2>2
<1> HIDE DEF y
<1>13. Dynamic(y) = Dynamic(x)
  BY <1>12 DEF Dynamic, IsTwo
<1>14. \A f \in Dynamic(x) \ {m} : y[f] = x[f]
  BY <1>12
<1>15. \A f \in Dynamic(x) \ {m} : x[f] # None => x[f] # x[m]
  <2>1. CASE IsTwo(x)
    <3>1. Dynamic(x) = {"message", "children"}
      BY <1>3, <2>1, Classes
    <3>2. x.message # None => x.message # x.children
      BY <1>3, <2>1 DEF Sound
    <3> QED
      BY <1>10, <3>1, <3>2
  <2>2. CASE ~IsTwo(x)
    <3>1. Dynamic(x) = {"points"}
      BY <1>3, <2>2, Classes
    <3> QED
      BY <1>10, <3>1
  <2> QED
    BY <2>1, <2>2
<1>16. \A f \in Dynamic(x) : x[f] # None => x[f] \in Held(x)
  BY DEF Held
<1>17. Held(y) = (Held(x) \ D) \cup {b}
  <2>1. Held(y) = {y[f] : f \in Dynamic(x)} \ {None}
    BY <1>13 DEF Held
  <2>2. b \in Held(y)
    BY <1>10, <1>11, <1>12, <2>1
  <2>3. \A a : a \in Held(y) /\ a # b => a \in Held(x) \ D
    <3> SUFFICES ASSUME NEW a, a \in Held(y), a # b
                 PROVE  a \in Held(x) /\ a # x[m]
      OBVIOUS
    <3>1. PICK f \in Dynamic(x) : a = y[f] /\ a # None
      BY <2>1
    <3>2. f # m /\ a = x[f]
      BY <1>12, <1>14, <3>1
    <3> QED
      BY <1>15, <1>16, <3>1, <3>2
  <2>4. \A a : a \in Held(x) \ D => a \in Held(y)
    <3> SUFFICES ASSUME NEW a, a \in Held(x), a \notin D
                 PROVE  a \in Held(y)
      OBVIOUS
    <3>1. PICK f \in Dynamic(x) : a = x[f] /\ a # None
      BY DEF Held
    <3>2. f # m
      BY <3>1
    <3> QED
      BY <1>14, <2>1, <3>1, <3>2
  <2> QED
    BY <2>2, <2>3, <2>4
<1>18. \A f \in Dynamic(x) \ {m} : Stored(y, heap')[f] = Stored(x, heap)[f]
  <2> SUFFICES ASSUME NEW f \in Dynamic(x) \ {m}
               PROVE  Stored(y, heap')[f] = Stored(x, heap)[f]
    OBVIOUS
  <2>1. y[f] = x[f]
    BY <1>14
  <2>2. x[f] # None => heap'[x[f]] = heap[x[f]]
    <3> SUFFICES ASSUME x[f] # None
                 PROVE  heap'[x[f]] = heap[x[f]]
      OBVIOUS
    <3>1. x[f] \in Buffers /\ heap[x[f]] # None
      BY <1>7, <1>16
    <3>2. x[f] # b /\ x[f] # x[m]
      BY <1>2, <1>15, <3>1
    <3> QED
      BY <1>9, <3>1, <3>2
  <2> QED
    BY <1>13, <2>1, <2>2 DEF Stored
<1>19. Stored(y, heap')[m] = c
  BY <1>9, <1>10, <1>11, <1>12, <1>13 DEF Stored
<1>20. Sound(y, heap')
  <2>1. CASE IsTwo(x)
    <3>1. Dynamic(x) = {"message", "children"}
      BY <1>3, <2>1, Classes
    <3>2. Stored(x, heap).message \in Texts /\ Stored(x, heap).children \in Vectors
      BY <1>3, <2>1 DEF Sound
    <3>3. CASE m = "message"
      <4>1. y.message = b /\ y.children = x.children
        BY <1>12, <1>14, <3>1, <3>3
      <4>2. x.children # b
        BY <1>2, <1>7, <1>11, <1>16, <3>1
      <4>3. Stored(y, heap').message \in Texts /\ Stored(y, heap').children \in Vectors
        BY <1>18, <1>19, <3>1, <3>2, <3>3
      <4> QED
        BY <1>12, <2>1, <4>1, <4>2, <4>3 DEF Sound
    <3>4. CASE m = "children"
      <4>1. y.children = b /\ y.message = x.message
        BY <1>12, <1>14, <3>1, <3>4
      <4>2. x.message # b
        BY <1>2, <1>7, <1>11, <1>16, <3>1
      <4>3. Stored(y, heap').message \in Texts /\ Stored(y, heap').children \in Vectors
        BY <1>18, <1>19, <3>1, <3>2, <3>4
      <4> QED
        BY <1>12, <2>1, <4>1, <4>2, <4>3 DEF Sound
    <3> QED
      BY <1>10, <3>1, <3>3, <3>4
  <2>2. CASE ~IsTwo(x)
    <3>1. m = "points"
      BY <1>3, <1>10, <2>2, Classes
    <3> QED
      BY <1>12, <1>19, <2>2, <3>1 DEF Sound
  <2> QED
    BY <2>1, <2>2
<1>21. y # None
  BY <1>20, WorthIsValue
<1>22. HeldIn(obj', o) = (HeldIn(obj, o) \ D) \cup {b}
  BY <1>5, <1>6, <1>17, <1>21 DEF HeldIn
<1>23. D \subseteq HeldIn(obj, o)
  BY <1>6, <1>10, <1>16
<1>24. ASSUME NEW a \in Buffers
       PROVE  /\ a \in HeldIn(obj', o) => heap'[a] # None
              /\ a \in D => heap'[a] = None
              /\ a \notin HeldIn(obj, o) \cup {b} => heap'[a] = heap[a]
  <2>1. CASE a = b
    <3>1. a \notin D
      BY <1>2, <1>6, <1>7, <1>23, <2>1
    <3> QED
      BY <1>8, <1>9, <2>1, <3>1
  <2>2. CASE a # b
    <3>1. heap'[a] = IF a = x[m] THEN None ELSE heap[a]
      BY <1>9, <2>2
    <3>2. a # None
      BY NoneAssumption
    <3>3. a \in D <=> a = x[m]
      BY <3>2
    <3> QED
      BY <1>6, <1>7, <1>22, <1>23, <2>2, <3>1, <3>3
  <2> QED
    BY <2>1, <2>2
<1> HIDE DEF D
<1>25. OneNew(obj, heap, o, y, obj', heap', D, {b})
  BY <1>2, <1>4, <1>9, <1>20, <1>22, <1>23, <1>24 DEF OneNew
<1>26. m \in Members
  BY <1>3, <1>10, Classes DEF Members
<1>27. \A f \in Dynamic(y) \ {m} : Stored(y, heap')[f] = Stored(x, heap)[f]
  BY <1>13, <1>18
<1> QED
  BY <1>10, <1>12, <1>20, <1>25, <1>26, <1>27, MemberChanges DEF x

\* message, points and children().push_back.
LEMMA TextStep ==
  ASSUME MInv, NEW o \in Objects, NEW length \in 0..MaxLength, message(o, length) \/ points(o, length)
  PROVE  Changed(o)
<1> DEFINE x == obj[o]
           c == [i \in 1..length |-> 0]
<1>1. x # None
  BY DEF message, points, Exists
<1>2. x \in Records
  BY <1>1 DEF MInv, Typed, Sound
<1>3. c \in Texts
  <2>1. length \in Nat
    BY ArgumentsAssumption
  <2> QED
    BY <2>1 DEF Texts
<1> HIDE DEF c
<1>4. CASE message(o, length)
  <2>1. IsTwo(x) /\ SetMember(o, "message", c)
    BY <1>4 DEF message, c
  <2>2. "message" \in Dynamic(x)
    BY <1>2, <2>1, Classes
  <2> QED
    BY <1>1, <1>3, <2>1, <2>2, SetMemberStep
<1>5. CASE points(o, length)
  <2>1. ~IsTwo(x) /\ SetMember(o, "points", c)
    BY <1>5 DEF points, c
  <2>2. "points" \in Dynamic(x)
    BY <1>2, <2>1, Classes
  <2> QED
    BY <1>1, <1>3, <2>1, <2>2, SetMemberStep
<1> QED
  BY <1>4, <1>5

LEMMA ChildrenStep ==
  ASSUME MInv, NEW o \in Objects, NEW e \in Elements, children(o, e)
  PROVE  Changed(o)
<1> DEFINE x == obj[o]
           c == Contents(x.children)
           grown == Append([i \in DOMAIN c |-> ChildDataMove(ChildDataNew, c[i])],
                           ChildDataCopy(ChildDataNew, e))
<1>1. x # None /\ IsTwo(x) /\ SetMember(o, "children", grown)
  BY DEF children, Exists
<1>2. Sound(x, heap) /\ x \in Records
  BY <1>1 DEF MInv, Typed, Sound
<1>3. "children" \in Dynamic(x)
  BY <1>1, <1>2, Classes
<1>4. c \in Vectors
  <2>1. c = Stored(x, heap).children
    BY <1>3 DEF Contents, Stored
  <2> QED
    BY <1>1, <1>2, <2>1 DEF Sound
<1>5. ChildDataCopy(ChildDataNew, e) \in [baseId : Int, childId : Int]
  <2>1. e \in [baseId : Int, childId : Int]
    BY ArgumentsAssumption
  <2> QED
    BY <2>1 DEF ChildDataCopy, DataBaseCopy, ChildDataNew
<1> HIDE DEF c
<1>6. [i \in DOMAIN c |-> ChildDataMove(ChildDataNew, c[i])] \in Vectors
  BY <1>4, SameElements
<1>7. grown \in Vectors
  BY <1>5, <1>6, AppendProperties DEF Vectors
<1> HIDE DEF grown
<1> QED
  BY <1>1, <1>3, <1>7, SetMemberStep

\* An element is erased in place.
LEMMA EraseStep ==
  ASSUME MInv, NEW o \in Objects, EraseChild(o)
  PROVE  Changed(o)
<1> DEFINE x == obj[o]
           b == x.children
           c == Contents(b)
           rest == [i \in 1..(Len(c) - 1) |-> ChildDataMoveAssign(c[i], c[i + 1])]
<1>1. Typed(obj, heap) /\ Owned(obj, heap)
  BY DEF MInv
<1>2. x # None /\ IsTwo(x) /\ c # <<>> /\ heap' = [heap EXCEPT ![b] = rest] /\ obj' = obj
  BY DEF EraseChild, Exists
<1>3. Sound(x, heap) /\ x \in Records
  BY <1>1, <1>2 DEF Typed, Sound
<1>4. Dynamic(x) = {"message", "children"} /\ DOMAIN x = {"class", "baseId", "index", "message", "children"}
  BY <1>2, <1>3, Classes
<1>5. b # None /\ c = heap[b] /\ c = Stored(x, heap).children
  BY <1>2, <1>4 DEF Contents, Stored
<1>6. c \in Vectors
  BY <1>2, <1>3, <1>5 DEF Sound
<1>7. HeldIn(obj, o) = Held(x)
  BY <1>2 DEF HeldIn
<1>8. b \in Held(x) /\ Held(x) \subseteq Buffers
  BY <1>3, <1>4, <1>5, HeldIsStorage
<1> HIDE DEF c
<1>9. rest \in Vectors
  <2>1. Len(c) \in Nat /\ c \in [1..Len(c) -> [baseId : Int, childId : Int]]
    BY <1>6, LenProperties DEF Vectors
  <2>2. Len(c) # 0
    BY <1>2, <1>6, EmptySeq DEF Vectors
  <2>3. ASSUME NEW i \in 1..(Len(c) - 1)
        PROVE  ChildDataMoveAssign(c[i], c[i + 1]) \in [baseId : Int, childId : Int]
    <3>1. c[i] \in [baseId : Int, childId : Int] /\ c[i + 1] \in [baseId : Int, childId : Int]
      BY <2>1
    <3> QED
      BY <3>1 DEF ChildDataMoveAssign, DataBaseMoveAssign
  <2>4. Len(c) - 1 \in Nat
    BY <2>1, <2>2
  <2> QED
    BY <2>3, <2>4 DEF Vectors
<1> HIDE DEF rest, b
<1>10. rest \in Cells /\ rest # None
  BY <1>9, NoneAssumption DEF Cells
<1>11. /\ heap' \in [Buffers -> Cells] /\ heap'[b] = rest
       /\ \A a \in Buffers \ {b} : heap'[a] = heap[a]
  BY <1>1, <1>2, <1>8, <1>10 DEF Typed, Cells
<1>12. x.message # None => x.message # b /\ heap'[x.message] = heap[x.message]
  <2>1. x.message # None => x.message # b
    BY <1>2, <1>3 DEF Sound, b
  <2>2. x.message # None => x.message \in Buffers
    BY <1>3, <1>4, HeldIsStorage
  <2> QED
    BY <1>11, <2>1, <2>2
<1>13. Stored(x, heap').message = Stored(x, heap).message /\ Stored(x, heap').children = rest
  <2>1. Stored(x, heap').message = Stored(x, heap).message
    BY <1>4, <1>12 DEF Stored
  <2>2. Stored(x, heap').children = rest
    BY <1>4, <1>5, <1>11 DEF Stored, b
  <2> QED
    BY <2>1, <2>2
<1>14. Sound(x, heap')
  BY <1>2, <1>3, <1>9, <1>13 DEF Sound
<1>15. HeldIn(obj', o) = HeldIn(obj, o)
  BY <1>2 DEF HeldIn
<1>16. \A a \in Buffers : /\ a \in HeldIn(obj', o) => heap'[a] # None
                          /\ a \notin HeldIn(obj, o) => heap'[a] = heap[a]
  <2> SUFFICES ASSUME NEW a \in Buffers
               PROVE  /\ a \in HeldIn(obj', o) => heap'[a] # None
                      /\ a \notin HeldIn(obj, o) => heap'[a] = heap[a]
    OBVIOUS
  <2>1. CASE a = b
    BY <1>7, <1>8, <1>10, <1>11, <2>1
  <2>2. CASE a # b
    <3>1. heap'[a] = heap[a]
      BY <1>11, <2>2
    <3>2. a \in HeldIn(obj, o) => heap[a] # None
      BY <1>1, HeldIsAllocated
    <3> QED
      BY <1>15, <3>1, <3>2
  <2> QED
    BY <2>1, <2>2
<1>17. obj' = [obj EXCEPT ![o] = x]
  BY <1>1, <1>2 DEF Typed
<1> HIDE DEF x
<1>18. OneNew(obj, heap, o, x, obj', heap', {}, {})
  BY <1>11, <1>14, <1>15, <1>16, <1>17 DEF OneNew
<1>19. "children" \in Members
  BY DEF Members
<1>20. \A f \in Dynamic(x) \ {"children"} : Stored(x, heap')[f] = Stored(x, heap)[f]
  BY <1>4, <1>13
<1>21. \A f \in DOMAIN x \ {"children"} : x[f] = obj[o][f]
  BY DEF x
<1> QED
  BY <1>2, <1>14, <1>18, <1>19, <1>20, <1>21, MemberChanges DEF x
-----------------------------------------------------------------------------
\* The values of the objects, as ImplementsValues sees them.
LEMMA ValuesAre == ObjectValues = Now /\ ObjectValues' = Then
<1>1. ASSUME NEW x, NEW h
      PROVE  Worth(x, h) = [m \in DOMAIN x |->
                              IF m \in Dynamic(x) THEN IF x[m] = None THEN <<>> ELSE h[x[m]]
                              ELSE x[m]]
  BY DEF Worth, Stored
<1>2. ASSUME NEW o \in Objects
      PROVE  /\ Exists(o) => ValueOf(obj[o]) = Worth(obj[o], heap)
             /\ Exists(o)' => ValueOf(obj[o])' = Worth(obj'[o], heap')
  BY <1>1 DEF ValueOf, Contents
<1> QED
  BY <1>2 DEF ObjectValues, Exists, Now, Then, Worths

\* Each step keeps the invariant, and is a step of values or none.
LEMMA StepImplements ==
  ASSUME MInv, [Next]_vars
  PROVE  MInv' /\ [Values!Next]_ObjectValues
<1>1. CASE \E o \in Objects : Construct(o)
  <2>1. PICK o \in Objects : Construct(o)
    BY <1>1
  <2>2. MInv' /\ Now[o] = None /\ \E v \in Defaults : Then = [Now EXCEPT ![o] = v]
    BY <2>1, ConstructStep
  <2>3. Values!Create(o)
    BY <2>2, ValuesAre DEF Values!Create
  <2> QED
    BY <2>2, <2>3 DEF Values!Next
<1>2. CASE \E o, x \in Objects : CopyConstruct(o, x) \/ CopyAssign(o, x)
  <2>1. PICK o \in Objects, x \in Objects : CopyConstruct(o, x) \/ CopyAssign(o, x)
    BY <1>2
  <2>2. MInv' /\ Now[x] # None /\ Then = [Now EXCEPT ![o] = Now[x]]
    BY <2>1, CopyStep
  <2>3. Values!Copy(o, x)
    BY <2>2, ValuesAre DEF Values!Copy
  <2> QED
    BY <2>2, <2>3 DEF Values!Next
<1>3. CASE \E o, x \in Objects : MoveConstruct(o, x) \/ MoveAssign(o, x)
  <2>1. PICK o \in Objects, x \in Objects : MoveConstruct(o, x) \/ MoveAssign(o, x)
    BY <1>3
  <2>2. MInv' /\ o # x /\ Now[x] # None
    BY <2>1, MoveStep
  <2>3. PICK w : /\ Then = [Now EXCEPT ![o] = Now[x], ![x] = w] /\ w # None
                 /\ DOMAIN w = DOMAIN Now[x]
                 /\ \A m \in DOMAIN Now[x] \ Dynamic(Now[x]) : w[m] = Now[x][m]
    BY <2>1, MoveStep
  <2>4. DOMAIN Now = Objects
    BY DEF Now, Worths
  <2>5. Then[o] = Now[x] /\ Then[x] = w /\ \A z \in Objects \ {o, x} : Then[z] = Now[z]
    BY <2>2, <2>3, <2>4
  <2>6. Values!Move(o, x)
    BY <2>2, <2>3, <2>5, ValuesAre DEF Values!Move
  <2> QED
    BY <2>2, <2>6 DEF Values!Next
<1>4. CASE \E o \in Objects : Destroy(o)
  <2>1. PICK o \in Objects : Destroy(o)
    BY <1>4
  <2>2. MInv' /\ Then = [Now EXCEPT ![o] = None]
    BY <2>1, DestroyStep
  <2>3. Values!Drop(o)
    BY <2>2, ValuesAre DEF Values!Drop
  <2> QED
    BY <2>2, <2>3 DEF Values!Next
<1>5. CASE \E o \in Objects : \/ \E v \in Ids : baseId(o, v) \/ index(o, v)
                              \/ \E length \in 0..MaxLength : message(o, length) \/ points(o, length)
                              \/ \E e \in Elements : children(o, e)
                              \/ EraseChild(o)
  <2>1. PICK o \in Objects : Changed(o)
    BY <1>5, NumberStep, TextStep, ChildrenStep, EraseStep
  <2>2. PICK m \in Members : \E u : DiffersIn(Now, Then, o, m, u)
    BY <2>1 DEF Changed
  <2>3. PICK u : DiffersIn(Now, Then, o, m, u)
    BY <2>2
  <2>4. DOMAIN Now = Objects
    BY DEF Now, Worths
  <2>5. /\ Now[o] # None /\ Then[o] # None /\ DOMAIN Then[o] = DOMAIN Now[o]
        /\ \A f \in DOMAIN Now[o] \ {m} : Then[o][f] = Now[o][f]
        /\ \A z \in Objects \ {o} : Then[z] = Now[z]
    BY <2>3, <2>4 DEF DiffersIn
  <2>6. Values!Change(o, m)
    BY <2>5, ValuesAre DEF Values!Change
  <2>7. MInv'
    BY <2>1 DEF Changed
  <2> QED
    BY <2>6, <2>7 DEF Values!Next, Members
<1>6. CASE UNCHANGED vars
  <2>1. obj' = obj /\ heap' = heap
    BY <1>6 DEF vars
  <2>2. Then = Now
    BY <2>1 DEF Now, Then
  <2>3. ObjectValues' = ObjectValues
    BY <2>2, ValuesAre
  <2> QED
    BY <2>1, <2>3 DEF MInv
<1> QED
  BY <1>1, <1>2, <1>3, <1>4, <1>5, <1>6 DEF Next

LEMMA Invariance == Spec => []MInv
<1>1. MInv /\ [Next]_vars => MInv'
  BY StepImplements
<1> QED
  BY <1>1, InitMInv, PTL DEF Spec

(***************************************************************************)
(* Whatever the contents of the texts and sequences, operator == says      *)
(* whether two objects have the same value.                                *)
(***************************************************************************)
THEOREM EqualityCorrect == Spec => []EqualIsSameValue
<1>1. MInv => EqualIsSameValue
  <2> SUFFICES ASSUME MInv, NEW o \in Objects, NEW x \in Objects, Exists(o), Exists(x),
                      obj[o].class = obj[x].class
               PROVE  (IF IsTwo(obj[o]) THEN HelloWorldTwoEqual(obj[o], obj[x])
                                        ELSE HelloWorldOneEqual(obj[o], obj[x]))
                        <=> ValueOf(obj[o]) = ValueOf(obj[x])
    BY DEF EqualIsSameValue
  <2> DEFINE p == obj[o]
             q == obj[x]
  <2>1. Sound(p, heap) /\ Sound(q, heap) /\ p \in Records /\ q \in Records
    BY DEF MInv, Typed, Exists, Sound
  <2>2. p.class = q.class
    OBVIOUS
  <2> HIDE DEF p, q
  <2>3. CASE IsTwo(p)
    <3>1. IsTwo(q)
      BY <2>2, <2>3 DEF IsTwo
    <3> DEFINE a == Contents(p.message)
               b == Contents(q.message)
               c == Contents(p.children)
               d == Contents(q.children)
    <3>2. /\ DOMAIN p = {"class", "baseId", "index", "message", "children"}
          /\ Dynamic(p) = {"message", "children"}
          /\ DOMAIN q = {"class", "baseId", "index", "message", "children"}
          /\ Dynamic(q) = {"message", "children"}
      BY <2>1, <2>3, <3>1, Classes
    <3>3. c \in Vectors /\ d \in Vectors
      BY <2>1, <2>3, <3>1, <3>2 DEF Sound, Stored, Contents
    <3> HIDE DEF a, b, c, d
    <3>4. ValueOf(p) = [class |-> p.class, baseId |-> p.baseId, index |-> p.index,
                        message |-> a, children |-> c]
      BY <3>2 DEF ValueOf, a, c
    <3>5. ValueOf(q) = [class |-> q.class, baseId |-> q.baseId, index |-> q.index,
                        message |-> b, children |-> d]
      BY <3>2 DEF ValueOf, b, d
    <3>6. ElementsEqual(c, d) <=> c = d
      <4>1. /\ c \in [1..Len(c) -> [baseId : Int, childId : Int]]
            /\ d \in [1..Len(d) -> [baseId : Int, childId : Int]]
        BY <3>3, LenProperties DEF Vectors
      <4>2. ASSUME NEW e \in [baseId : Int, childId : Int], NEW f \in [baseId : Int, childId : Int]
            PROVE  ChildDataEqual(e, f) <=> e = f
        BY DEF ChildDataEqual, DataBaseUnequal, DataBaseEqual
      <4>3. c = d => ElementsEqual(c, d)
        BY <4>1, <4>2 DEF ElementsEqual
      <4>4. ASSUME ElementsEqual(c, d)
            PROVE  c = d
        <5>1. Len(c) = Len(d) /\ DOMAIN c = 1..Len(c) /\ DOMAIN d = 1..Len(c)
          BY <4>1, <4>4 DEF ElementsEqual
        <5>2. \A i \in 1..Len(c) : c[i] = d[i]
          BY <4>1, <4>2, <4>4, <5>1 DEF ElementsEqual
        <5> QED
          BY <4>1, <5>1, <5>2
      <4> QED
        BY <4>3, <4>4
    <3>7. ValueOf(p) = ValueOf(q) <=> p.baseId = q.baseId /\ p.index = q.index /\ a = b /\ c = d
      BY <2>2, <3>4, <3>5
    <3>8. HelloWorldTwoEqual(p, q) <=> /\ p.baseId = q.baseId /\ p.index = q.index
                                       /\ a = b /\ ElementsEqual(c, d)
      BY DEF HelloWorldTwoEqual, DataBaseUnequal, DataBaseEqual, a, b, c, d
    <3> QED
      BY <2>3, <3>6, <3>7, <3>8 DEF p, q
  <2>4. CASE ~IsTwo(p)
    <3>1. ~IsTwo(q)
      BY <2>2, <2>4 DEF IsTwo
    <3> DEFINE a == Contents(p.points)
               b == Contents(q.points)
    <3>2. /\ DOMAIN p = {"class", "index", "points"} /\ Dynamic(p) = {"points"}
          /\ DOMAIN q = {"class", "index", "points"} /\ Dynamic(q) = {"points"}
      BY <2>1, <2>4, <3>1, Classes
    <3> HIDE DEF a, b
    <3>3. ValueOf(p) = [class |-> p.class, index |-> p.index, points |-> a]
      BY <3>2 DEF ValueOf, a
    <3>4. ValueOf(q) = [class |-> q.class, index |-> q.index, points |-> b]
      BY <3>2 DEF ValueOf, b
    <3>5. ValueOf(p) = ValueOf(q) <=> p.index = q.index /\ a = b
      BY <2>2, <3>3, <3>4
    <3>6. HelloWorldOneEqual(p, q) <=> p.index = q.index /\ a = b
      BY DEF HelloWorldOneEqual, a, b
    <3> QED
      BY <2>4, <3>5, <3>6 DEF p, q
  <2> QED
    BY <2>3, <2>4
<1> QED
  BY <1>1, Invariance, PTL

(***************************************************************************)
(* The objects, with addresses, storage and moves of storage, behave as    *)
(* values that are created, copied, given away, changed and dropped one at *)
(* a time: no step on one object shows in another.                         *)
(***************************************************************************)
THEOREM ObjectsAreValues == Spec => ImplementsValues
<1>1. Init => Values!Init
  <2> SUFFICES ASSUME Init PROVE Values!Init
    OBVIOUS
  <2>1. \A o \in Objects : ~Exists(o)
    BY DEF Init, Exists
  <2>2. ObjectValues = [o \in Objects |-> None]
    BY <2>1 DEF ObjectValues
  <2> QED
    BY <2>2 DEF Values!Init
<1>2. MInv /\ [Next]_vars => [Values!Next]_ObjectValues
  BY StepImplements
<1> QED
  BY <1>1, <1>2, Invariance, PTL DEF Spec, ImplementsValues, Values!Spec
=============================================================================
