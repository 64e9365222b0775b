---------------------------- MODULE TopicDataProofs ----------------------------
(***************************************************************************)
(* For every message, of any length: the generated sizing and the          *)
(* generated writing agree, the generated reading reads what the writing   *)
(* wrote, and the sizes declared by the generator cover every message      *)
(* within the declared bounds.                                             *)
(***************************************************************************)
EXTENDS TopicData, WellFoundedInduction, TLAPS

-----------------------------------------------------------------------------
\* Positions.

\* Padding leads to the next multiple of 4.
LEMMA AlignmentFacts ==
  ASSUME NEW p \in Nat
  PROVE  /\ Alignment(p, 4) \in 0..3
         /\ Alignment(p + 4, 4) = Alignment(p, 4)
         /\ Alignment(p + Alignment(p, 4), 4) = 0
         /\ (p + Alignment(p, 4)) % 4 = 0
         /\ p % 4 = 0 => Alignment(p, 4) = 0
  BY DEF Alignment

\* What follows a long is aligned, and a shift by 4 is a shift by 4.
LEMMA AfterLongFacts ==
  ASSUME NEW p \in Nat
  PROVE  /\ AfterLong(p) \in Nat /\ AfterLong(p) % 4 = 0
         /\ AfterLong(p) >= p + 4 /\ AfterLong(p) <= p + 7
         /\ AfterLong(p + 4) = AfterLong(p) + 4
         /\ Alignment(AfterLong(p), 4) = 0
         /\ p % 4 = 0 => AfterLong(p) = p + 4
<1>1. Alignment(p, 4) \in 0..3 /\ (p + Alignment(p, 4)) % 4 = 0 /\ Alignment(p + 4, 4) = Alignment(p, 4)
      /\ (p % 4 = 0 => Alignment(p, 4) = 0)
  BY AlignmentFacts
<1>2. AfterLong(p) % 4 = 0
  BY <1>1 DEF AfterLong
<1>3. AfterLong(p) \in Nat
  BY <1>1 DEF AfterLong
<1>4. Alignment(AfterLong(p), 4) = 0
  BY <1>2, <1>3, AlignmentFacts
<1>5. AfterLong(p) >= p + 4 /\ AfterLong(p) <= p + 7 /\ AfterLong(p + 4) = AfterLong(p) + 4
  BY <1>1 DEF AfterLong
<1>6. p % 4 = 0 => AfterLong(p) = p + 4
  BY <1>1 DEF AfterLong
<1> QED
  BY <1>2, <1>3, <1>4, <1>5, <1>6
-----------------------------------------------------------------------------
\* Streams.

StreamFields == {"buf", "max", "pos", "ok", "rep", "obj", "val", "more"}

IsStream(s) ==
  /\ s = [f \in StreamFields |-> s[f]]
  /\ s.max \in Nat /\ s.pos \in Int /\ s.ok \in BOOLEAN

\* u is what became of s: it is at position p, unless something did not fit,
\* and then p is behind the end as well.
Near(s, u, p) ==
  /\ IsStream(u)
  /\ u.max = s.max /\ u.rep = s.rep
  /\ u.ok => u.pos = p
  /\ ~u.ok => p > s.max

\* Everything up to position p is written, unless it does not fit.
Reaches(s, u, p) == Near(s, u, p) /\ (u.ok => p <= s.max)

\* One scalar more.
LEMMA PutReaches ==
  ASSUME NEW s, s.max \in Nat, NEW u, NEW p \in Nat, Near(s, u, p), NEW n \in Nat, NEW v
  PROVE  Reaches(s, Put(u, n, v), p + Alignment(p, 4) + n)
<1> USE DEF Near
<1> DEFINE at == u.pos + Alignment(u.pos, 4)
           w == Put(u, n, v)
<1> SUFFICES Reaches(s, w, p + Alignment(p, 4) + n)
  OBVIOUS
<1>1. Alignment(p, 4) \in Nat
  BY AlignmentFacts
<1>2. CASE u.ok /\ at + n <= u.max
  <2>1. w = [u EXCEPT !.pos = at + n, !.buf = Overwrite(@, at, n, v)]
    BY <1>2 DEF Put
  <2>2. at = p + Alignment(p, 4)
    BY <1>2
  <2>3. w.max = u.max /\ w.rep = u.rep /\ w.ok = u.ok /\ w.pos = at + n
    BY <2>1 DEF IsStream, StreamFields
  <2>4. w = [f \in StreamFields |-> w[f]]
    BY <2>1 DEF IsStream, StreamFields
  <2>5. w.pos \in Nat
    BY <1>1, <2>2, <2>3
  <2>6. IsStream(w)
    BY <2>3, <2>4, <2>5 DEF IsStream
  <2>7. p + Alignment(p, 4) + n <= s.max
    BY <1>2, <2>2
  <2> HIDE DEF w
  <2> QED
    BY <1>2, <2>2, <2>3, <2>6, <2>7 DEF Reaches
<1>3. CASE ~(u.ok /\ at + n <= u.max)
  <2>1. w = [u EXCEPT !.ok = FALSE]
    BY <1>3 DEF Put
  <2>2. IsStream(w) /\ w.max = u.max /\ w.rep = u.rep /\ w.ok = FALSE
    BY <2>1 DEF IsStream, StreamFields
  <2>3. p + Alignment(p, 4) + n > s.max
    BY <1>1, <1>3 DEF IsStream
  <2> HIDE DEF w
  <2> QED
    BY <2>2, <2>3 DEF Reaches
<1> QED
  BY <1>2, <1>3

\* A long more.
LEMMA PutLongReaches ==
  ASSUME NEW s, s.max \in Nat, NEW u, NEW p \in Nat, Near(s, u, p), NEW v
  PROVE  Reaches(s, PutLong(u, v), AfterLong(p))
<1>1. Reaches(s, Put(u, 4, v), p + Alignment(p, 4) + 4)
  BY PutReaches
<1> QED
  BY <1>1 DEF PutLong, AfterLong

\* A long and a scalar of any size: the long's end is aligned.
LEMMA PutBlockReaches ==
  ASSUME NEW s, s.max \in Nat, NEW u, NEW p \in Nat, Near(s, u, p), NEW v,
         NEW n \in Nat, NEW x
  PROVE  Reaches(s, Put(PutLong(u, v), n, x), AfterLong(p) + n)
<1>1. Near(s, PutLong(u, v), AfterLong(p))
  BY PutLongReaches DEF Reaches
<1>2. AfterLong(p) \in Nat /\ Alignment(AfterLong(p), 4) = 0
  BY AfterLongFacts
<1>3. Reaches(s, Put(PutLong(u, v), n, x), AfterLong(p) + Alignment(AfterLong(p), 4) + n)
  BY <1>1, <1>2, PutReaches
<1>4. AfterLong(p) + Alignment(AfterLong(p), 4) + n = AfterLong(p) + n
  BY <1>2
<1> QED
  BY <1>3, <1>4

\* A text more.
LEMMA PutStringReaches ==
  ASSUME NEW s, s.max \in Nat, NEW u, NEW p \in Nat, Near(s, u, p), NEW n \in Nat
  PROVE  Reaches(s, PutString(u, n), AfterString(p, n))
<1>1. Reaches(s, Put(PutLong(u, n + 1), n + 1, n), AfterLong(p) + (n + 1))
  BY PutBlockReaches
<1>2. AfterLong(p) + (n + 1) = AfterString(p, n)
  BY AfterLongFacts DEF AfterString
<1> QED
  BY <1>1, <1>2 DEF PutString

\* A sequence of octets more.
LEMMA PutOctetsReaches ==
  ASSUME NEW s, s.max \in Nat, NEW u, NEW p \in Nat, Near(s, u, p), NEW n \in Nat
  PROVE  Reaches(s, PutOctets(u, n), AfterOctets(p, n))
<1>1. CASE n = 0
  <2>1. Reaches(s, PutLong(u, 0), AfterLong(p))
    BY PutLongReaches
  <2>2. AfterOctets(p, n) = AfterLong(p)
    BY <1>1, AfterLongFacts DEF AfterOctets
  <2> QED
    BY <1>1, <2>1, <2>2 DEF PutOctets
<1>2. CASE n # 0
  <2>1. Reaches(s, Put(PutLong(u, n), n, n), AfterLong(p) + n)
    BY PutBlockReaches
  <2> QED
    BY <1>2, <2>1 DEF PutOctets, AfterOctets
<1> QED
  BY <1>1, <1>2

\* Filling in a header moves nothing.
LEMMA HeaderReaches ==
  ASSUME NEW s, NEW u, NEW p \in Nat, Reaches(s, u, p), NEW x, NEW size
  PROVE  Reaches(s, IF u.ok THEN [u EXCEPT !.buf[x].val = size] ELSE u, p)
<1> DEFINE w == [u EXCEPT !.buf[x].val = size]
<1>1. w = [f \in StreamFields |-> w[f]]
  BY DEF Reaches, Near, IsStream, StreamFields
<1>2. w.max = u.max /\ w.rep = u.rep /\ w.ok = u.ok /\ w.pos = u.pos
  BY DEF Reaches, Near, IsStream, StreamFields
<1> HIDE DEF w
<1>3. IsStream(w)
  BY <1>1, <1>2 DEF Reaches, Near, IsStream
<1>4. Reaches(s, w, p)
  BY <1>2, <1>3 DEF Reaches, Near
<1>5. Reaches(s, IF u.ok THEN w ELSE u, p)
  BY <1>4
<1> QED
  BY <1>5 DEF w
-----------------------------------------------------------------------------
\* The generated writers.

\* ChildData: its two longs, after the header that XCDRv2 has.
LEMMA ChildDataReaches ==
  ASSUME NEW s, s.max \in Nat, s.rep \in Representations,
         NEW u, NEW p \in Nat, Near(s, u, p), NEW data
  PROVE  Reaches(s, SerializeChildData(u, data), ChildDataEnd(s.rep, p, data))
<1>1. ASSUME NEW v, NEW q \in Nat, Near(s, v, q)
      PROVE  Reaches(s, PutLong(PutLong(v, data.baseId), data.childId), AfterLong(AfterLong(q)))
  <2>1. Near(s, PutLong(v, data.baseId), AfterLong(q)) /\ AfterLong(q) \in Nat
    BY <1>1, PutLongReaches, AfterLongFacts DEF Reaches
  <2> QED
    BY <2>1, PutLongReaches
<1>2. u.rep = s.rep
  BY DEF Near
<1>3. CASE s.rep = "XCDRv1"
  <2>1. SerializeChildData(u, data) = PutLong(PutLong(u, data.baseId), data.childId)
    BY <1>2, <1>3 DEF SerializeChildData, PutStruct
  <2> QED
    BY <1>1, <1>3, <2>1 DEF ChildDataEnd, AfterHeader
<1>4. CASE s.rep = "XCDRv2"
  <2> DEFINE header == PutLong(u, 0)
             end == PutLong(PutLong(header, data.baseId), data.childId)
  <2>1. Near(s, header, AfterLong(p)) /\ AfterLong(p) \in Nat
    BY PutLongReaches, AfterLongFacts DEF Reaches
  <2>2. Reaches(s, end, AfterLong(AfterLong(AfterLong(p))))
    BY <1>1, <2>1
  <2>3. SerializeChildData(u, data) =
          IF end.ok THEN [end EXCEPT !.buf[header.pos - 4].val = end.pos - header.pos] ELSE end
    BY <1>2, <1>4 DEF SerializeChildData, PutStruct
  <2>4. AfterLong(AfterLong(AfterLong(p))) \in Nat
    BY <2>1, AfterLongFacts
  <2>5. ChildDataEnd(s.rep, p, data) = AfterLong(AfterLong(AfterLong(p)))
    BY <1>4 DEF ChildDataEnd, AfterHeader
  <2> HIDE DEF end
  <2> QED
    BY <2>2, <2>3, <2>4, <2>5, HeaderReaches
<1> QED
  BY <1>3, <1>4 DEF Representations
\* DataBase: its long.
LEMMA DataBaseReaches ==
  ASSUME NEW s, s.max \in Nat, s.rep \in Representations,
         NEW u, NEW p \in Nat, Near(s, u, p), NEW data
  PROVE  Reaches(s, SerializeDataBase(u, data), DataBaseEnd(s.rep, p, data))
<1>1. u.rep = s.rep
  BY DEF Near
<1>2. CASE s.rep = "XCDRv1"
  <2>1. SerializeDataBase(u, data) = PutLong(u, data.baseId)
    BY <1>1, <1>2 DEF SerializeDataBase, PutStruct
  <2> QED
    BY <1>2, <2>1, PutLongReaches DEF DataBaseEnd, AfterHeader
<1>3. CASE s.rep = "XCDRv2"
  <2> DEFINE header == PutLong(u, 0)
             end == PutLong(header, data.baseId)
  <2>1. Near(s, header, AfterLong(p)) /\ AfterLong(p) \in Nat
    BY PutLongReaches, AfterLongFacts DEF Reaches
  <2>2. Reaches(s, end, AfterLong(AfterLong(p))) /\ AfterLong(AfterLong(p)) \in Nat
    BY <2>1, PutLongReaches, AfterLongFacts
  <2>3. SerializeDataBase(u, data) =
          IF end.ok THEN [end EXCEPT !.buf[header.pos - 4].val = end.pos - header.pos] ELSE end
    BY <1>1, <1>3 DEF SerializeDataBase, PutStruct
  <2>4. DataBaseEnd(s.rep, p, data) = AfterLong(AfterLong(p))
    BY <1>3 DEF DataBaseEnd, AfterHeader
  <2> HIDE DEF end
  <2>5. Reaches(s, IF end.ok THEN [end EXCEPT !.buf[header.pos - 4].val = end.pos - header.pos] ELSE end,
                AfterLong(AfterLong(p)))
    BY <2>2, HeaderReaches
  <2> QED
    BY <2>3, <2>4, <2>5
<1> QED
  BY <1>2, <1>3 DEF Representations

\* HelloWorldOne: a long and the octets.
LEMMA HelloWorldOneReaches ==
  ASSUME NEW s, s.max \in Nat, s.rep \in Representations,
         NEW u, NEW p \in Nat, Near(s, u, p), NEW data, data.points \in Nat
  PROVE  Reaches(s, SerializeHelloWorldOne(u, data), HelloWorldOneEnd(s.rep, p, data))
<1>1. ASSUME NEW v, NEW q \in Nat, Near(s, v, q)
      PROVE  Reaches(s, PutOctets(PutLong(v, data.index), data.points),
                     AfterOctets(AfterLong(q), data.points))
  <2>1. Near(s, PutLong(v, data.index), AfterLong(q)) /\ AfterLong(q) \in Nat
    BY <1>1, PutLongReaches, AfterLongFacts DEF Reaches
  <2> QED
    BY <2>1, PutOctetsReaches
<1>2. u.rep = s.rep
  BY DEF Near
<1>3. CASE s.rep = "XCDRv1"
  <2>1. SerializeHelloWorldOne(u, data) = PutOctets(PutLong(u, data.index), data.points)
    BY <1>2, <1>3 DEF SerializeHelloWorldOne, PutStruct
  <2> QED
    BY <1>1, <1>3, <2>1 DEF HelloWorldOneEnd, AfterHeader
<1>4. CASE s.rep = "XCDRv2"
  <2> DEFINE header == PutLong(u, 0)
             end == PutOctets(PutLong(header, data.index), data.points)
  <2>1. Near(s, header, AfterLong(p)) /\ AfterLong(p) \in Nat
    BY PutLongReaches, AfterLongFacts DEF Reaches
  <2>2. Reaches(s, end, AfterOctets(AfterLong(AfterLong(p)), data.points))
    BY <1>1, <2>1
  <2>3. SerializeHelloWorldOne(u, data) =
          IF end.ok THEN [end EXCEPT !.buf[header.pos - 4].val = end.pos - header.pos] ELSE end
    BY <1>2, <1>4 DEF SerializeHelloWorldOne, PutStruct
  <2>4. AfterLong(AfterLong(p)) \in Nat /\ AfterLong(AfterLong(AfterLong(p))) \in Nat
    BY <2>1, AfterLongFacts
  <2>5. AfterOctets(AfterLong(AfterLong(p)), data.points) \in Nat
    BY <2>4 DEF AfterOctets
  <2>6. HelloWorldOneEnd(s.rep, p, data) = AfterOctets(AfterLong(AfterLong(p)), data.points)
    BY <1>4 DEF HelloWorldOneEnd, AfterHeader
  <2> HIDE DEF end
  <2>7. Reaches(s, IF end.ok THEN [end EXCEPT !.buf[header.pos - 4].val = end.pos - header.pos] ELSE end,
                AfterOctets(AfterLong(AfterLong(p)), data.points))
    BY <2>2, <2>5, HeaderReaches
  <2> QED
    BY <2>3, <2>6, <2>7
<1> QED
  BY <1>3, <1>4 DEF Representations
-----------------------------------------------------------------------------
\* The sequence of ChildData.

ChildSize(rep) == ChildDataEnd(rep, 0, ChildData)

\* An element takes up two longs, and its header.
LEMMA ChildSizeIs ==
  ASSUME NEW rep \in Representations
  PROVE  ChildSize(rep) \in {8, 12}
  BY DEF ChildSize, ChildDataEnd, AfterHeader, AfterLong, Alignment, Representations

\* What an element takes up does not depend on where it is.
LEMMA ChildSizeFacts ==
  ASSUME NEW rep \in Representations, NEW p \in Nat, p % 4 = 0, NEW data
  PROVE  /\ ChildSize(rep) = IF rep = "XCDRv1" THEN 8 ELSE 12
         /\ ChildDataEnd(rep, p, data) = p + ChildSize(rep)
  BY DEF ChildSize, ChildDataEnd, AfterHeader, AfterLong, Alignment, Representations

\* The elements of PutStructs, for ChildData.
Elements(u, q) ==
  LET size == Taken(u, SerializeChildData(u, q[1]))
      element == [i \in DOMAIN q |->
                    SerializeChildData([u EXCEPT !.pos = @ + (i - 1) * size, !.buf = <<>>], q[i])]
      written == UNION {DOMAIN element[i].buf : i \in DOMAIN q}
      ElementAt(o) == element[((o - u.pos) \div size) + 1]
      intact == {o \in DOMAIN u.buf : o + u.buf[o].size <= u.pos \/ u.pos + Len(q) * size <= o}
  IN IF q = <<>> \/ ~u.ok THEN u
     ELSE [u EXCEPT !.pos = @ + Len(q) * size,
                    !.buf = [o \in intact \cup written |->
                               IF o \in written THEN ElementAt(o).buf[o] ELSE u.buf[o]],
                    !.ok = \A i \in DOMAIN q : element[i].ok]

\* A stream over no buffer that writes where element i starts.
At(u, i, size) == [u EXCEPT !.pos = @ + (i - 1) * size, !.buf = <<>>]

\* Such a stream is where it should be.
LEMMA AtIsNear ==
  ASSUME NEW s, s.max \in Nat, NEW u, NEW p \in Nat, Near(s, u, p), u.ok,
         NEW d \in Nat, NEW i, NEW size, (i - 1) * size = d
  PROVE  Near(s, At(u, i, size), p + d)
<1> DEFINE w == At(u, i, size)
<1>1. w = [u EXCEPT !.pos = @ + d, !.buf = <<>>]
  BY DEF At
<1>2. w = [f \in StreamFields |-> w[f]]
  BY <1>1 DEF Near, IsStream, StreamFields
<1>3. w.max = u.max /\ w.rep = u.rep /\ w.ok = u.ok /\ w.pos = u.pos + d
  BY <1>1 DEF Near, IsStream, StreamFields
<1> HIDE DEF w
<1>4. Near(s, w, p + d)
  BY <1>2, <1>3 DEF Near, IsStream
<1> QED
  BY <1>4 DEF w

\* Multiples of 4 add up to one.
LEMMA AlignedSum ==
  ASSUME NEW p \in Nat, p % 4 = 0, NEW d \in Nat, d % 4 = 0
  PROVE  p + d \in Nat /\ (p + d) % 4 = 0
  OBVIOUS

\* A stream that reaches p is in order exactly if p is not behind the end.
LEMMA ReachesOk ==
  ASSUME NEW s, s.max \in Nat, NEW u, NEW p \in Nat, Reaches(s, u, p)
  PROVE  u.ok \in BOOLEAN /\ (u.ok <=> p <= s.max)
<1>1. u.ok \in BOOLEAN
  BY DEF Reaches, Near, IsStream
<1>2. u.ok => p <= s.max
  BY DEF Reaches
<1>3. ~u.ok => ~(p <= s.max)
  BY DEF Reaches, Near
<1> QED
  BY <1>1, <1>2, <1>3

\* A stream that failed stays where it failed.
LEMMA FailedReaches ==
  ASSUME NEW s, s.max \in Nat, NEW u, NEW p \in Nat, Near(s, u, p), ~u.ok,
         NEW r \in Nat, p <= r
  PROVE  Reaches(s, u, r)
  BY DEF Reaches, Near

\* All elements are written, unless they do not fit.
LEMMA ElementsReach ==
  ASSUME NEW s, s.max \in Nat, s.rep \in Representations,
         NEW u, NEW p \in Nat, p % 4 = 0, Reaches(s, u, p),
         NEW q \in Seq([baseId : Nat, childId : Nat])
  PROVE  Reaches(s, Elements(u, q), p + Len(q) * ChildSize(s.rep))
<1> DEFINE size0 == ChildSize(s.rep)
           e == SerializeChildData(u, q[1])
           size == Taken(u, e)
           element == [i \in DOMAIN q |-> SerializeChildData(At(u, i, size), q[i])]
           allOk == \A i \in DOMAIN q : element[i].ok
           w == Elements(u, q)
<1>1. size0 \in {8, 12}
  BY ChildSizeFacts
<1>2. Len(q) \in Nat /\ DOMAIN q = 1..Len(q) /\ (q # <<>> => Len(q) >= 1)
  OBVIOUS
<1>3. Near(s, u, p) /\ (u.ok => p <= s.max) /\ IsStream(u)
  BY DEF Reaches, Near
<1>4. CASE q = <<>>
  <2>1. w = u
    BY <1>4 DEF Elements
  <2>2. p + Len(q) * size0 = p
    BY <1>1, <1>4
  <2> HIDE DEF w, size0
  <2> QED
    BY <2>1, <2>2 DEF w, size0
<1>5. CASE ~u.ok
  <2>1. w = u
    BY <1>5 DEF Elements
  <2>2. p + Len(q) * size0 >= p /\ p + Len(q) * size0 \in Nat
    BY <1>1, <1>2
  <2>3. Reaches(s, u, p + Len(q) * size0)
    <3> HIDE DEF size0
    <3> QED
      BY <1>3, <1>5, <2>2, FailedReaches
  <2> QED
    BY <2>1, <2>3
<1>6. CASE q # <<>> /\ u.ok
  <2>1. Near(s, e, p + size0) /\ (e.ok => p + size0 <= s.max)
    <3>1. Reaches(s, e, ChildDataEnd(s.rep, p, q[1]))
      BY <1>3, ChildDataReaches
    <3> QED
      BY <3>1, ChildSizeFacts DEF Reaches
  <2>2. u.pos = p /\ size = e.pos - p /\ e.pos \in Int /\ (e.ok => size = size0)
    BY <1>1, <1>3, <1>6, <2>1 DEF Near, IsStream, Taken
  <2>3. ASSUME NEW i \in DOMAIN q, NEW d \in Nat, d % 4 = 0, (i - 1) * size = d
        PROVE  /\ element[i].ok \in BOOLEAN
               /\ element[i].ok <=> p + d + size0 <= s.max
    <3>1. Near(s, At(u, i, size), p + d)
      <4> HIDE DEF size
      <4> QED
        BY <1>3, <1>6, <2>3, AtIsNear
    <3>2. p + d \in Nat /\ (p + d) % 4 = 0
      BY <2>3, AlignedSum
    <3>3. Reaches(s, element[i], ChildDataEnd(s.rep, p + d, q[i]))
      <4>1. Reaches(s, SerializeChildData(At(u, i, size), q[i]), ChildDataEnd(s.rep, p + d, q[i]))
        <5> HIDE DEF size
        <5> QED
          BY <3>1, <3>2, ChildDataReaches
      <4> QED
        BY <4>1
    <3>4. Reaches(s, element[i], p + d + size0)
      BY <3>2, <3>3, ChildSizeFacts
    <3>5. p + d + size0 \in Nat
      <4> HIDE DEF size0
      <4> QED
        BY <1>1, <2>3
    <3> DEFINE x == element[i]
               r == p + d + size0
    <3>6. Reaches(s, x, r) /\ r \in Nat
      BY <3>4, <3>5
    <3> HIDE DEF x, r
    <3>7. x.ok \in BOOLEAN /\ (x.ok <=> r <= s.max)
      BY <3>6, ReachesOk
    <3> QED
      BY <3>7, Zenon DEF x, r
  <2>4. allOk \in BOOLEAN /\ (allOk <=> p + Len(q) * size0 <= s.max)
    <3>1. CASE ~e.ok
      <4>1. p + size0 > s.max
        BY <2>1, <3>1 DEF Near
      <4>2. 1 \in DOMAIN q /\ (1 - 1) * size = 0
        <5>1. size \in Int
          BY <2>2
        <5> HIDE DEF size
        <5> QED
          BY <1>2, <1>6, <5>1
      <4>3. ~element[1].ok
        <5> HIDE DEF element, size, size0
        <5> QED
          BY <1>1, <2>3, <4>1, <4>2
      <4>4. p + Len(q) * size0 > s.max
        BY <1>1, <1>2, <1>6, <4>1
      <4> HIDE DEF element, size0
      <4> QED
        BY <4>2, <4>3, <4>4, <1>1, <1>2
    <3>2. CASE e.ok
      <4>1. ASSUME NEW i \in DOMAIN q
            PROVE  element[i].ok <=> p + i * size0 <= s.max
        <5>0. i \in Nat
          BY <1>2
        <5>1. (i - 1) * size \in Nat /\ ((i - 1) * size) % 4 = 0 /\ (i - 1) * size + size0 = i * size0
          <6>1. size = size0 /\ i \in Nat /\ i >= 1
            BY <1>2, <2>2, <3>2
          <6>2. CASE size0 = 8
            BY <6>1, <6>2
          <6>3. CASE size0 = 12
            BY <6>1, <6>3
          <6> QED
            BY <1>1, <6>2, <6>3
        <5> HIDE DEF element, size, size0
        <5>2. element[i].ok <=> p + (i - 1) * size + size0 <= s.max
          BY <2>3, <5>1
        <5>3. p + (i - 1) * size + size0 = p + i * size0
          <6>1. size0 \in Nat
            BY <1>1
          <6> DEFINE b == (i - 1) * size
                     d == i * size0
          <6>2. b \in Nat /\ d = b + size0 /\ d \in Nat
            BY <5>1, <6>1
          <6> HIDE DEF b, d
          <6>3. p + b + size0 = p + d
            BY <6>1, <6>2
          <6> QED
            BY <6>3 DEF b, d
        <5> QED
          BY <5>2, <5>3, Zenon
      <4>2. \A i \in 1..Len(q) : p + Len(q) * size0 <= s.max => p + i * size0 <= s.max
        <5>1. CASE size0 = 8
          BY <1>2, <5>1
        <5>2. CASE size0 = 12
          BY <1>2, <5>2
        <5> QED
          BY <1>1, <5>1, <5>2
      <4>3. Len(q) \in DOMAIN q
        BY <1>2, <1>6
      <4> HIDE DEF element, size0
      <4> QED
        BY <1>2, <4>1, <4>2, <4>3
    <3> QED
      BY <3>1, <3>2
  <2>5. /\ w = [f \in StreamFields |-> w[f]]
        /\ w.max = u.max /\ w.rep = u.rep
        /\ w.pos = u.pos + Len(q) * size
        /\ w.ok = allOk
    <3>1. PICK buf : w = [u EXCEPT !.pos = @ + Len(q) * size, !.buf = buf, !.ok = allOk]
      BY <1>6 DEF Elements, At
    <3> HIDE DEF w, allOk, size
    <3> QED
      BY <1>3, <3>1 DEF IsStream, StreamFields
  <2>6. allOk => w.pos = p + Len(q) * size0
    <3>1. allOk => e.ok
      BY <1>1, <1>2, <1>6, <2>1, <2>4 DEF Near
    <3> HIDE DEF w, allOk, size, size0
    <3> QED
      BY <2>2, <2>5, <3>1
  <2>7. w.pos \in Int
    <3>1. Len(q) * size \in Int /\ u.pos \in Int
      BY <1>2, <2>2
    <3> QED
      BY <2>5, <3>1
  <2>8. p + Len(q) * size0 \in Int
    BY <1>1, <1>2
  <2> HIDE DEF w, allOk, size0
  <2>9. Near(s, w, p + Len(q) * size0)
    BY <1>3, <2>4, <2>5, <2>6, <2>7, <2>8 DEF Near, IsStream
  <2>10. w.ok => p + Len(q) * size0 <= s.max
    BY <2>4, <2>5
  <2> QED
    BY <2>9, <2>10 DEF Reaches, w, size0
<1> QED
  BY <1>4, <1>5, <1>6

\* The length, the elements, and in XCDRv2 a header for all of it.
LEMMA ChildrenReach ==
  ASSUME NEW s, s.max \in Nat, s.rep \in Representations,
         NEW u, NEW p \in Nat, Near(s, u, p),
         NEW q \in Seq([baseId : Nat, childId : Nat])
  PROVE  Reaches(s, PutStructs(u, q, SerializeChildData),
                 AfterStructs(s.rep, p, Len(q), ChildSize(s.rep)))
<1>1. ASSUME NEW v, NEW r \in Nat, Near(s, v, r)
      PROVE  Reaches(s, Elements(PutLong(v, Len(q)), q), AfterLong(r) + Len(q) * ChildSize(s.rep))
  <2>1. Reaches(s, PutLong(v, Len(q)), AfterLong(r))
    BY <1>1, PutLongReaches
  <2>2. AfterLong(r) \in Nat /\ AfterLong(r) % 4 = 0
    BY AfterLongFacts
  <2> QED
    BY <2>1, <2>2, ElementsReach
<1>2. u.rep = s.rep
  BY DEF Near
<1>3. CASE s.rep = "XCDRv1"
  <2>1. PutStructs(u, q, SerializeChildData) = Elements(PutLong(u, Len(q)), q)
    BY <1>2, <1>3 DEF PutStructs, PutStruct, Elements
  <2> QED
    BY <1>1, <1>3, <2>1 DEF AfterStructs, AfterHeader
<1>4. CASE s.rep = "XCDRv2"
  <2> DEFINE header == PutLong(u, 0)
             end == Elements(PutLong(header, Len(q)), q)
             r == AfterStructs(s.rep, p, Len(q), ChildSize(s.rep))
  <2>1. Near(s, header, AfterLong(p)) /\ AfterLong(p) \in Nat
    BY PutLongReaches, AfterLongFacts DEF Reaches
  <2>2. Reaches(s, end, AfterLong(AfterLong(p)) + Len(q) * ChildSize(s.rep))
    BY <1>1, <2>1
  <2>3. PutStructs(u, q, SerializeChildData) =
          IF end.ok THEN [end EXCEPT !.buf[header.pos - 4].val = end.pos - header.pos] ELSE end
    BY <1>2, <1>4 DEF PutStructs, PutStruct, Elements
  <2>4. r = AfterLong(AfterLong(p)) + Len(q) * ChildSize(s.rep)
    BY <1>4 DEF AfterStructs, AfterHeader
  <2>5. r \in Nat
    <3>1. AfterLong(AfterLong(p)) \in Nat
      BY <2>1, AfterLongFacts
    <3>2. ChildSize(s.rep) \in {8, 12} /\ Len(q) \in Nat
      BY ChildSizeIs
    <3>3. Len(q) * ChildSize(s.rep) \in Nat
      BY <3>2
    <3> QED
      BY <2>4, <3>1, <3>3
  <2> HIDE DEF end, r
  <2>6. Reaches(s, IF end.ok THEN [end EXCEPT !.buf[header.pos - 4].val = end.pos - header.pos] ELSE end, r)
    BY <2>2, <2>4, <2>5, HeaderReaches
  <2> QED
    BY <2>3, <2>6 DEF r
<1> QED
  BY <1>3, <1>4 DEF Representations

\* HelloWorldTwo: the base's long, a long, the text and the sequence.
LEMMA HelloWorldTwoReaches ==
  ASSUME NEW s, s.max \in Nat, s.rep \in Representations,
         NEW u, NEW p \in Nat, Near(s, u, p), NEW data, data.message \in Nat,
         data.children \in Seq([baseId : Nat, childId : Nat])
  PROVE  Reaches(s, SerializeHelloWorldTwo(u, data), HelloWorldTwoEnd(s.rep, p, data))
<1> DEFINE members(v) == PutStructs(PutString(PutLong(PutLong(v, data.baseId), data.index), data.message),
                                    data.children, SerializeChildData)
           after(q) == AfterStructs(s.rep, AfterString(AfterLong(AfterLong(q)), data.message),
                                    Len(data.children), ChildSize(s.rep))
<1>1. ASSUME NEW v, NEW q \in Nat, Near(s, v, q)
      PROVE  Reaches(s, members(v), after(q)) /\ after(q) \in Nat
  <2>1. Near(s, PutLong(v, data.baseId), AfterLong(q)) /\ AfterLong(q) \in Nat
    BY <1>1, PutLongReaches, AfterLongFacts DEF Reaches
  <2>2. Near(s, PutLong(PutLong(v, data.baseId), data.index), AfterLong(AfterLong(q)))
        /\ AfterLong(AfterLong(q)) \in Nat
    BY <2>1, PutLongReaches, AfterLongFacts DEF Reaches
  <2> DEFINE text == PutString(PutLong(PutLong(v, data.baseId), data.index), data.message)
             r == AfterString(AfterLong(AfterLong(q)), data.message)
  <2>3. Near(s, text, r)
    BY <2>2, PutStringReaches DEF Reaches
  <2>4. r \in Nat
    <3>1. AfterLong(AfterLong(AfterLong(q))) \in Nat
      BY <2>2, AfterLongFacts
    <3> QED
      BY <3>1 DEF AfterString
  <2> HIDE DEF text, r
  <2>5. Reaches(s, PutStructs(text, data.children, SerializeChildData),
                AfterStructs(s.rep, r, Len(data.children), ChildSize(s.rep)))
    BY <2>3, <2>4, ChildrenReach
  <2>6. AfterStructs(s.rep, r, Len(data.children), ChildSize(s.rep)) \in Nat
    <3>1. ChildSize(s.rep) \in {8, 12} /\ Len(data.children) \in Nat
      BY ChildSizeIs
    <3>2. Len(data.children) * ChildSize(s.rep) \in Nat
      BY <3>1
    <3>3. AfterHeader(s.rep, r) \in Nat
      BY <2>4, AfterLongFacts DEF AfterHeader
    <3>4. AfterLong(AfterHeader(s.rep, r)) \in Nat
      BY <3>3, AfterLongFacts
    <3> QED
      BY <3>2, <3>4 DEF AfterStructs
  <2> QED
    BY <2>5, <2>6 DEF text, r
<1>2. u.rep = s.rep
  BY DEF Near
<1>3. CASE s.rep = "XCDRv1"
  <2>1. SerializeHelloWorldTwo(u, data) = members(u)
    BY <1>2, <1>3 DEF SerializeHelloWorldTwo, PutStruct
  <2>2. HelloWorldTwoEnd(s.rep, p, data) = after(p)
    BY <1>3 DEF HelloWorldTwoEnd, AfterHeader, ChildSize
  <2>3. Reaches(s, members(u), after(p))
    BY <1>1
  <2> QED
    BY <2>1, <2>2, <2>3
<1>4. CASE s.rep = "XCDRv2"
  <2> DEFINE header == PutLong(u, 0)
             end == members(header)
             r == after(AfterLong(p))
  <2>1. Near(s, header, AfterLong(p)) /\ AfterLong(p) \in Nat
    BY PutLongReaches, AfterLongFacts DEF Reaches
  <2>2. Reaches(s, end, r) /\ r \in Nat
    <3> HIDE DEF header, members, after
    <3> QED
      BY <1>1, <2>1
  <2>3. SerializeHelloWorldTwo(u, data) =
          IF end.ok THEN [end EXCEPT !.buf[header.pos - 4].val = end.pos - header.pos] ELSE end
    BY <1>2, <1>4 DEF SerializeHelloWorldTwo, PutStruct
  <2>4. HelloWorldTwoEnd(s.rep, p, data) = r
    BY <1>4 DEF HelloWorldTwoEnd, AfterHeader, ChildSize
  <2> HIDE DEF end, r
  <2>5. Reaches(s, IF end.ok THEN [end EXCEPT !.buf[header.pos - 4].val = end.pos - header.pos] ELSE end, r)
    BY <2>2, HeaderReaches
  <2> QED
    BY <2>3, <2>4, <2>5
<1> QED
  BY <1>3, <1>4 DEF Representations
-----------------------------------------------------------------------------
\* serialize and getSerializedSizeProvider of the four types.

IsPayload(p) ==
  /\ p = [f \in {"data", "length", "max_size"} |-> p[f]]
  /\ p.max_size \in Nat /\ p.length \in 0..p.max_size

\* serialize wrote n bytes to the payload, or could not.
Wrote(result, p, n) ==
  /\ result.ok \in BOOLEAN
  /\ result.ok <=> n <= p.max_size
  /\ IsPayload(result.payload)
  /\ result.payload.max_size = p.max_size
  /\ result.ok => result.payload.length = n

\* A stream that reaches n makes a payload of n bytes.
LEMMA StreamToPayload ==
  ASSUME NEW p, IsPayload(p), NEW s, s.max = p.max_size, NEW w, NEW n \in Nat, Reaches(s, w, n)
  PROVE  Wrote([ok |-> w.ok,
                payload |-> [p EXCEPT !.data = w.buf, !.length = IF w.ok THEN w.pos ELSE @]], p, n)
<1> DEFINE q == [p EXCEPT !.data = w.buf, !.length = IF w.ok THEN w.pos ELSE @]
           result == [ok |-> w.ok, payload |-> q]
<1>1. w.ok \in BOOLEAN /\ (w.ok <=> n <= p.max_size)
  BY ReachesOk DEF IsPayload
<1>2. q = [f \in {"data", "length", "max_size"} |-> q[f]] /\ q.max_size = p.max_size
      /\ q.length = IF w.ok THEN w.pos ELSE p.length
  BY DEF IsPayload
<1>3. w.ok => w.pos = n
  BY DEF Reaches, Near
<1>4. result.ok = w.ok /\ result.payload = q
  OBVIOUS
<1> HIDE DEF q
<1>5. IsPayload(q)
  BY <1>1, <1>2, <1>3 DEF IsPayload
<1>6. w.ok => q.length = n
  BY <1>2, <1>3
<1> HIDE DEF result
<1>7. Wrote(result, p, n)
  <2>1. result.ok \in BOOLEAN /\ (result.ok <=> n <= p.max_size)
    BY <1>1, <1>4
  <2>2. IsPayload(result.payload) /\ result.payload.max_size = p.max_size
    BY <1>2, <1>4, <1>5
  <2>3. result.ok => result.payload.length = n
    BY <1>4, <1>6
  <2> QED
    BY <2>1, <2>2, <2>3 DEF Wrote
<1> QED
  BY <1>7 DEF result, q

\* The stream serialize starts with, before the encapsulation header.
NewStream(p, rep, object) ==
  [[buf |-> p.data, max |-> p.max_size, pos |-> 0, ok |-> TRUE,
    rep |-> "XCDRv2", obj |-> object, val |-> 0, more |-> TRUE] EXCEPT !.rep = rep]

\* After the encapsulation header it is at position 4.
LEMMA EncapsulationReaches ==
  ASSUME NEW p, IsPayload(p), NEW rep \in Representations, NEW object
  PROVE  LET s == NewStream(p, rep, object)
         IN s.max = p.max_size /\ s.rep = rep /\ Near(s, Put(s, Encapsulation, rep), 4)
<1> DEFINE s == NewStream(p, rep, object)
<1>1. s.max = p.max_size /\ s.rep = rep /\ s.pos = 0 /\ s.ok = TRUE
      /\ s = [f \in StreamFields |-> s[f]]
  BY DEF NewStream, StreamFields
<1> HIDE DEF s
<1>2. s.max \in Nat
  BY <1>1 DEF IsPayload
<1>3. Near(s, s, 0)
  <2>0. s.ok \in BOOLEAN
    BY <1>1, Zenon
  <2>1. s.pos \in Int
    BY <1>1
  <2>2. IsStream(s)
    BY <1>1, <1>2, <2>0, <2>1, Zenon DEF IsStream
  <2> QED
    BY <1>1, <2>2 DEF Near
<1>4. Reaches(s, Put(s, Encapsulation, rep), 0 + Alignment(0, 4) + 4)
  BY <1>2, <1>3, PutReaches DEF Encapsulation
<1>5. 0 + Alignment(0, 4) + 4 = 4
  BY DEF Alignment
<1> QED
  BY <1>1, <1>4, <1>5 DEF Reaches, s

\* The four sizes, from any aligned position on, and what they are.
LEMMA Shift ==
  ASSUME NEW rep \in Representations, NEW data
  PROVE  /\ DataBaseEnd(rep, 0, data) \in Nat
         /\ DataBaseEnd(rep, 4, data) = DataBaseEnd(rep, 0, data) + 4
         /\ ChildDataEnd(rep, 0, data) \in Nat
         /\ ChildDataEnd(rep, 4, data) = ChildDataEnd(rep, 0, data) + 4
         /\ data.points \in Nat =>
              /\ HelloWorldOneEnd(rep, 0, data) \in Nat
              /\ HelloWorldOneEnd(rep, 4, data) = HelloWorldOneEnd(rep, 0, data) + 4
  BY DEF DataBaseEnd, ChildDataEnd, HelloWorldOneEnd, AfterOctets, AfterHeader, AfterLong, Alignment,
         Representations

\* The same for HelloWorldTwo.
LEMMA ShiftTwo ==
  ASSUME NEW rep \in Representations, NEW data, data.message \in Nat,
         data.children \in Seq([baseId : Nat, childId : Nat])
  PROVE  /\ HelloWorldTwoEnd(rep, 0, data) \in Nat
         /\ HelloWorldTwoEnd(rep, 4, data) = HelloWorldTwoEnd(rep, 0, data) + 4
<1> DEFINE fixed(p) == AfterLong(AfterLong(AfterHeader(rep, p)))
           text(p) == AfterString(fixed(p), data.message)
           length(p) == AfterLong(AfterHeader(rep, text(p)))
           elements == Len(data.children) * ChildSize(rep)
<1>1. fixed(0) \in Nat /\ fixed(4) = fixed(0) + 4 /\ fixed(0) % 4 = 0
  BY DEF AfterHeader, AfterLong, Alignment, Representations
<1>2. text(0) \in Nat /\ text(4) = text(0) + 4
  <2>1. AfterLong(fixed(0)) \in Nat /\ AfterLong(fixed(4)) = AfterLong(fixed(0)) + 4
    <3> HIDE DEF fixed
    <3> QED
      BY <1>1, AfterLongFacts
  <2> DEFINE a == AfterLong(fixed(0))
             b == AfterLong(fixed(4))
  <2>2. text(0) = a + data.message + 1 /\ text(4) = b + data.message + 1
    BY DEF AfterString
  <2> HIDE DEF a, b, text
  <2> QED
    BY <2>1, <2>2 DEF a, b
<1>3. length(0) \in Nat /\ length(4) = length(0) + 4
  <2> HIDE DEF text
  <2>1. AfterHeader(rep, text(0)) \in Nat /\ AfterHeader(rep, text(4)) = AfterHeader(rep, text(0)) + 4
    BY <1>2, AfterLongFacts DEF AfterHeader
  <2> QED
    BY <2>1, AfterLongFacts
<1>4. elements \in Nat
  <2>1. ChildSize(rep) \in {8, 12} /\ Len(data.children) \in Nat
    BY ChildSizeIs
  <2> QED
    BY <2>1
<1>5. HelloWorldTwoEnd(rep, 0, data) = length(0) + elements
      /\ HelloWorldTwoEnd(rep, 4, data) = length(4) + elements
  BY DEF HelloWorldTwoEnd, AfterStructs, ChildSize
<1> HIDE DEF length, elements
<1> QED
  BY <1>3, <1>4, <1>5

\* For each type: what is written is what was asked for, or does not fit.
LEMMA SerializeWrites ==
  ASSUME NEW name \in TypeNames, NEW rep \in Representations, NEW p, IsPayload(p),
         NEW data \in Messages[name]
  PROVE  /\ SerializedSize(name, data, rep) \in Nat
         /\ Wrote(Serialize(name, data, p, rep), p, SerializedSize(name, data, rep))
<1>0. p.max_size \in Nat
  BY DEF IsPayload
<1>1. CASE name = "DataBase"
  <2> DEFINE s == NewStream(p, rep, DataBase)
             w == SerializeDataBase(Put(s, Encapsulation, rep), data)
             n == DataBaseEnd(rep, 0, data) + Encapsulation
  <2>1. n \in Nat /\ n = DataBaseEnd(rep, 4, data)
    BY Shift DEF Encapsulation
  <2>2. s.max = p.max_size /\ Reaches(s, w, n)
    BY <1>0, <2>1, EncapsulationReaches, DataBaseReaches
  <2>3. SerializedSize(name, data, rep) = n
    BY <1>1 DEF SerializedSize, DataBasePubSubType!getSerializedSizeProvider, DataBasePubSubType!Encapsulation, Encapsulation
  <2>4. Serialize(name, data, p, rep) =
          [ok |-> w.ok, payload |-> [p EXCEPT !.data = w.buf, !.length = IF w.ok THEN w.pos ELSE @]]
    BY <1>1 DEF Serialize, DataBasePubSubType!serialize, DataBasePubSubType!Stream, NewStream, Encapsulation, DataBasePubSubType!Encapsulation,
         Put, DataBasePubSubType!Put, Alignment, DataBasePubSubType!Alignment, Overwrite, DataBasePubSubType!Overwrite
  <2> HIDE DEF s, w, n
  <2>5. Wrote([ok |-> w.ok, payload |-> [p EXCEPT !.data = w.buf, !.length = IF w.ok THEN w.pos ELSE @]],
              p, n)
    BY <2>1, <2>2, StreamToPayload, Zenon
  <2> QED
    BY <2>1, <2>3, <2>4, <2>5, Zenon
<1>2. CASE name = "ChildData"
  <2> DEFINE s == NewStream(p, rep, ChildData)
             w == SerializeChildData(Put(s, Encapsulation, rep), data)
             n == ChildDataEnd(rep, 0, data) + Encapsulation
  <2>1. n \in Nat /\ n = ChildDataEnd(rep, 4, data)
    BY Shift DEF Encapsulation
  <2>2. s.max = p.max_size /\ Reaches(s, w, n)
    BY <1>0, <2>1, EncapsulationReaches, ChildDataReaches
  <2>3. SerializedSize(name, data, rep) = n
    BY <1>2 DEF SerializedSize, ChildDataPubSubType!getSerializedSizeProvider, ChildDataPubSubType!Encapsulation, Encapsulation
  <2>4. Serialize(name, data, p, rep) =
          [ok |-> w.ok, payload |-> [p EXCEPT !.data = w.buf, !.length = IF w.ok THEN w.pos ELSE @]]
    BY <1>2 DEF Serialize, ChildDataPubSubType!serialize, ChildDataPubSubType!Stream, NewStream, Encapsulation, ChildDataPubSubType!Encapsulation,
         Put, ChildDataPubSubType!Put, Alignment, ChildDataPubSubType!Alignment, Overwrite, ChildDataPubSubType!Overwrite
  <2> HIDE DEF s, w, n
  <2>5. Wrote([ok |-> w.ok, payload |-> [p EXCEPT !.data = w.buf, !.length = IF w.ok THEN w.pos ELSE @]],
              p, n)
    BY <2>1, <2>2, StreamToPayload, Zenon
  <2> QED
    BY <2>1, <2>3, <2>4, <2>5, Zenon
<1>3. CASE name = "HelloWorldOne"
  <2> DEFINE s == NewStream(p, rep, HelloWorldOne)
             w == SerializeHelloWorldOne(Put(s, Encapsulation, rep), data)
             n == HelloWorldOneEnd(rep, 0, data) + Encapsulation
  <2>0. data.points \in Nat
    BY <1>3, MessagesAssumption
  <2>1. n \in Nat /\ n = HelloWorldOneEnd(rep, 4, data)
    BY <2>0, Shift DEF Encapsulation
  <2>2. s.max = p.max_size /\ Reaches(s, w, n)
    BY <1>0, <2>0, <2>1, EncapsulationReaches, HelloWorldOneReaches
  <2>3. SerializedSize(name, data, rep) = n
    BY <1>3 DEF SerializedSize, HelloWorldOnePubSubType!getSerializedSizeProvider, HelloWorldOnePubSubType!Encapsulation, Encapsulation
  <2>4. Serialize(name, data, p, rep) =
          [ok |-> w.ok, payload |-> [p EXCEPT !.data = w.buf, !.length = IF w.ok THEN w.pos ELSE @]]
    BY <1>3 DEF Serialize, HelloWorldOnePubSubType!serialize, HelloWorldOnePubSubType!Stream, NewStream, Encapsulation, HelloWorldOnePubSubType!Encapsulation,
         Put, HelloWorldOnePubSubType!Put, Alignment, HelloWorldOnePubSubType!Alignment, Overwrite, HelloWorldOnePubSubType!Overwrite
  <2> HIDE DEF s, w, n
  <2>5. Wrote([ok |-> w.ok, payload |-> [p EXCEPT !.data = w.buf, !.length = IF w.ok THEN w.pos ELSE @]],
              p, n)
    BY <2>1, <2>2, StreamToPayload, Zenon
  <2> QED
    BY <2>1, <2>3, <2>4, <2>5, Zenon
<1>4. CASE name = "HelloWorldTwo"
  <2> DEFINE s == NewStream(p, rep, HelloWorldTwo)
             w == SerializeHelloWorldTwo(Put(s, Encapsulation, rep), data)
             n == HelloWorldTwoEnd(rep, 0, data) + Encapsulation
  <2>0. data.message \in Nat /\ data.children \in Seq([baseId : Nat, childId : Nat])
    BY <1>4, MessagesAssumption
  <2>1. n \in Nat /\ n = HelloWorldTwoEnd(rep, 4, data)
    BY <2>0, ShiftTwo DEF Encapsulation
  <2>2. s.max = p.max_size /\ Reaches(s, w, n)
    BY <1>0, <2>0, <2>1, EncapsulationReaches, HelloWorldTwoReaches
  <2>3. SerializedSize(name, data, rep) = n
    BY <1>4 DEF SerializedSize, HelloWorldTwoPubSubType!getSerializedSizeProvider, HelloWorldTwoPubSubType!Encapsulation, Encapsulation
  <2>4. Serialize(name, data, p, rep) =
          [ok |-> w.ok, payload |-> [p EXCEPT !.data = w.buf, !.length = IF w.ok THEN w.pos ELSE @]]
    BY <1>4 DEF Serialize, HelloWorldTwoPubSubType!serialize, HelloWorldTwoPubSubType!Stream, NewStream, Encapsulation, HelloWorldTwoPubSubType!Encapsulation,
         Put, HelloWorldTwoPubSubType!Put, Alignment, HelloWorldTwoPubSubType!Alignment, Overwrite, HelloWorldTwoPubSubType!Overwrite
  <2> HIDE DEF s, w, n
  <2>5. Wrote([ok |-> w.ok, payload |-> [p EXCEPT !.data = w.buf, !.length = IF w.ok THEN w.pos ELSE @]],
              p, n)
    BY <2>1, <2>2, StreamToPayload, Zenon
  <2> QED
    BY <2>1, <2>3, <2>4, <2>5, Zenon
<1> QED
  BY <1>1, <1>2, <1>3, <1>4 DEF TypeNames
-----------------------------------------------------------------------------
\* What a buffer holds.

Sizes == Nat \ {0}

\* A scalar v of n bytes, intact.
Holds(buf, at, n, v) == at \in DOMAIN buf /\ buf[at] = [size |-> n, val |-> v]

\* Writing from position p on leaves alone what ends before it, and new scalars
\* are behind it.
Beyond(old, new, p) ==
  /\ \A at \in Nat, n \in Sizes : \A v : Holds(old, at, n, v) /\ at + n <= p => Holds(new, at, n, v)
  /\ \A at \in DOMAIN new : at \in DOMAIN old \/ (at \in Nat /\ p <= at)

\* One writer after the other.
LEMMA BeyondBeyond ==
  ASSUME NEW a, NEW b, NEW c, NEW p \in Nat, NEW q \in Nat, p <= q,
         Beyond(a, b, p), Beyond(b, c, q)
  PROVE  Beyond(a, c, p)
<1>1. ASSUME NEW at \in Nat, NEW n \in Sizes, NEW v, Holds(a, at, n, v), at + n <= p
      PROVE  Holds(c, at, n, v)
  <2>1. at + n <= q
    BY <1>1 DEF Sizes
  <2> QED
    BY <1>1, <2>1 DEF Beyond
<1>2. ASSUME NEW at \in DOMAIN c
      PROVE  at \in DOMAIN a \/ (at \in Nat /\ p <= at)
  <2>1. at \in DOMAIN b \/ (at \in Nat /\ q <= at)
    BY DEF Beyond
  <2>2. at \in DOMAIN b => at \in DOMAIN a \/ (at \in Nat /\ p <= at)
    BY DEF Beyond
  <2> QED
    BY <2>1, <2>2
<1> QED
  BY <1>1, <1>2 DEF Beyond

\* One scalar more, of n bytes.
LEMMA PutWrites ==
  ASSUME NEW s, s.max \in Nat, NEW u, NEW p \in Nat, Near(s, u, p), NEW n \in Sizes, NEW v,
         Put(u, n, v).ok
  PROVE  /\ u.ok
         /\ Holds(Put(u, n, v).buf, p + Alignment(p, 4), n, v)
         /\ Beyond(u.buf, Put(u, n, v).buf, p)
<1> DEFINE at == p + Alignment(p, 4)
           w == Put(u, n, v)
           buf == Overwrite(u.buf, at, n, v)
           intact == {o \in DOMAIN u.buf : o + u.buf[o].size <= at \/ at + n <= o}
<1>1. u.ok /\ u.pos = p /\ w.buf = buf
  <2>1. IsStream(u)
    BY DEF Near
  <2>2. u.ok
    <3>1. [u EXCEPT !.ok = FALSE].ok = FALSE
      BY <2>1 DEF IsStream, StreamFields
    <3> QED
      BY <3>1 DEF Put
  <2>3. u.pos = p
    BY <2>2 DEF Near
  <2>4. w = [u EXCEPT !.pos = at + n, !.buf = buf] \/ w = [u EXCEPT !.ok = FALSE]
    BY <2>3 DEF Put
  <2>5. [u EXCEPT !.ok = FALSE].ok = FALSE
    BY <2>1 DEF IsStream, StreamFields
  <2>6. w = [u EXCEPT !.pos = at + n, !.buf = buf]
    BY <2>4, <2>5
  <2>7. "buf" \in DOMAIN u /\ "pos" \in DOMAIN u
    <3>1. u = [f \in StreamFields |-> u[f]]
      BY <2>1 DEF IsStream
    <3>2. DOMAIN u = StreamFields
      BY <3>1
    <3> QED
      BY <3>2 DEF StreamFields
  <2> HIDE DEF w, buf, at
  <2>8. w.buf = buf
    <3> DEFINE moved == [u EXCEPT !.pos = at + n]
    <3>1. w = [moved EXCEPT !.buf = buf]
      BY <2>6
    <3>2. "buf" \in DOMAIN moved
      BY <2>7
    <3> HIDE DEF moved
    <3> QED
      BY <3>1, <3>2
  <2> QED
    BY <2>2, <2>3, <2>8
<1>2. at \in Nat /\ p <= at
  <2>1. Alignment(p, 4) \in 0..3
    BY AlignmentFacts
  <2> QED
    BY <2>1
<1>3. buf = [o \in intact \cup {at} |-> IF o = at THEN [size |-> n, val |-> v] ELSE u.buf[o]]
  BY DEF Overwrite
<1> HIDE DEF at, buf
<1>4. Holds(buf, at, n, v)
  BY <1>3 DEF Holds
<1>5. ASSUME NEW o \in Nat, NEW k \in Sizes, NEW x, Holds(u.buf, o, k, x), o + k <= p
      PROVE  Holds(buf, o, k, x)
  <2>1. o # at
    BY <1>2, <1>5 DEF Sizes
  <2>2. o \in intact
    BY <1>2, <1>5 DEF Holds, Sizes
  <2> QED
    BY <1>3, <1>5, <2>1, <2>2 DEF Holds
<1>6. ASSUME NEW o \in DOMAIN buf
      PROVE  o \in DOMAIN u.buf \/ (o \in Nat /\ p <= o)
  BY <1>2, <1>3
<1> QED
  BY <1>1, <1>4, <1>5, <1>6 DEF Beyond, at

\* A long, at the next multiple of 4.
HoldsLong(buf, p, v) == Holds(buf, p + Alignment(p, 4), 4, v)

\* A long more.
LEMMA PutLongWrites ==
  ASSUME NEW s, s.max \in Nat, NEW u, NEW p \in Nat, Near(s, u, p), NEW v, PutLong(u, v).ok
  PROVE  /\ u.ok
         /\ HoldsLong(PutLong(u, v).buf, p, v)
         /\ Beyond(u.buf, PutLong(u, v).buf, p)
  BY PutWrites DEF PutLong, HoldsLong, Sizes

\* What is written before position q is there after a writer that starts at q.
LEMMA LongStays ==
  ASSUME NEW a, NEW b, NEW p \in Nat, NEW v, HoldsLong(a, p, v), NEW q \in Nat, AfterLong(p) <= q,
         Beyond(a, b, q)
  PROVE  HoldsLong(b, p, v)
<1>1. p + Alignment(p, 4) \in Nat /\ p + Alignment(p, 4) + 4 <= q /\ 4 \in Sizes
  BY AlignmentFacts DEF AfterLong, Sizes
<1> QED
  BY <1>1 DEF Beyond, HoldsLong

\* A scalar of n bytes behind a long.
LEMMA PutBlockWrites ==
  ASSUME NEW s, s.max \in Nat, NEW u, NEW p \in Nat, Near(s, u, p), NEW v,
         NEW n \in Sizes, NEW x, Put(PutLong(u, v), n, x).ok
  PROVE  /\ u.ok
         /\ HoldsLong(Put(PutLong(u, v), n, x).buf, p, v)
         /\ Holds(Put(PutLong(u, v), n, x).buf, AfterLong(p), n, x)
         /\ Beyond(u.buf, Put(PutLong(u, v), n, x).buf, p)
<1> DEFINE long == PutLong(u, v)
           w == Put(long, n, x)
<1>1. Near(s, long, AfterLong(p)) /\ AfterLong(p) \in Nat /\ p <= AfterLong(p)
      /\ Alignment(AfterLong(p), 4) = 0
  <2>1. Near(s, long, AfterLong(p))
    BY PutLongReaches DEF Reaches
  <2>2. AfterLong(p) \in Nat /\ p <= AfterLong(p) /\ Alignment(AfterLong(p), 4) = 0
    BY AfterLongFacts
  <2> QED
    BY <2>1, <2>2
<1>2. long.ok /\ Holds(w.buf, AfterLong(p) + Alignment(AfterLong(p), 4), n, x)
      /\ Beyond(long.buf, w.buf, AfterLong(p))
  <2>1. w.ok
    OBVIOUS
  <2> HIDE DEF long
  <2> QED
    BY <1>1, <2>1, PutWrites
<1>3. u.ok /\ HoldsLong(long.buf, p, v) /\ Beyond(u.buf, long.buf, p)
  BY <1>2, PutLongWrites
<1>4. AfterLong(p) + Alignment(AfterLong(p), 4) = AfterLong(p)
  BY <1>1
<1> HIDE DEF long, w
<1>5. HoldsLong(w.buf, p, v) /\ Beyond(u.buf, w.buf, p)
  BY <1>1, <1>2, <1>3, LongStays, BeyondBeyond
<1> QED
  BY <1>2, <1>3, <1>4, <1>5 DEF w, long

\* A text, of which only the length is told apart.
HoldsString(buf, p, n) == HoldsLong(buf, p, n + 1) /\ Holds(buf, AfterLong(p), n + 1, n)

\* A text more.
LEMMA PutStringWrites ==
  ASSUME NEW s, s.max \in Nat, NEW u, NEW p \in Nat, Near(s, u, p), NEW n \in Nat,
         PutString(u, n).ok
  PROVE  /\ u.ok
         /\ HoldsString(PutString(u, n).buf, p, n)
         /\ Beyond(u.buf, PutString(u, n).buf, p)
<1>1. n + 1 \in Sizes
  BY DEF Sizes
<1> QED
  BY <1>1, PutBlockWrites DEF PutString, HoldsString

\* A sequence of octets; nothing but its length, if there are none.
HoldsOctets(buf, p, n) == HoldsLong(buf, p, n) /\ (n # 0 => Holds(buf, AfterLong(p), n, n))

\* A sequence of octets more.
LEMMA PutOctetsWrites ==
  ASSUME NEW s, s.max \in Nat, NEW u, NEW p \in Nat, Near(s, u, p), NEW n \in Nat,
         PutOctets(u, n).ok
  PROVE  /\ u.ok
         /\ HoldsOctets(PutOctets(u, n).buf, p, n)
         /\ Beyond(u.buf, PutOctets(u, n).buf, p)
<1>1. CASE n = 0
  BY <1>1, PutLongWrites DEF PutOctets, HoldsOctets
<1>2. CASE n # 0
  <2>1. n \in Sizes
    BY <1>2 DEF Sizes
  <2> QED
    BY <1>2, <2>1, PutBlockWrites DEF PutOctets, HoldsOctets
<1> QED
  BY <1>1, <1>2

\* From position p on, b has what a has.
Keeps(a, b, p) == \A at \in Nat : \A n, v : p <= at /\ Holds(a, at, n, v) => Holds(b, at, n, v)

\* The members of a struct, and the header with their size.
LEMMA StructWrites ==
  ASSUME NEW s, s.max \in Nat, NEW u, NEW p \in Nat, Near(s, u, p), PutLong(u, 0).ok,
         NEW end, NEW e, Near(s, end, e), end.ok, Beyond(PutLong(u, 0).buf, end.buf, AfterLong(p)),
         NEW w, w = [end EXCEPT !.buf[PutLong(u, 0).pos - 4].val = end.pos - PutLong(u, 0).pos]
  PROVE  /\ u.ok
         /\ HoldsLong(w.buf, p, e - AfterLong(p))
         /\ Beyond(u.buf, w.buf, p)
         /\ Keeps(end.buf, w.buf, AfterLong(p))
<1> DEFINE header == PutLong(u, 0)
           at == p + Alignment(p, 4)
<1>1. u.ok /\ HoldsLong(header.buf, p, 0) /\ Beyond(u.buf, header.buf, p)
  BY PutLongWrites
<1>2. header.pos = AfterLong(p)
  BY PutLongReaches DEF Reaches, Near
<1>3. AfterLong(p) \in Nat /\ AfterLong(p) = at + 4 /\ at \in Nat /\ p <= at
  <2>1. Alignment(p, 4) \in 0..3
    BY AlignmentFacts
  <2> QED
    BY <2>1 DEF AfterLong
<1>4. IsStream(end) /\ end.pos = e
  BY DEF Near
<1>5. w = [end EXCEPT !.buf[AfterLong(p) - 4].val = e - AfterLong(p)]
  BY <1>2, <1>4
<1>6. Beyond(header.buf, end.buf, AfterLong(p))
  OBVIOUS
<1> HIDE DEF header
<1>7. HoldsLong(end.buf, p, 0)
  BY <1>1, <1>3, <1>6, LongStays
<1>8. /\ HoldsLong(w.buf, p, e - AfterLong(p))
      /\ \A o, n, v : o # at /\ Holds(end.buf, o, n, v) => Holds(w.buf, o, n, v)
      /\ DOMAIN w.buf = DOMAIN end.buf
  <2> DEFINE size == e - AfterLong(p)
             buf == w.buf
  <2>1. AfterLong(p) - 4 = at
    BY <1>3
  <2>2. w = [end EXCEPT !.buf[at].val = size]
    BY <1>5, <2>1
  <2>3. buf = [end.buf EXCEPT ![at].val = size]
    BY <1>4, <2>2 DEF IsStream, StreamFields
  <2>4. at \in DOMAIN end.buf /\ end.buf[at] = [size |-> 4, val |-> 0]
    BY <1>7 DEF HoldsLong, Holds
  <2> HIDE DEF buf, at, size
  <2>5. DOMAIN buf = DOMAIN end.buf /\ \A o \in DOMAIN end.buf : o # at => buf[o] = end.buf[o]
    BY <2>3
  <2>6. buf[at] = [size |-> 4, val |-> size]
    BY <2>3, <2>4
  <2>7. Holds(buf, at, 4, size)
    BY <2>4, <2>5, <2>6 DEF Holds
  <2>8. \A o, n, v : o # at /\ Holds(end.buf, o, n, v) => Holds(buf, o, n, v)
    BY <2>5 DEF Holds
  <2> QED
    BY <2>5, <2>7, <2>8 DEF buf, at, size, HoldsLong
<1>9. Beyond(u.buf, end.buf, p)
  BY <1>1, <1>3, <1>6, BeyondBeyond
<1>10. \A o \in Nat, n \in Sizes : o + n <= p => o # at
  BY <1>3 DEF Sizes
<1>11. \A o \in Nat : AfterLong(p) <= o => o # at
  BY <1>3
<1>12. Beyond(u.buf, w.buf, p)
  BY <1>8, <1>9, <1>10 DEF Beyond
<1>13. Keeps(end.buf, w.buf, AfterLong(p))
  BY <1>8, <1>11 DEF Keeps
<1> QED
  BY <1>1, <1>8, <1>12, <1>13

\* A long that is kept.
LEMMA LongKept ==
  ASSUME NEW a, NEW b, NEW p \in Nat, Keeps(a, b, p), NEW q \in Nat, p <= q, NEW v, HoldsLong(a, q, v)
  PROVE  HoldsLong(b, q, v)
<1>1. q + Alignment(q, 4) \in Nat /\ p <= q + Alignment(q, 4)
  <2>1. Alignment(q, 4) \in 0..3
    BY AlignmentFacts
  <2> QED
    BY <2>1
<1> QED
  BY <1>1 DEF Keeps, HoldsLong
-----------------------------------------------------------------------------
\* The four types in a buffer, from position p on.

\* A header with the size of what follows, in XCDRv2.
HoldsHeader(buf, rep, p, end) ==
  rep = "XCDRv2" => HoldsLong(buf, p, end - AfterLong(p))

HoldsDataBase(buf, rep, p, data) ==
  /\ HoldsHeader(buf, rep, p, DataBaseEnd(rep, p, data))
  /\ HoldsLong(buf, AfterHeader(rep, p), data.baseId)

HoldsChildData(buf, rep, p, data) ==
  /\ HoldsHeader(buf, rep, p, ChildDataEnd(rep, p, data))
  /\ HoldsLong(buf, AfterHeader(rep, p), data.baseId)
  /\ HoldsLong(buf, AfterLong(AfterHeader(rep, p)), data.childId)

HoldsHelloWorldOne(buf, rep, p, data) ==
  /\ HoldsHeader(buf, rep, p, HelloWorldOneEnd(rep, p, data))
  /\ HoldsLong(buf, AfterHeader(rep, p), data.index)
  /\ HoldsOctets(buf, AfterLong(AfterHeader(rep, p)), data.points)

\* DataBase: its long.
LEMMA DataBaseWrites ==
  ASSUME NEW s, s.max \in Nat, s.rep \in Representations,
         NEW u, NEW p \in Nat, Near(s, u, p), NEW data, SerializeDataBase(u, data).ok
  PROVE  /\ u.ok
         /\ HoldsDataBase(SerializeDataBase(u, data).buf, s.rep, p, data)
         /\ Beyond(u.buf, SerializeDataBase(u, data).buf, p)
<1>1. u.rep = s.rep
  BY DEF Near
<1>2. CASE s.rep = "XCDRv1"
  <2>1. SerializeDataBase(u, data) = PutLong(u, data.baseId)
    BY <1>1, <1>2 DEF SerializeDataBase, PutStruct
  <2> QED
    BY <1>2, <2>1, PutLongWrites DEF HoldsDataBase, HoldsHeader, AfterHeader
<1>3. CASE s.rep = "XCDRv2"
  <2> DEFINE header == PutLong(u, 0)
             end == PutLong(header, data.baseId)
             full == [end EXCEPT !.buf[header.pos - 4].val = end.pos - header.pos]
             w == SerializeDataBase(u, data)
             q == AfterLong(p)
  <2>1. w = IF end.ok THEN full ELSE end
    BY <1>1, <1>3 DEF SerializeDataBase, PutStruct
  <2>2. end.ok /\ w = full
    BY <2>1
  <2>3. Near(s, header, q) /\ q \in Nat
    BY PutLongReaches, AfterLongFacts DEF Reaches
  <2>4. header.ok /\ HoldsLong(end.buf, q, data.baseId) /\ Beyond(header.buf, end.buf, q)
    <3> HIDE DEF header
    <3> QED
      BY <2>2, <2>3, PutLongWrites
  <2>5. Near(s, end, AfterLong(q))
    BY <2>3, PutLongReaches DEF Reaches
  <2> HIDE DEF w, end
  <2>6. /\ u.ok /\ HoldsLong(w.buf, p, AfterLong(q) - q)
        /\ Beyond(u.buf, w.buf, p) /\ Keeps(end.buf, w.buf, q)
    BY <2>2, <2>4, <2>5, StructWrites
  <2>7. HoldsLong(w.buf, q, data.baseId)
    BY <2>3, <2>4, <2>6, LongKept
  <2>8. AfterHeader(s.rep, p) = q /\ DataBaseEnd(s.rep, p, data) = AfterLong(q)
    BY <1>3 DEF AfterHeader, DataBaseEnd
  <2>9. HoldsDataBase(w.buf, s.rep, p, data)
    BY <2>6, <2>7, <2>8 DEF HoldsDataBase, HoldsHeader
  <2> QED
    BY <2>6, <2>9 DEF w
<1> QED
  BY <1>2, <1>3 DEF Representations

\* ChildData: its two longs.
LEMMA ChildDataWrites ==
  ASSUME NEW s, s.max \in Nat, s.rep \in Representations,
         NEW u, NEW p \in Nat, Near(s, u, p), NEW data, SerializeChildData(u, data).ok
  PROVE  /\ u.ok
         /\ HoldsChildData(SerializeChildData(u, data).buf, s.rep, p, data)
         /\ Beyond(u.buf, SerializeChildData(u, data).buf, p)
<1> DEFINE members(v) == PutLong(PutLong(v, data.baseId), data.childId)
<1>1. u.rep = s.rep
  BY DEF Near
<1>2. ASSUME NEW v, NEW q \in Nat, Near(s, v, q), members(v).ok
      PROVE  /\ v.ok
             /\ HoldsLong(members(v).buf, q, data.baseId)
             /\ HoldsLong(members(v).buf, AfterLong(q), data.childId)
             /\ Beyond(v.buf, members(v).buf, q)
             /\ Near(s, members(v), AfterLong(AfterLong(q)))
  <2> DEFINE x == PutLong(v, data.baseId)
             y == PutLong(x, data.childId)
             r == AfterLong(q)
  <2>1. Near(s, x, r) /\ r \in Nat /\ q <= r
    <3>1. Near(s, x, r)
      BY <1>2, PutLongReaches DEF Reaches
    <3>2. AfterLong(q) \in Nat /\ AfterLong(q) >= q + 4
      BY AfterLongFacts
    <3>3. r \in Nat /\ q <= r
      BY <3>2
    <3> QED
      BY <3>1, <3>3
  <2>2. y.ok
    BY <1>2
  <2>3. x.ok /\ HoldsLong(y.buf, r, data.childId) /\ Beyond(x.buf, y.buf, r)
        /\ Near(s, y, AfterLong(r))
    <3> HIDE DEF x, r
    <3> QED
      BY <2>1, <2>2, PutLongWrites, PutLongReaches DEF Reaches
  <2>4. v.ok /\ HoldsLong(x.buf, q, data.baseId) /\ Beyond(v.buf, x.buf, q)
    BY <1>2, <2>3, PutLongWrites
  <2>5. members(v) = y
    OBVIOUS
  <2> HIDE DEF x, y, members
  <2>6. HoldsLong(y.buf, q, data.baseId) /\ Beyond(v.buf, y.buf, q)
    BY <2>1, <2>3, <2>4, LongStays, BeyondBeyond
  <2> QED
    BY <2>3, <2>4, <2>5, <2>6
<1>3. CASE s.rep = "XCDRv1"
  <2>1. SerializeChildData(u, data) = members(u)
    BY <1>1, <1>3 DEF SerializeChildData, PutStruct
  <2> HIDE DEF members
  <2> QED
    BY <1>2, <1>3, <2>1 DEF HoldsChildData, HoldsHeader, AfterHeader
<1>4. CASE s.rep = "XCDRv2"
  <2> DEFINE header == PutLong(u, 0)
             end == members(header)
             full == [end EXCEPT !.buf[header.pos - 4].val = end.pos - header.pos]
             w == SerializeChildData(u, data)
             q == AfterLong(p)
             e == AfterLong(AfterLong(q))
  <2>1. w = IF end.ok THEN full ELSE end
    BY <1>1, <1>4 DEF SerializeChildData, PutStruct
  <2>2. end.ok /\ w = full
    BY <2>1
  <2>3. Near(s, header, q) /\ q \in Nat
    BY PutLongReaches, AfterLongFacts DEF Reaches
  <2>4. /\ header.ok /\ Beyond(header.buf, end.buf, q) /\ Near(s, end, e)
        /\ HoldsLong(end.buf, q, data.baseId) /\ HoldsLong(end.buf, AfterLong(q), data.childId)
    <3> HIDE DEF header, members
    <3> QED
      BY <1>2, <2>2, <2>3
  <2> HIDE DEF w, end
  <2>5. /\ u.ok /\ HoldsLong(w.buf, p, e - q)
        /\ Beyond(u.buf, w.buf, p) /\ Keeps(end.buf, w.buf, q)
    BY <2>2, <2>4, StructWrites
  <2>6. HoldsLong(w.buf, q, data.baseId) /\ HoldsLong(w.buf, AfterLong(q), data.childId)
    <3>1. AfterLong(q) \in Nat /\ q <= AfterLong(q)
      BY <2>3, AfterLongFacts
    <3> QED
      BY <2>3, <2>4, <2>5, <3>1, LongKept
  <2>7. AfterHeader(s.rep, p) = q /\ ChildDataEnd(s.rep, p, data) = e
    BY <1>4 DEF AfterHeader, ChildDataEnd
  <2>8. HoldsChildData(w.buf, s.rep, p, data)
    BY <2>5, <2>6, <2>7 DEF HoldsChildData, HoldsHeader
  <2> QED
    BY <2>5, <2>8 DEF w
<1> QED
  BY <1>3, <1>4 DEF Representations

\* An octet sequence that is kept, by what is written behind it or by its header.
LEMMA OctetsKept ==
  ASSUME NEW a, NEW b, NEW p \in Nat, Keeps(a, b, p), NEW q \in Nat, p <= q, NEW n,
         HoldsOctets(a, q, n)
  PROVE  HoldsOctets(b, q, n)
<1>1. HoldsLong(b, q, n)
  BY LongKept DEF HoldsOctets
<1>2. AfterLong(q) \in Nat /\ AfterLong(q) >= q + 4
  BY AfterLongFacts
<1>3. p <= AfterLong(q)
  BY <1>2
<1> QED
  BY <1>1, <1>2, <1>3 DEF HoldsOctets, Keeps

\* HelloWorldOne: a long and the octets.
LEMMA HelloWorldOneWrites ==
  ASSUME NEW s, s.max \in Nat, s.rep \in Representations,
         NEW u, NEW p \in Nat, Near(s, u, p), NEW data, data.points \in Nat,
         SerializeHelloWorldOne(u, data).ok
  PROVE  /\ u.ok
         /\ HoldsHelloWorldOne(SerializeHelloWorldOne(u, data).buf, s.rep, p, data)
         /\ Beyond(u.buf, SerializeHelloWorldOne(u, data).buf, p)
<1> DEFINE members(v) == PutOctets(PutLong(v, data.index), data.points)
           after(q) == AfterOctets(AfterLong(q), data.points)
<1>1. u.rep = s.rep
  BY DEF Near
<1>2. ASSUME NEW v, NEW q \in Nat, Near(s, v, q), members(v).ok
      PROVE  /\ v.ok
             /\ HoldsLong(members(v).buf, q, data.index)
             /\ HoldsOctets(members(v).buf, AfterLong(q), data.points)
             /\ Beyond(v.buf, members(v).buf, q)
             /\ Near(s, members(v), after(q))
  <2> DEFINE x == PutLong(v, data.index)
             y == PutOctets(x, data.points)
             r == AfterLong(q)
  <2>1. Near(s, x, r) /\ r \in Nat /\ q <= r
    <3>1. Near(s, x, r)
      BY <1>2, PutLongReaches DEF Reaches
    <3>2. AfterLong(q) \in Nat /\ AfterLong(q) >= q + 4
      BY AfterLongFacts
    <3>3. r \in Nat /\ q <= r
      BY <3>2
    <3> QED
      BY <3>1, <3>3
  <2>2. y.ok
    BY <1>2
  <2>3. x.ok /\ HoldsOctets(y.buf, r, data.points) /\ Beyond(x.buf, y.buf, r)
        /\ Near(s, y, AfterOctets(r, data.points))
    <3> HIDE DEF x, r
    <3> QED
      BY <2>1, <2>2, PutOctetsWrites, PutOctetsReaches DEF Reaches
  <2>4. v.ok /\ HoldsLong(x.buf, q, data.index) /\ Beyond(v.buf, x.buf, q)
    BY <1>2, <2>3, PutLongWrites
  <2>5. members(v) = y
    OBVIOUS
  <2> HIDE DEF x, y, members
  <2>6. HoldsLong(y.buf, q, data.index) /\ Beyond(v.buf, y.buf, q)
    BY <2>1, <2>3, <2>4, LongStays, BeyondBeyond
  <2> QED
    BY <2>3, <2>4, <2>5, <2>6
<1>3. CASE s.rep = "XCDRv1"
  <2>1. SerializeHelloWorldOne(u, data) = members(u)
    BY <1>1, <1>3 DEF SerializeHelloWorldOne, PutStruct
  <2> HIDE DEF members
  <2> QED
    BY <1>2, <1>3, <2>1 DEF HoldsHelloWorldOne, HoldsHeader, AfterHeader
<1>4. CASE s.rep = "XCDRv2"
  <2> DEFINE header == PutLong(u, 0)
             end == members(header)
             full == [end EXCEPT !.buf[header.pos - 4].val = end.pos - header.pos]
             w == SerializeHelloWorldOne(u, data)
             q == AfterLong(p)
             e == after(q)
  <2>1. w = IF end.ok THEN full ELSE end
    BY <1>1, <1>4 DEF SerializeHelloWorldOne, PutStruct
  <2>2. end.ok /\ w = full
    BY <2>1
  <2>3. Near(s, header, q) /\ q \in Nat
    BY PutLongReaches, AfterLongFacts DEF Reaches
  <2>4. /\ header.ok /\ Beyond(header.buf, end.buf, q) /\ Near(s, end, e)
        /\ HoldsLong(end.buf, q, data.index) /\ HoldsOctets(end.buf, AfterLong(q), data.points)
    <3> HIDE DEF header, members, after
    <3> QED
      BY <1>2, <2>2, <2>3
  <2> HIDE DEF w, end, e
  <2>5. /\ u.ok /\ HoldsLong(w.buf, p, e - q)
        /\ Beyond(u.buf, w.buf, p) /\ Keeps(end.buf, w.buf, q)
    BY <2>2, <2>4, StructWrites
  <2>6. HoldsLong(w.buf, q, data.index) /\ HoldsOctets(w.buf, AfterLong(q), data.points)
    <3>1. AfterLong(q) \in Nat /\ q <= AfterLong(q)
      BY <2>3, AfterLongFacts
    <3> QED
      BY <2>3, <2>4, <2>5, <3>1, LongKept, OctetsKept
  <2>7. AfterHeader(s.rep, p) = q /\ HelloWorldOneEnd(s.rep, p, data) = e
    BY <1>4 DEF AfterHeader, HelloWorldOneEnd, e
  <2>8. HoldsHelloWorldOne(w.buf, s.rep, p, data)
    BY <2>5, <2>6, <2>7 DEF HoldsHelloWorldOne, HoldsHeader
  <2> QED
    BY <2>5, <2>8 DEF w
<1> QED
  BY <1>3, <1>4 DEF Representations
-----------------------------------------------------------------------------
\* The sequence of ChildData.

\* The elements of q, one behind the other.
HoldsElements(buf, rep, p, q) ==
  \A i \in DOMAIN q : HoldsChildData(buf, rep, p + (i - 1) * ChildSize(rep), q[i])

\* Where element i starts, and to which element a position belongs.
LEMMA ElementPositions ==
  ASSUME NEW rep \in Representations, NEW p \in Nat, p % 4 = 0, NEW n \in Nat, NEW i \in 1..n
  PROVE  /\ (i - 1) * ChildSize(rep) \in Nat
         /\ p + (i - 1) * ChildSize(rep) \in Nat
         /\ (p + (i - 1) * ChildSize(rep)) % 4 = 0
         /\ p + (i - 1) * ChildSize(rep) + ChildSize(rep) <= p + n * ChildSize(rep)
         /\ \A o \in Nat :
              /\ p + (i - 1) * ChildSize(rep) <= o
              /\ o < p + (i - 1) * ChildSize(rep) + ChildSize(rep)
              => ((o - p) \div ChildSize(rep)) + 1 = i
<1>1. CASE ChildSize(rep) = 8
  BY <1>1
<1>2. CASE ChildSize(rep) = 12
  BY <1>2
<1> QED
  BY <1>1, <1>2, ChildSizeIs

\* An element that is copied.
LEMMA ChildDataCopied ==
  ASSUME NEW rep \in Representations, NEW a, NEW b, NEW p \in Nat, p % 4 = 0, NEW data,
         HoldsChildData(a, rep, p, data),
         \A o \in Nat : \A n, v : p <= o /\ o < p + ChildSize(rep) /\ Holds(a, o, n, v) => Holds(b, o, n, v)
  PROVE  HoldsChildData(b, rep, p, data)
<1>1. ASSUME NEW o \in Nat, o % 4 = 0, NEW v, HoldsLong(a, o, v), p <= o, o < p + ChildSize(rep)
      PROVE  HoldsLong(b, o, v)
  <2>1. o + Alignment(o, 4) = o
    BY <1>1, AlignmentFacts
  <2> QED
    BY <1>1, <2>1 DEF HoldsLong
<1>2. AfterLong(p) = p + 4
  BY AfterLongFacts
<1>3. (p + 4) \in Nat /\ (p + 4) % 4 = 0 /\ (p + 8) \in Nat /\ (p + 8) % 4 = 0
  OBVIOUS
<1>4. AfterLong(p + 4) = p + 8
  BY <1>3, AfterLongFacts
<1>5. CASE rep = "XCDRv1"
  <2>1. ChildSize(rep) = 8 /\ AfterHeader(rep, p) = p
    BY <1>5, ChildSizeFacts DEF AfterHeader
  <2>2. HoldsLong(a, p, data.baseId) /\ HoldsLong(a, p + 4, data.childId)
    BY <1>2, <2>1 DEF HoldsChildData
  <2>3. HoldsLong(b, p, data.baseId)
    BY <1>1, <2>1, <2>2
  <2>4. HoldsLong(b, p + 4, data.childId)
    BY <1>1, <1>3, <2>1, <2>2
  <2> QED
    BY <1>2, <1>5, <2>1, <2>3, <2>4 DEF HoldsChildData, HoldsHeader
<1>6. CASE rep = "XCDRv2"
  <2>1. ChildSize(rep) = 12 /\ AfterHeader(rep, p) = p + 4
    BY <1>2, <1>6, ChildSizeFacts DEF AfterHeader
  <2> DEFINE size == ChildDataEnd(rep, p, data) - AfterLong(p)
  <2>2. HoldsLong(a, p, size) /\ HoldsLong(a, p + 4, data.baseId) /\ HoldsLong(a, p + 8, data.childId)
    BY <1>4, <1>6, <2>1 DEF HoldsChildData, HoldsHeader
  <2> HIDE DEF size
  <2>3. HoldsLong(b, p, size)
    BY <1>1, <2>1, <2>2
  <2>4. HoldsLong(b, p + 4, data.baseId)
    BY <1>1, <1>3, <2>1, <2>2
  <2>5. HoldsLong(b, p + 8, data.childId)
    BY <1>1, <1>3, <2>1, <2>2
  <2> QED
    BY <1>4, <2>1, <2>3, <2>4, <2>5 DEF HoldsChildData, HoldsHeader, size
<1> QED
  BY <1>5, <1>6 DEF Representations

\* All elements, each where it belongs.
LEMMA ElementsWrite ==
  ASSUME NEW s, s.max \in Nat, s.rep \in Representations,
         NEW u, NEW p \in Nat, p % 4 = 0, Reaches(s, u, p),
         NEW q \in Seq([baseId : Nat, childId : Nat]), Elements(u, q).ok
  PROVE  /\ u.ok
         /\ HoldsElements(Elements(u, q).buf, s.rep, p, q)
         /\ Beyond(u.buf, Elements(u, q).buf, p)
<1> DEFINE w == Elements(u, q)
           e == SerializeChildData(u, q[1])
           size == Taken(u, e)
           size0 == ChildSize(s.rep)
           element == [i \in DOMAIN q |-> SerializeChildData(At(u, i, size), q[i])]
           allOk == \A i \in DOMAIN q : element[i].ok
           written == UNION {DOMAIN element[i].buf : i \in DOMAIN q}
           intact == {o \in DOMAIN u.buf : o + u.buf[o].size <= u.pos \/ u.pos + Len(q) * size <= o}
           buf == [o \in intact \cup written |->
                     IF o \in written THEN element[((o - u.pos) \div size) + 1].buf[o] ELSE u.buf[o]]
<1>1. Len(q) \in Nat /\ DOMAIN q = 1..Len(q) /\ (q # <<>> => Len(q) >= 1)
  OBVIOUS
<1>2. Near(s, u, p)
  BY DEF Reaches
<1>3. CASE q = <<>>
  <2>1. w = u
    BY <1>3 DEF Elements
  <2>2. u.ok
    BY <2>1
  <2>3. HoldsElements(u.buf, s.rep, p, q)
    BY <1>3 DEF HoldsElements
  <2>4. Beyond(u.buf, u.buf, p)
    BY DEF Beyond
  <2> HIDE DEF w
  <2> QED
    BY <2>1, <2>2, <2>3, <2>4 DEF w
<1>4. CASE ~u.ok
  <2>1. w = u
    BY <1>4 DEF Elements
  <2> QED
    BY <1>4, <2>1
<1>5. CASE q # <<>> /\ u.ok
  <2>1. u.pos = p /\ IsStream(u)
    BY <1>2, <1>5 DEF Near
  <2>2. w.buf = buf /\ w.ok = allOk
    <3>1. w = [u EXCEPT !.pos = @ + Len(q) * size, !.buf = buf, !.ok = allOk]
      BY <1>5 DEF Elements, At
    <3>2. "buf" \in DOMAIN u /\ "ok" \in DOMAIN u
      <4>1. u = [f \in StreamFields |-> u[f]]
        BY <2>1 DEF IsStream
      <4>2. DOMAIN u = StreamFields
        BY <4>1
      <4> QED
        BY <4>2 DEF StreamFields
    <3> DEFINE moved == [u EXCEPT !.pos = @ + Len(q) * size]
               filled == [moved EXCEPT !.buf = buf]
    <3> HIDE DEF w, buf, allOk, size
    <3>3. w = [filled EXCEPT !.ok = allOk]
      BY <3>1
    <3>4. "buf" \in DOMAIN moved /\ "ok" \in DOMAIN moved
      BY <3>2
    <3> HIDE DEF moved
    <3>5. "buf" \in DOMAIN filled /\ "ok" \in DOMAIN filled /\ filled.buf = buf
      BY <3>4
    <3> HIDE DEF filled
    <3> QED
      BY <3>3, <3>5
  <2>3. size = size0 /\ size0 \in {8, 12}
    <3>1. Reaches(s, w, p + Len(q) * size0)
      BY ElementsReach
    <3>2. p + Len(q) * size0 <= s.max
      <4> HIDE DEF size0
      <4> QED
        BY <3>1 DEF Reaches
    <3>3. size0 \in {8, 12}
      BY ChildSizeIs
    <3>4. p + size0 <= s.max
      <4> HIDE DEF size0
      <4> QED
        BY <1>1, <1>5, <3>2, <3>3
    <3>5. Near(s, e, p + size0)
      <4>1. Reaches(s, e, ChildDataEnd(s.rep, p, q[1]))
        BY <1>2, ChildDataReaches
      <4> QED
        BY <4>1, ChildSizeFacts DEF Reaches
    <3> HIDE DEF e, size0
    <3>6. e.pos = p + size0
      BY <3>3, <3>4, <3>5 DEF Near, IsStream
    <3> QED
      BY <2>1, <3>3, <3>6 DEF Taken
  <2> DEFINE start(i) == p + (i - 1) * size0
  <2>4. ASSUME NEW i \in DOMAIN q
        PROVE  /\ HoldsChildData(element[i].buf, s.rep, start(i), q[i])
               /\ \A o \in DOMAIN element[i].buf : o \in Nat /\ start(i) <= o
    <3> DEFINE d == (i - 1) * size0
               v == At(u, i, size)
    <3>1. d \in Nat /\ start(i) \in Nat
      BY <1>1, ElementPositions
    <3>2. Near(s, v, start(i))
      <4>1. (i - 1) * size = d
        BY <2>3
      <4> HIDE DEF size, d
      <4>2. Near(s, At(u, i, size), p + d)
        BY <1>2, <1>5, <3>1, <4>1, AtIsNear
      <4> QED
        BY <4>2 DEF d
    <3>3. element[i] = SerializeChildData(v, q[i]) /\ element[i].ok
      <4>1. element[i] = SerializeChildData(v, q[i])
        OBVIOUS
      <4>2. allOk
        BY <2>2
      <4> QED
        BY <4>1, <4>2
    <3>4. v.buf = <<>>
      <4>1. u = [f \in StreamFields |-> u[f]]
        BY <2>1 DEF IsStream
      <4> HIDE DEF size
      <4>2. v = [u EXCEPT !.pos = @ + (i - 1) * size, !.buf = <<>>]
        BY DEF At
      <4> QED
        BY <4>1, <4>2 DEF StreamFields
    <3> DEFINE x == element[i]
    <3> HIDE DEF v, element, start
    <3>5. HoldsChildData(x.buf, s.rep, start(i), q[i]) /\ Beyond(v.buf, x.buf, start(i))
      BY <3>1, <3>2, <3>3, ChildDataWrites
    <3>6. \A o \in DOMAIN x.buf : o \in Nat /\ start(i) <= o
      BY <3>4, <3>5 DEF Beyond
    <3> QED
      BY <3>5, <3>6
  <2>5. buf = [o \in intact \cup written |->
                 IF o \in written THEN element[((o - p) \div size0) + 1].buf[o] ELSE u.buf[o]]
    BY <2>1, <2>3
  <2>6. intact = {o \in DOMAIN u.buf : o + u.buf[o].size <= p \/ p + Len(q) * size0 <= o}
    BY <2>1, <2>3
  <2> HIDE DEF size, element, buf
  <2>7. \A i \in DOMAIN q : start(i) \in Nat /\ p <= start(i) /\ start(i) % 4 = 0
    <3>1. ASSUME NEW i \in DOMAIN q
          PROVE  start(i) \in Nat /\ p <= start(i) /\ start(i) % 4 = 0
      <4> DEFINE d == (i - 1) * size0
      <4>1. d \in Nat /\ p + d \in Nat /\ (p + d) % 4 = 0
        BY <1>1, ElementPositions
      <4> HIDE DEF d, size0
      <4>2. p <= p + d
        BY <4>1
      <4> QED
        BY <4>1, <4>2 DEF d
    <3> QED
      BY <3>1
  <2>8. \A o \in written : o \in Nat /\ p <= o
    <3>1. ASSUME NEW i \in DOMAIN q, NEW o \in DOMAIN element[i].buf
          PROVE  o \in Nat /\ p <= o
      <4> HIDE DEF start
      <4>1. o \in Nat /\ start(i) <= o /\ start(i) \in Nat /\ p <= start(i)
        BY <2>4, <2>7
      <4> QED
        BY <4>1
    <3> QED
      BY <3>1
  <2>9. Beyond(u.buf, buf, p)
    <3>1. ASSUME NEW o \in Nat, NEW n \in Sizes, NEW v, Holds(u.buf, o, n, v), o + n <= p
          PROVE  Holds(buf, o, n, v)
      <4>1. o \notin written
        <5>1. ~(p <= o)
          BY <3>1 DEF Sizes
        <5> HIDE DEF written
        <5> QED
          BY <2>8, <5>1
      <4>2. o \in intact
        BY <2>6, <3>1 DEF Holds
      <4> HIDE DEF written, intact
      <4> QED
        BY <2>5, <3>1, <4>1, <4>2 DEF Holds
    <3>2. ASSUME NEW o \in DOMAIN buf
          PROVE  o \in DOMAIN u.buf \/ (o \in Nat /\ p <= o)
      BY <2>5, <2>8
    <3> QED
      BY <3>1, <3>2 DEF Beyond
  <2>10. ASSUME NEW i \in DOMAIN q
         PROVE  HoldsChildData(buf, s.rep, start(i), q[i])
    <3>1. ASSUME NEW o \in Nat, NEW n, NEW v, start(i) <= o, o < start(i) + size0,
                 Holds(element[i].buf, o, n, v)
          PROVE  Holds(buf, o, n, v)
      <4>1. o \in written
        BY <3>1 DEF Holds
      <4>2. ((o - p) \div size0) + 1 = i
        BY <1>1, <3>1, ElementPositions
      <4> HIDE DEF written, intact, size0
      <4>3. o \in DOMAIN buf /\ buf[o] = element[i].buf[o]
        BY <2>5, <4>1, <4>2
      <4> QED
        BY <3>1, <4>3 DEF Holds
    <3>2. HoldsChildData(element[i].buf, s.rep, start(i), q[i])
      BY <2>4
    <3>3. start(i) \in Nat /\ start(i) % 4 = 0
      BY <2>7
    <3> HIDE DEF start
    <3> QED
      BY <3>1, <3>2, <3>3, ChildDataCopied
  <2>11. HoldsElements(buf, s.rep, p, q)
    BY <2>10 DEF HoldsElements
  <2> QED
    BY <1>5, <2>2, <2>9, <2>11
<1> QED
  BY <1>3, <1>4, <1>5

\* The sequence with its length, and in XCDRv2 its header.
HoldsChildren(buf, rep, p, q) ==
  /\ HoldsHeader(buf, rep, p, AfterStructs(rep, p, Len(q), ChildSize(rep)))
  /\ HoldsLong(buf, AfterHeader(rep, p), Len(q))
  /\ HoldsElements(buf, rep, AfterLong(AfterHeader(rep, p)), q)

\* Elements that are kept.
LEMMA ElementsKept ==
  ASSUME NEW rep \in Representations, NEW a, NEW b, NEW p \in Nat, Keeps(a, b, p),
         NEW r \in Nat, p <= r, r % 4 = 0, NEW q \in Seq([baseId : Nat, childId : Nat]),
         HoldsElements(a, rep, r, q)
  PROVE  HoldsElements(b, rep, r, q)
<1>1. ASSUME NEW i \in DOMAIN q
      PROVE  HoldsChildData(b, rep, r + (i - 1) * ChildSize(rep), q[i])
  <2> DEFINE d == (i - 1) * ChildSize(rep)
  <2>1. d \in Nat /\ r + d \in Nat /\ (r + d) % 4 = 0
    <3>1. Len(q) \in Nat /\ i \in 1..Len(q)
      OBVIOUS
    <3> QED
      BY <3>1, ElementPositions
  <2>2. HoldsChildData(a, rep, r + d, q[i])
    BY DEF HoldsElements
  <2> HIDE DEF d
  <2>3. p <= r + d
    BY <2>1
  <2>4. \A o \in Nat : \A n, v : r + d <= o /\ Holds(a, o, n, v) => Holds(b, o, n, v)
    BY <2>1, <2>3 DEF Keeps
  <2>5. HoldsChildData(b, rep, r + d, q[i])
    BY <2>1, <2>2, <2>4, ChildDataCopied
  <2> QED
    BY <2>5 DEF d
<1> QED
  BY <1>1 DEF HoldsElements

\* The length, the elements, and in XCDRv2 a header for all of it.
LEMMA ChildrenWrite ==
  ASSUME NEW s, s.max \in Nat, s.rep \in Representations,
         NEW u, NEW p \in Nat, Near(s, u, p),
         NEW q \in Seq([baseId : Nat, childId : Nat]), PutStructs(u, q, SerializeChildData).ok
  PROVE  /\ u.ok
         /\ HoldsChildren(PutStructs(u, q, SerializeChildData).buf, s.rep, p, q)
         /\ Beyond(u.buf, PutStructs(u, q, SerializeChildData).buf, p)
<1> DEFINE members(v) == Elements(PutLong(v, Len(q)), q)
           after(r) == AfterLong(r) + Len(q) * ChildSize(s.rep)
<1>1. u.rep = s.rep
  BY DEF Near
<1>2. ASSUME NEW v, NEW r \in Nat, Near(s, v, r), members(v).ok
      PROVE  /\ v.ok
             /\ HoldsLong(members(v).buf, r, Len(q))
             /\ HoldsElements(members(v).buf, s.rep, AfterLong(r), q)
             /\ Beyond(v.buf, members(v).buf, r)
             /\ Near(s, members(v), after(r))
  <2> DEFINE x == PutLong(v, Len(q))
             y == Elements(x, q)
             t == AfterLong(r)
  <2>1. Reaches(s, x, t) /\ t \in Nat /\ t % 4 = 0 /\ r <= t
    <3>1. Reaches(s, x, t)
      BY <1>2, PutLongReaches
    <3>2. AfterLong(r) \in Nat /\ AfterLong(r) >= r + 4 /\ AfterLong(r) % 4 = 0
      BY AfterLongFacts
    <3>3. t \in Nat /\ t % 4 = 0 /\ r <= t
      BY <3>2
    <3> QED
      BY <3>1, <3>3
  <2>2. y.ok
    BY <1>2
  <2>3. x.ok /\ HoldsElements(y.buf, s.rep, t, q) /\ Beyond(x.buf, y.buf, t)
        /\ Near(s, y, t + Len(q) * ChildSize(s.rep))
    <3> HIDE DEF x, t
    <3> QED
      BY <2>1, <2>2, ElementsWrite, ElementsReach DEF Reaches
  <2>4. v.ok /\ HoldsLong(x.buf, r, Len(q)) /\ Beyond(v.buf, x.buf, r)
    BY <1>2, <2>3, PutLongWrites
  <2>5. members(v) = y
    OBVIOUS
  <2> HIDE DEF x, y, members
  <2>6. HoldsLong(y.buf, r, Len(q)) /\ Beyond(v.buf, y.buf, r)
    BY <2>1, <2>3, <2>4, LongStays, BeyondBeyond
  <2> QED
    BY <2>3, <2>4, <2>5, <2>6
<1>3. CASE s.rep = "XCDRv1"
  <2>1. PutStructs(u, q, SerializeChildData) = members(u)
    BY <1>1, <1>3 DEF PutStructs, PutStruct, Elements
  <2> HIDE DEF members
  <2> QED
    BY <1>2, <1>3, <2>1 DEF HoldsChildren, HoldsHeader, AfterHeader
<1>4. CASE s.rep = "XCDRv2"
  <2> DEFINE header == PutLong(u, 0)
             end == members(header)
             full == [end EXCEPT !.buf[header.pos - 4].val = end.pos - header.pos]
             w == PutStructs(u, q, SerializeChildData)
             r == AfterLong(p)
             e == after(r)
  <2>1. w = IF end.ok THEN full ELSE end
    BY <1>1, <1>4 DEF PutStructs, PutStruct, Elements
  <2>2. end.ok /\ w = full
    BY <2>1
  <2>3. Near(s, header, r) /\ r \in Nat
    BY PutLongReaches, AfterLongFacts DEF Reaches
  <2>4. /\ header.ok /\ Beyond(header.buf, end.buf, r) /\ Near(s, end, e)
        /\ HoldsLong(end.buf, r, Len(q)) /\ HoldsElements(end.buf, s.rep, AfterLong(r), q)
    <3> HIDE DEF header, members, after
    <3> QED
      BY <1>2, <2>2, <2>3
  <2> HIDE DEF w, end, e
  <2>5. /\ u.ok /\ HoldsLong(w.buf, p, e - r)
        /\ Beyond(u.buf, w.buf, p) /\ Keeps(end.buf, w.buf, r)
    BY <2>2, <2>4, StructWrites
  <2>6. HoldsLong(w.buf, r, Len(q)) /\ HoldsElements(w.buf, s.rep, AfterLong(r), q)
    <3>1. AfterLong(r) \in Nat /\ r <= AfterLong(r) /\ AfterLong(r) % 4 = 0
      <4> HIDE DEF r
      <4>1. AfterLong(r) \in Nat /\ AfterLong(r) >= r + 4 /\ AfterLong(r) % 4 = 0
        BY <2>3, AfterLongFacts
      <4> QED
        BY <2>3, <4>1
    <3>2. HoldsLong(w.buf, r, Len(q))
      BY <2>3, <2>4, <2>5, LongKept
    <3> HIDE DEF r
    <3>3. HoldsElements(w.buf, s.rep, AfterLong(r), q)
      BY <2>3, <2>4, <2>5, <3>1, ElementsKept
    <3> QED
      BY <3>2, <3>3
  <2>7. AfterHeader(s.rep, p) = r /\ AfterStructs(s.rep, p, Len(q), ChildSize(s.rep)) = e
    BY <1>4 DEF AfterHeader, AfterStructs, e
  <2>8. HoldsChildren(w.buf, s.rep, p, q)
    BY <2>5, <2>6, <2>7 DEF HoldsChildren, HoldsHeader
  <2> QED
    BY <2>5, <2>8 DEF w
<1> QED
  BY <1>3, <1>4 DEF Representations
-----------------------------------------------------------------------------
\* HelloWorldTwo.

\* Its members, from position q on.
HoldsMembersOfTwo(buf, rep, q, data) ==
  /\ HoldsLong(buf, q, data.baseId)
  /\ HoldsLong(buf, AfterLong(q), data.index)
  /\ HoldsString(buf, AfterLong(AfterLong(q)), data.message)
  /\ HoldsChildren(buf, rep, AfterString(AfterLong(AfterLong(q)), data.message), data.children)

HoldsHelloWorldTwo(buf, rep, p, data) ==
  /\ HoldsHeader(buf, rep, p, HelloWorldTwoEnd(rep, p, data))
  /\ HoldsMembersOfTwo(buf, rep, AfterHeader(rep, p), data)

\* Where the members are.
LEMMA TwoPositions ==
  ASSUME NEW q \in Nat, NEW n \in Nat
  PROVE  /\ AfterLong(q) \in Nat /\ q <= AfterLong(q)
         /\ AfterLong(AfterLong(q)) \in Nat /\ AfterLong(q) <= AfterLong(AfterLong(q))
         /\ AfterString(AfterLong(AfterLong(q)), n) \in Nat
         /\ AfterLong(AfterLong(q)) <= AfterString(AfterLong(AfterLong(q)), n)
<1>1. \A r \in Nat : AfterLong(r) \in Nat /\ r <= AfterLong(r)
  <2>1. ASSUME NEW r \in Nat
        PROVE  AfterLong(r) \in Nat /\ AfterLong(r) >= r + 4
    BY AfterLongFacts
  <2> QED
    BY <2>1
<1> DEFINE a == AfterLong(q)
           b == AfterLong(a)
           c == AfterLong(b)
<1>2. a \in Nat /\ q <= a
  BY <1>1
<1> HIDE DEF a
<1>3. b \in Nat /\ a <= b
  BY <1>1, <1>2
<1> HIDE DEF b
<1>4. c \in Nat /\ b <= c
  BY <1>1, <1>3
<1> HIDE DEF c
<1>5. AfterString(b, n) = c + n + 1
  BY DEF AfterString, c
<1>6. AfterString(b, n) \in Nat /\ b <= AfterString(b, n)
  BY <1>3, <1>4, <1>5
<1> QED
  BY <1>2, <1>3, <1>6 DEF a, b

\* A text stays when something is written behind it.
LEMMA StringStays ==
  ASSUME NEW a, NEW b, NEW p \in Nat, NEW n \in Nat, HoldsString(a, p, n),
         Beyond(a, b, AfterString(p, n))
  PROVE  HoldsString(b, p, n)
<1>1. AfterLong(p) \in Nat /\ n + 1 \in Sizes /\ AfterString(p, n) = AfterLong(p) + (n + 1)
  <2>1. AfterLong(p) \in Nat
    BY AfterLongFacts
  <2>2. n + 1 \in Sizes
    BY DEF Sizes
  <2> QED
    BY <2>1, <2>2 DEF AfterString
<1>2. AfterString(p, n) \in Nat /\ AfterLong(p) <= AfterString(p, n)
  BY <1>1 DEF Sizes
<1>3. HoldsLong(b, p, n + 1)
  BY <1>2, LongStays DEF HoldsString
<1>4. Holds(b, AfterLong(p), n + 1, n)
  <2>1. AfterLong(p) + (n + 1) <= AfterString(p, n)
    BY <1>1, <1>2
  <2> QED
    BY <1>1, <2>1 DEF Beyond, HoldsString
<1> QED
  BY <1>3, <1>4 DEF HoldsString

\* Members that are kept.
LEMMA MembersOfTwoKept ==
  ASSUME NEW rep \in Representations, NEW a, NEW b, NEW q \in Nat, Keeps(a, b, q),
         NEW data, data.message \in Nat, data.children \in Seq([baseId : Nat, childId : Nat]),
         HoldsMembersOfTwo(a, rep, q, data)
  PROVE  HoldsMembersOfTwo(b, rep, q, data)
<1> DEFINE r == AfterLong(q)
           t == AfterLong(r)
           x == AfterString(t, data.message)
           h == AfterHeader(rep, x)
<1>1. /\ r \in Nat /\ q <= r /\ t \in Nat /\ q <= t /\ x \in Nat /\ q <= x
      /\ AfterLong(t) \in Nat /\ q <= AfterLong(t)
  <2>1. r \in Nat /\ q <= r /\ t \in Nat /\ r <= t /\ x \in Nat /\ t <= x
    BY TwoPositions
  <2> HIDE DEF r, t, x
  <2>2. AfterLong(t) \in Nat /\ AfterLong(t) >= t + 4
    BY <2>1, AfterLongFacts
  <2> QED
    BY <2>1, <2>2
<1> HIDE DEF x, t, r
<1>2. /\ h \in Nat /\ q <= h /\ AfterLong(h) \in Nat /\ q <= AfterLong(h) /\ AfterLong(h) % 4 = 0
  <2>1. AfterLong(x) \in Nat /\ AfterLong(x) >= x + 4
    BY <1>1, AfterLongFacts
  <2>2. h \in Nat /\ q <= h
    BY <1>1, <2>1 DEF AfterHeader
  <2> HIDE DEF h
  <2>3. AfterLong(h) \in Nat /\ AfterLong(h) >= h + 4 /\ AfterLong(h) % 4 = 0
    BY <2>2, AfterLongFacts
  <2> QED
    BY <2>2, <2>3
<1> HIDE DEF h
<1>3. /\ HoldsLong(a, q, data.baseId) /\ HoldsLong(a, r, data.index)
      /\ HoldsString(a, t, data.message) /\ HoldsChildren(a, rep, x, data.children)
  BY DEF HoldsMembersOfTwo, r, t, x
<1>4. HoldsLong(b, q, data.baseId) /\ HoldsLong(b, r, data.index)
  BY <1>1, <1>3, LongKept
<1>5. HoldsString(b, t, data.message)
  <2>1. HoldsLong(b, t, data.message + 1)
    BY <1>1, <1>3, LongKept DEF HoldsString
  <2>2. Holds(b, AfterLong(t), data.message + 1, data.message)
    BY <1>1, <1>3 DEF Keeps, HoldsString
  <2> QED
    BY <2>1, <2>2 DEF HoldsString
<1>6. HoldsChildren(b, rep, x, data.children)
  <2> DEFINE end == AfterStructs(rep, x, Len(data.children), ChildSize(rep))
  <2>1. /\ HoldsHeader(a, rep, x, end) /\ HoldsLong(a, h, Len(data.children))
        /\ HoldsElements(a, rep, AfterLong(h), data.children)
    BY <1>3 DEF HoldsChildren, h
  <2> HIDE DEF end
  <2>2. HoldsHeader(b, rep, x, end)
    BY <1>1, <2>1, LongKept DEF HoldsHeader
  <2>3. HoldsLong(b, h, Len(data.children))
    BY <1>2, <2>1, LongKept
  <2>4. HoldsElements(b, rep, AfterLong(h), data.children)
    BY <1>2, <2>1, ElementsKept
  <2> QED
    BY <2>2, <2>3, <2>4 DEF HoldsChildren, h, end
<1> QED
  BY <1>4, <1>5, <1>6 DEF HoldsMembersOfTwo, r, t, x

\* HelloWorldTwo: the base's long, a long, the text and the sequence.
LEMMA HelloWorldTwoWrites ==
  ASSUME NEW s, s.max \in Nat, s.rep \in Representations,
         NEW u, NEW p \in Nat, Near(s, u, p), NEW data, data.message \in Nat,
         data.children \in Seq([baseId : Nat, childId : Nat]), SerializeHelloWorldTwo(u, data).ok
  PROVE  /\ u.ok
         /\ HoldsHelloWorldTwo(SerializeHelloWorldTwo(u, data).buf, s.rep, p, data)
         /\ Beyond(u.buf, SerializeHelloWorldTwo(u, data).buf, p)
<1> DEFINE members(v) == PutStructs(PutString(PutLong(PutLong(v, data.baseId), data.index), data.message),
                                    data.children, SerializeChildData)
           after(q) == AfterStructs(s.rep, AfterString(AfterLong(AfterLong(q)), data.message),
                                    Len(data.children), ChildSize(s.rep))
<1>1. u.rep = s.rep
  BY DEF Near
<1>2. ASSUME NEW v, NEW q \in Nat, Near(s, v, q), members(v).ok
      PROVE  /\ v.ok
             /\ HoldsMembersOfTwo(members(v).buf, s.rep, q, data)
             /\ Beyond(v.buf, members(v).buf, q)
             /\ Near(s, members(v), after(q))
  <2> DEFINE x1 == PutLong(v, data.baseId)
             x2 == PutLong(x1, data.index)
             x3 == PutString(x2, data.message)
             x4 == PutStructs(x3, data.children, SerializeChildData)
             q1 == AfterLong(q)
             q2 == AfterLong(q1)
             q3 == AfterString(q2, data.message)
  <2>1. q1 \in Nat /\ q <= q1 /\ q2 \in Nat /\ q1 <= q2 /\ q3 \in Nat /\ q2 <= q3
    BY TwoPositions
  <2>2. members(v) = x4 /\ x4.ok
    BY <1>2
  <2>3. after(q) = AfterStructs(s.rep, q3, Len(data.children), ChildSize(s.rep))
    OBVIOUS
  <2> HIDE DEF members, after
  <2>4. Near(s, x1, q1)
    BY <1>2, PutLongReaches DEF Reaches
  <2>5. Near(s, x2, q2)
    <3> HIDE DEF x1, q1
    <3> QED
      BY <2>1, <2>4, PutLongReaches DEF Reaches
  <2>6. Near(s, x3, q3)
    <3> HIDE DEF x2, q2
    <3> QED
      BY <2>1, <2>5, PutStringReaches DEF Reaches
  <2>7. /\ x3.ok /\ HoldsChildren(x4.buf, s.rep, q3, data.children) /\ Beyond(x3.buf, x4.buf, q3)
        /\ Near(s, x4, AfterStructs(s.rep, q3, Len(data.children), ChildSize(s.rep)))
    <3> HIDE DEF x3, q3
    <3> QED
      BY <2>1, <2>2, <2>6, ChildrenWrite, ChildrenReach DEF Reaches
  <2>8. x2.ok /\ HoldsString(x3.buf, q2, data.message) /\ Beyond(x2.buf, x3.buf, q2)
    <3> HIDE DEF x2, q2
    <3> QED
      BY <2>1, <2>5, <2>7, PutStringWrites
  <2>9. x1.ok /\ HoldsLong(x2.buf, q1, data.index) /\ Beyond(x1.buf, x2.buf, q1)
    <3> HIDE DEF x1, q1
    <3> QED
      BY <2>1, <2>4, <2>8, PutLongWrites
  <2>10. v.ok /\ HoldsLong(x1.buf, q, data.baseId) /\ Beyond(v.buf, x1.buf, q)
    BY <1>2, <2>9, PutLongWrites
  <2>11. HoldsString(x4.buf, q2, data.message)
    <3>1. Beyond(x3.buf, x4.buf, AfterString(q2, data.message))
      BY <2>7
    <3> HIDE DEF x3, x4, q2
    <3> QED
      BY <2>1, <2>8, <3>1, StringStays
  <2>12. Beyond(x2.buf, x4.buf, q2)
    <3> HIDE DEF x2, x3, x4, q2, q3
    <3> QED
      BY <2>1, <2>7, <2>8, BeyondBeyond
  <2>13. HoldsLong(x4.buf, q1, data.index) /\ Beyond(x1.buf, x4.buf, q1)
    <3>1. AfterLong(q1) <= q2
      BY <2>1
    <3> HIDE DEF x1, x2, x4, q1, q2
    <3> QED
      BY <2>1, <2>9, <2>12, <3>1, LongStays, BeyondBeyond
  <2>14. HoldsLong(x4.buf, q, data.baseId) /\ Beyond(v.buf, x4.buf, q)
    <3>1. AfterLong(q) <= q1
      BY <2>1
    <3> HIDE DEF x1, x4, q1
    <3> QED
      BY <2>1, <2>10, <2>13, <3>1, LongStays, BeyondBeyond
  <2> HIDE DEF x4
  <2>15. HoldsMembersOfTwo(x4.buf, s.rep, q, data)
    BY <2>7, <2>11, <2>13, <2>14 DEF HoldsMembersOfTwo
  <2> QED
    BY <2>2, <2>3, <2>7, <2>10, <2>14, <2>15
<1>3. CASE s.rep = "XCDRv1"
  <2>1. SerializeHelloWorldTwo(u, data) = members(u)
    BY <1>1, <1>3 DEF SerializeHelloWorldTwo, PutStruct
  <2> HIDE DEF members
  <2> QED
    BY <1>2, <1>3, <2>1 DEF HoldsHelloWorldTwo, HoldsHeader, AfterHeader
<1>4. CASE s.rep = "XCDRv2"
  <2> DEFINE header == PutLong(u, 0)
             end == members(header)
             full == [end EXCEPT !.buf[header.pos - 4].val = end.pos - header.pos]
             w == SerializeHelloWorldTwo(u, data)
             q == AfterLong(p)
             e == after(q)
  <2>1. w = IF end.ok THEN full ELSE end
    BY <1>1, <1>4 DEF SerializeHelloWorldTwo, PutStruct
  <2>2. end.ok /\ w = full
    BY <2>1
  <2>3. Near(s, header, q) /\ q \in Nat
    BY PutLongReaches, AfterLongFacts DEF Reaches
  <2>4. /\ header.ok /\ Beyond(header.buf, end.buf, q) /\ Near(s, end, e)
        /\ HoldsMembersOfTwo(end.buf, s.rep, q, data)
    <3> HIDE DEF header, members, after
    <3> QED
      BY <1>2, <2>2, <2>3
  <2> HIDE DEF w, end, e
  <2>5. /\ u.ok /\ HoldsLong(w.buf, p, e - q)
        /\ Beyond(u.buf, w.buf, p) /\ Keeps(end.buf, w.buf, q)
    BY <2>2, <2>4, StructWrites
  <2>6. HoldsMembersOfTwo(w.buf, s.rep, q, data)
    BY <2>3, <2>4, <2>5, MembersOfTwoKept
  <2>7. AfterHeader(s.rep, p) = q /\ HelloWorldTwoEnd(s.rep, p, data) = e
    BY <1>4 DEF AfterHeader, HelloWorldTwoEnd, ChildSize, e
  <2>8. HoldsHelloWorldTwo(w.buf, s.rep, p, data)
    BY <2>5, <2>6, <2>7 DEF HoldsHelloWorldTwo, HoldsHeader
  <2> QED
    BY <2>5, <2>8 DEF w
<1> QED
  BY <1>3, <1>4 DEF Representations
-----------------------------------------------------------------------------
\* Reading.

\* r is in order and reads buf at position p, into obj.
IsReader(r, buf, max, rep, p, obj) ==
  /\ r = [f \in StreamFields |-> r[f]]
  /\ r.buf = buf /\ r.max = max /\ r.ok = TRUE /\ r.rep = rep /\ r.pos = p /\ r.obj = obj

\* One field more or less changes only that field.
LEMMA FieldChanges ==
  ASSUME NEW r, r = [f \in StreamFields |-> r[f]], NEW k \in StreamFields, NEW x,
         NEW w, w = [r EXCEPT ![k] = x]
  PROVE  /\ w = [f \in StreamFields |-> w[f]]
         /\ w[k] = x
         /\ \A f \in StreamFields : f # k => w[f] = r[f]
<1>1. DOMAIN r = StreamFields
  OBVIOUS
<1>2. w = [f \in StreamFields |-> IF f = k THEN x ELSE r[f]]
  BY <1>1
<1> QED
  BY <1>2

\* An intact scalar is read.
LEMMA GetReads ==
  ASSUME NEW r, NEW buf, NEW max \in Nat, NEW rep, NEW p \in Nat, NEW obj,
         IsReader(r, buf, max, rep, p, obj),
         NEW at \in Nat, at = p + Alignment(p, 4),
         NEW n \in Nat, NEW v, Holds(buf, at, n, v), at + n <= max
  PROVE  /\ IsReader(Get(r, n), buf, max, rep, at + n, obj)
         /\ Get(r, n).val = v
         /\ Get(r, n).more = r.more
<1> DEFINE w == Get(r, n)
           moved == [r EXCEPT !.pos = at + n]
<1>1. r = [f \in StreamFields |-> r[f]] /\ r.pos = p /\ r.ok /\ r.buf = buf /\ r.max = max
  BY DEF IsReader
<1>2. at \in DOMAIN buf /\ buf[at].size = n /\ buf[at].val = v
  BY DEF Holds
<1>3. w = [r EXCEPT !.pos = at + n, !.val = v]
  <2>1. r.ok /\ n >= 0 /\ at + n <= r.max
    BY <1>1
  <2>2. r.pos + Alignment(r.pos, 4) = at
    BY <1>1
  <2>3. at \in DOMAIN r.buf /\ r.buf[at].size = n /\ r.buf[at].val = v
    BY <1>1, <1>2
  <2> QED
    BY <2>1, <2>2, <2>3 DEF Get
<1>4. w = [moved EXCEPT !.val = v]
  BY <1>3
<1> HIDE DEF w
<1>5. /\ moved = [f \in StreamFields |-> moved[f]] /\ moved.pos = at + n
      /\ \A f \in StreamFields : f # "pos" => moved[f] = r[f]
  BY <1>1, FieldChanges DEF StreamFields
<1> HIDE DEF moved
<1>6. /\ w = [f \in StreamFields |-> w[f]] /\ w.val = v
      /\ \A f \in StreamFields : f # "val" => w[f] = moved[f]
  BY <1>4, <1>5, FieldChanges DEF StreamFields
<1>7. /\ w.pos = at + n /\ w.buf = r.buf /\ w.max = r.max /\ w.ok = r.ok /\ w.rep = r.rep
      /\ w.obj = r.obj /\ w.more = r.more
  BY <1>5, <1>6 DEF StreamFields
<1>8. IsReader(w, buf, max, rep, at + n, obj)
  BY <1>6, <1>7 DEF IsReader
<1> QED
  BY <1>6, <1>7, <1>8 DEF w

\* What was read is stored in the object.
LEMMA StoreReads ==
  ASSUME NEW r, NEW buf, NEW max, NEW rep, NEW p, NEW obj,
         IsReader(r, buf, max, rep, p, obj), NEW member
  PROVE  /\ IsReader(Store(r, member), buf, max, rep, p, [obj EXCEPT ![member] = r.val])
         /\ Store(r, member).more = r.more
<1> DEFINE w == Store(r, member)
           stored == [obj EXCEPT ![member] = r.val]
<1>1. r = [f \in StreamFields |-> r[f]] /\ r.ok /\ r.obj = obj
  BY DEF IsReader
<1>2. w = [r EXCEPT !.obj = stored]
  BY <1>1 DEF Store
<1> HIDE DEF w, stored
<1>3. /\ w = [f \in StreamFields |-> w[f]] /\ w.obj = stored
      /\ \A f \in StreamFields : f # "obj" => w[f] = r[f]
  BY <1>1, <1>2, FieldChanges DEF StreamFields
<1>4. /\ w.pos = r.pos /\ w.buf = r.buf /\ w.max = r.max /\ w.ok = r.ok /\ w.rep = r.rep
      /\ w.more = r.more
  BY <1>3 DEF StreamFields
<1>5. IsReader(w, buf, max, rep, p, stored)
  BY <1>3, <1>4 DEF IsReader
<1> QED
  BY <1>4, <1>5 DEF w, stored

\* A scalar at an aligned position.
LEMMA GetAligned ==
  ASSUME NEW r, NEW buf, NEW max \in Nat, NEW rep, NEW p \in Nat, NEW obj,
         IsReader(r, buf, max, rep, p, obj), Alignment(p, 4) = 0,
         NEW n \in Nat, NEW v, Holds(buf, p, n, v), p + n <= max
  PROVE  /\ IsReader(Get(r, n), buf, max, rep, p + n, obj)
         /\ Get(r, n).val = v
         /\ Get(r, n).more = r.more
<1>1. p = p + Alignment(p, 4)
  OBVIOUS
<1> QED
  BY <1>1, GetReads

\* A long.
LEMMA GetALong ==
  ASSUME NEW r, NEW buf, NEW max \in Nat, NEW rep, NEW p \in Nat, NEW obj,
         IsReader(r, buf, max, rep, p, obj), NEW v, HoldsLong(buf, p, v), AfterLong(p) <= max
  PROVE  /\ IsReader(Get(r, 4), buf, max, rep, AfterLong(p), obj)
         /\ Get(r, 4).val = v
         /\ Get(r, 4).more = r.more
<1> DEFINE at == p + Alignment(p, 4)
<1>1. at \in Nat
  <2>1. Alignment(p, 4) \in 0..3
    BY AlignmentFacts
  <2> QED
    BY <2>1
<1>2. Holds(buf, at, 4, v) /\ at + 4 <= max /\ at = p + Alignment(p, 4)
  BY DEF HoldsLong, AfterLong
<1> HIDE DEF at
<1>3. /\ IsReader(Get(r, 4), buf, max, rep, at + 4, obj)
      /\ Get(r, 4).val = v /\ Get(r, 4).more = r.more
  BY <1>1, <1>2, GetReads
<1> QED
  BY <1>3 DEF at, AfterLong

\* A long member.
LEMMA GetLongReads ==
  ASSUME NEW r, NEW buf, NEW max \in Nat, NEW rep, NEW p \in Nat, NEW obj,
         IsReader(r, buf, max, rep, p, obj), NEW v, HoldsLong(buf, p, v), AfterLong(p) <= max,
         NEW member
  PROVE  /\ IsReader(GetLong(r, member), buf, max, rep, AfterLong(p), [obj EXCEPT ![member] = v])
         /\ GetLong(r, member).more = r.more
<1> DEFINE w == Get(r, 4)
<1>1. IsReader(w, buf, max, rep, AfterLong(p), obj) /\ w.val = v /\ w.more = r.more
  BY GetALong
<1> HIDE DEF w
<1>2. /\ IsReader(Store(w, member), buf, max, rep, AfterLong(p), [obj EXCEPT ![member] = v])
      /\ Store(w, member).more = r.more
  BY <1>1, StoreReads
<1> QED
  BY <1>2 DEF GetLong, w

\* A scalar of n bytes behind its length.
LEMMA GetBlock ==
  ASSUME NEW r, NEW buf, NEW max \in Nat, NEW rep, NEW p \in Nat, NEW obj,
         IsReader(r, buf, max, rep, p, obj), NEW n \in Nat, NEW v, HoldsLong(buf, p, n),
         Holds(buf, AfterLong(p), n, v), AfterLong(p) + n <= max
  PROVE  LET length == Get(r, 4)
             w == Get(length, length.val)
         IN /\ length.val = n
            /\ IsReader(w, buf, max, rep, AfterLong(p) + n, obj)
            /\ w.val = v
            /\ w.more = r.more
<1> DEFINE length == Get(r, 4)
           q == AfterLong(p)
<1>1. q \in Nat /\ q <= max /\ Alignment(q, 4) = 0
  <2>1. AfterLong(p) \in Nat /\ Alignment(AfterLong(p), 4) = 0
    BY AfterLongFacts
  <2> HIDE DEF length
  <2> QED
    BY <2>1
<1>2. IsReader(length, buf, max, rep, q, obj) /\ length.val = n /\ length.more = r.more
  BY <1>1, GetALong
<1> HIDE DEF length
<1>3. /\ IsReader(Get(length, n), buf, max, rep, q + n, obj)
      /\ Get(length, n).val = v /\ Get(length, n).more = length.more
  <2>1. Holds(buf, q, n, v) /\ q + n <= max
    OBVIOUS
  <2> HIDE DEF q
  <2> QED
    BY <1>1, <1>2, <2>1, GetAligned
<1> QED
  BY <1>2, <1>3 DEF length

\* A text member.
LEMMA GetStringReads ==
  ASSUME NEW r, NEW buf, NEW max \in Nat, NEW rep, NEW p \in Nat, NEW obj,
         IsReader(r, buf, max, rep, p, obj), NEW n \in Nat, HoldsString(buf, p, n),
         AfterString(p, n) <= max, NEW member
  PROVE  /\ IsReader(GetString(r, member), buf, max, rep, AfterString(p, n),
                     [obj EXCEPT ![member] = n])
         /\ GetString(r, member).more = r.more
<1> DEFINE length == Get(r, 4)
           w == Get(length, length.val)
<1>1. AfterString(p, n) = AfterLong(p) + (n + 1)
  <2>1. AfterLong(p) \in Nat
    BY AfterLongFacts
  <2> QED
    BY <2>1 DEF AfterString
<1>2. IsReader(w, buf, max, rep, AfterString(p, n), obj) /\ w.val = n /\ w.more = r.more
  <2>1. n + 1 \in Nat /\ AfterLong(p) + (n + 1) <= max
    BY <1>1
  <2> QED
    BY <1>1, <2>1, GetBlock DEF HoldsString
<1>3. GetString(r, member) = Store(w, member)
  BY DEF GetString
<1> HIDE DEF w
<1>4. /\ IsReader(Store(w, member), buf, max, rep, AfterString(p, n), [obj EXCEPT ![member] = n])
      /\ Store(w, member).more = r.more
  BY <1>2, StoreReads
<1> QED
  BY <1>3, <1>4

\* A member that is an octet sequence.
LEMMA GetOctetsReads ==
  ASSUME NEW r, NEW buf, NEW max \in Nat, NEW rep, NEW p \in Nat, NEW obj,
         IsReader(r, buf, max, rep, p, obj), NEW n \in Nat, HoldsOctets(buf, p, n),
         AfterOctets(p, n) <= max, NEW member
  PROVE  /\ IsReader(GetOctets(r, member), buf, max, rep, AfterOctets(p, n),
                     [obj EXCEPT ![member] = n])
         /\ GetOctets(r, member).more = r.more
<1> DEFINE length == Get(r, 4)
           w == IF length.val = 0 THEN length ELSE Get(length, length.val)
<1>1. AfterLong(p) \in Nat
  BY AfterLongFacts
<1>2. IsReader(w, buf, max, rep, AfterOctets(p, n), obj) /\ w.val = n /\ w.more = r.more
  <2>1. CASE n = 0
    <3>1. AfterOctets(p, n) = AfterLong(p)
      BY <1>1, <2>1 DEF AfterOctets
    <3>2. IsReader(length, buf, max, rep, AfterLong(p), obj) /\ length.val = n /\ length.more = r.more
      BY <3>1, GetALong DEF HoldsOctets
    <3> QED
      BY <2>1, <3>1, <3>2
  <2>2. CASE n # 0
    <3> DEFINE x == Get(length, length.val)
    <3>1. length.val = n /\ IsReader(x, buf, max, rep, AfterOctets(p, n), obj) /\ x.val = n
          /\ x.more = r.more
      BY <2>2, GetBlock DEF HoldsOctets, AfterOctets
    <3>2. w = x
      BY <2>2, <3>1
    <3> QED
      BY <3>1, <3>2
  <2> QED
    BY <2>1, <2>2
<1>3. GetOctets(r, member) = Store(w, member)
  BY DEF GetOctets
<1> HIDE DEF w
<1>4. /\ IsReader(Store(w, member), buf, max, rep, AfterOctets(p, n), [obj EXCEPT ![member] = n])
      /\ Store(w, member).more = r.more
  BY <1>2, StoreReads
<1> QED
  BY <1>3, <1>4
-----------------------------------------------------------------------------
\* Induction, for a set instead of a predicate.

\* A set with 0 and the successor of each of its numbers has every number.
LEMMA SetInduction ==
  ASSUME NEW S, 0 \in S, \A n \in Nat : n \in S => n + 1 \in S
  PROVE  Nat \subseteq S
<1> DEFINE T == Nat \ S
           Less == OpToRel(<, Nat)
<1> SUFFICES ASSUME T # {} PROVE FALSE
  OBVIOUS
<1>1. IsWellFoundedOn(Less, Nat)
  BY NatLessThanWellFounded
<1>2. \A m, n \in Nat : m < n => <<m, n>> \in Less
  BY DEF OpToRel
<1> HIDE DEF Less
<1>3. PICK n \in T : \A m \in T : <<m, n>> \notin Less
  BY <1>1, WFMin
<1>4. n - 1 \in Nat /\ n - 1 < n /\ (n - 1) + 1 = n
  BY <1>3
<1>5. n - 1 \notin T
  BY <1>2, <1>3, <1>4
<1> QED
  BY <1>3, <1>4, <1>5
-----------------------------------------------------------------------------
\* deserialize_type: the loop over the members.

\* The switch over member ids, of the type named name.
MemberOf(name, u, id) ==
  CASE name = "DataBase" ->
         (CASE id = 0 -> GetLong(u, "baseId")
            [] OTHER  -> Decline(u))
    [] name = "ChildData" ->
         (CASE id = 0 -> GetLong(u, "baseId")
            [] id = 1 -> GetLong(u, "childId")
            [] OTHER  -> Decline(u))
    [] name = "HelloWorldTwo" ->
         (CASE id = 0 -> GetLong(u, "baseId")
            [] id = 1 -> GetLong(u, "index")
            [] id = 2 -> GetString(u, "message")
            [] id = 3 -> GetStructs(u, "children", ChildData, DeserializeChildData)
            [] OTHER  -> Decline(u))
    [] name = "HelloWorldOne" ->
         (CASE id = 0 -> GetLong(u, "index")
            [] id = 1 -> GetOctets(u, "points")
            [] OTHER  -> Decline(u))

\* After the header, where the struct ends, and whether the loop goes on.
StructStart(s) == IF s.rep = "XCDRv2" THEN Get(s, 4) ELSE s
StructEnd(s) == StructStart(s).pos + StructStart(s).val
GoesOn(s, u) == u.ok /\ u.more /\ ~(s.rep = "XCDRv2" /\ u.pos >= StructEnd(s))

\* What iteration i makes of the result g[i - 1] of the one before.
Iteration(name, s, g, i) ==
  IF i = 0 THEN [StructStart(s) EXCEPT !.more = TRUE]
  ELSE IF GoesOn(s, g[i - 1]) THEN MemberOf(name, g[i - 1], i - 1) ELSE g[i - 1]

\* g has the results of the first n iterations.
IsLoop(name, s, g, n) == g = [i \in 0..n |-> Iteration(name, s, g, i)]

\* deserialize_type, from the results of its loop.
StructDone(s, u) == [u EXCEPT !.pos = IF s.rep = "XCDRv2" THEN StructEnd(s) ELSE @]

\* The loop can be run: each iteration has the results before it.
LEMMA LoopExists ==
  ASSUME NEW name, NEW s
  PROVE  \E g : IsLoop(name, s, g, MaxMembers)
<1> DEFINE S == {n \in Nat : \E g : IsLoop(name, s, g, n)}
<1>1. 0 \in S
  <2> DEFINE g == [i \in 0..0 |-> [StructStart(s) EXCEPT !.more = TRUE]]
  <2>1. IsLoop(name, s, g, 0)
    BY DEF IsLoop, Iteration
  <2> QED
    BY <2>1
<1>2. ASSUME NEW n \in Nat, n \in S
      PROVE  n + 1 \in S
  <2>1. PICK g : IsLoop(name, s, g, n)
    BY <1>2
  <2> DEFINE h == [i \in 0..(n + 1) |-> Iteration(name, s, g, i)]
  <2>2. \A i \in 0..n : h[i] = g[i]
    BY <2>1 DEF IsLoop
  <2>3. h = [i \in 0..(n + 1) |-> Iteration(name, s, g, i)]
    OBVIOUS
  <2> HIDE DEF h
  <2>4. ASSUME NEW i \in 0..(n + 1)
        PROVE  Iteration(name, s, h, i) = Iteration(name, s, g, i)
    <3>1. i # 0 => i - 1 \in 0..n
      OBVIOUS
    <3>2. i # 0 => h[i - 1] = g[i - 1]
      BY <2>2, <3>1
    <3> QED
      BY <3>2 DEF Iteration
  <2>5. h = [i \in 0..(n + 1) |-> Iteration(name, s, h, i)]
    BY <2>3, <2>4, Zenon
  <2>6. IsLoop(name, s, h, n + 1)
    BY <2>5 DEF IsLoop
  <2> QED
    BY <2>6
<1>3. MaxMembers \in S
  <2>1. MaxMembers \in Nat
    BY DEF MaxMembers
  <2> HIDE DEF S
  <2> QED
    BY <1>1, <1>2, <2>1, SetInduction
<1> QED
  BY <1>3

\* The reader of each type is the end of such a loop.
ReadsByLoop(name, s, result) ==
  \E g : IsLoop(name, s, g, MaxMembers) /\ result = StructDone(s, g[MaxMembers])

LEMMA DataBaseLoop ==
  ASSUME NEW s
  PROVE  ReadsByLoop("DataBase", s, DeserializeDataBase(s))
<1> DEFINE Is(g) == g = [i \in 0..MaxMembers |->
             IF i = 0 THEN [StructStart(s) EXCEPT !.more = TRUE]
             ELSE IF GoesOn(s, g[i - 1])
                  THEN CASE i - 1 = 0 -> GetLong(g[i - 1], "baseId")
                         [] OTHER     -> Decline(g[i - 1])
                  ELSE g[i - 1]]
           loop == CHOOSE g : Is(g)
<1>1. DeserializeDataBase(s) = StructDone(s, loop[MaxMembers])
  BY DEF DeserializeDataBase, GetStruct, StructDone, StructStart, StructEnd, GoesOn
<1>2. ASSUME NEW g
      PROVE  Is(g) <=> IsLoop("DataBase", s, g, MaxMembers)
  BY DEF IsLoop, Iteration, MemberOf
<1> HIDE DEF Is
<1>3. Is(loop)
  BY <1>2, LoopExists
<1> QED
  BY <1>1, <1>2, <1>3 DEF ReadsByLoop

LEMMA ChildDataLoop ==
  ASSUME NEW s
  PROVE  ReadsByLoop("ChildData", s, DeserializeChildData(s))
<1> DEFINE Is(g) == g = [i \in 0..MaxMembers |->
             IF i = 0 THEN [StructStart(s) EXCEPT !.more = TRUE]
             ELSE IF GoesOn(s, g[i - 1])
                  THEN CASE i - 1 = 0 -> GetLong(g[i - 1], "baseId")
                         [] i - 1 = 1 -> GetLong(g[i - 1], "childId")
                         [] OTHER     -> Decline(g[i - 1])
                  ELSE g[i - 1]]
           loop == CHOOSE g : Is(g)
<1>1. DeserializeChildData(s) = StructDone(s, loop[MaxMembers])
  BY DEF DeserializeChildData, GetStruct, StructDone, StructStart, StructEnd, GoesOn
<1>2. ASSUME NEW g
      PROVE  Is(g) <=> IsLoop("ChildData", s, g, MaxMembers)
  BY DEF IsLoop, Iteration, MemberOf
<1> HIDE DEF Is
<1>3. Is(loop)
  BY <1>2, LoopExists
<1> QED
  BY <1>1, <1>2, <1>3 DEF ReadsByLoop

LEMMA HelloWorldOneLoop ==
  ASSUME NEW s
  PROVE  ReadsByLoop("HelloWorldOne", s, DeserializeHelloWorldOne(s))
<1> DEFINE Is(g) == g = [i \in 0..MaxMembers |->
             IF i = 0 THEN [StructStart(s) EXCEPT !.more = TRUE]
             ELSE IF GoesOn(s, g[i - 1])
                  THEN CASE i - 1 = 0 -> GetLong(g[i - 1], "index")
                         [] i - 1 = 1 -> GetOctets(g[i - 1], "points")
                         [] OTHER     -> Decline(g[i - 1])
                  ELSE g[i - 1]]
           loop == CHOOSE g : Is(g)
<1>1. DeserializeHelloWorldOne(s) = StructDone(s, loop[MaxMembers])
  BY DEF DeserializeHelloWorldOne, GetStruct, StructDone, StructStart, StructEnd, GoesOn
<1>2. ASSUME NEW g
      PROVE  Is(g) <=> IsLoop("HelloWorldOne", s, g, MaxMembers)
  BY DEF IsLoop, Iteration, MemberOf
<1> HIDE DEF Is
<1>3. Is(loop)
  BY <1>2, LoopExists
<1> QED
  BY <1>1, <1>2, <1>3 DEF ReadsByLoop

LEMMA HelloWorldTwoLoop ==
  ASSUME NEW s
  PROVE  ReadsByLoop("HelloWorldTwo", s, DeserializeHelloWorldTwo(s))
<1> DEFINE Is(g) == g = [i \in 0..MaxMembers |->
             IF i = 0 THEN [StructStart(s) EXCEPT !.more = TRUE]
             ELSE IF GoesOn(s, g[i - 1])
                  THEN CASE i - 1 = 0 -> GetLong(g[i - 1], "baseId")
                         [] i - 1 = 1 -> GetLong(g[i - 1], "index")
                         [] i - 1 = 2 -> GetString(g[i - 1], "message")
                         [] i - 1 = 3 -> GetStructs(g[i - 1], "children", ChildData, DeserializeChildData)
                         [] OTHER     -> Decline(g[i - 1])
                  ELSE g[i - 1]]
           loop == CHOOSE g : Is(g)
<1>1. DeserializeHelloWorldTwo(s) = StructDone(s, loop[MaxMembers])
  BY DEF DeserializeHelloWorldTwo, GetStruct, StructDone, StructStart, StructEnd, GoesOn
<1>2. ASSUME NEW g
      PROVE  Is(g) <=> IsLoop("HelloWorldTwo", s, g, MaxMembers)
  BY DEF IsLoop, Iteration, MemberOf
<1> HIDE DEF Is
<1>3. Is(loop)
  BY <1>2, LoopExists
<1> QED
  BY <1>1, <1>2, <1>3 DEF ReadsByLoop

\* One more iteration.
LEMMA LoopStep ==
  ASSUME NEW name, NEW s, NEW g, IsLoop(name, s, g, MaxMembers), NEW i \in 1..MaxMembers
  PROVE  g[i] = IF GoesOn(s, g[i - 1]) THEN MemberOf(name, g[i - 1], i - 1) ELSE g[i - 1]
<1>1. i \in 0..MaxMembers /\ i # 0
  BY DEF MaxMembers
<1>2. g[i] = Iteration(name, s, g, i)
  BY <1>1 DEF IsLoop
<1> QED
  BY <1>1, <1>2 DEF Iteration

\* The loop does not go on once it stopped.
LEMMA LoopStops ==
  ASSUME NEW name, NEW s, NEW g, IsLoop(name, s, g, MaxMembers), NEW k \in 0..MaxMembers,
         ~GoesOn(s, g[k])
  PROVE  g[MaxMembers] = g[k]
<1> DEFINE S == {n \in Nat : k + n <= MaxMembers => g[k + n] = g[k]}
<1>0. k \in Nat /\ MaxMembers \in Nat
  BY DEF MaxMembers
<1>1. 0 \in S
  BY <1>0
<1>2. ASSUME NEW n \in Nat, n \in S
      PROVE  n + 1 \in S
  <2> SUFFICES ASSUME k + (n + 1) <= MaxMembers
               PROVE  g[k + (n + 1)] = g[k]
    OBVIOUS
  <2>1. g[k + n] = g[k]
    BY <1>0, <1>2
  <2>2. k + (n + 1) \in 1..MaxMembers /\ (k + (n + 1)) - 1 = k + n
    BY <1>0
  <2>3. g[k + (n + 1)] = IF GoesOn(s, g[k + n]) THEN MemberOf(name, g[k + n], k + n) ELSE g[k + n]
    BY <2>2, LoopStep
  <2> QED
    BY <2>1, <2>3
<1>3. MaxMembers - k \in Nat /\ k + (MaxMembers - k) = MaxMembers
  BY <1>0
<1>4. Nat \subseteq S
  <2> HIDE DEF S
  <2> QED
    BY <1>1, <1>2, SetInduction
<1>5. MaxMembers - k \in S
  BY <1>3, <1>4
<1> QED
  BY <1>3, <1>5

\* The loop starts behind the header, and knows where the struct ends.
LEMMA LoopStarts ==
  ASSUME NEW s, NEW buf, NEW max \in Nat, NEW rep \in Representations, NEW p \in Nat, NEW obj,
         IsReader(s, buf, max, rep, p, obj), NEW end \in Nat, HoldsHeader(buf, rep, p, end),
         AfterHeader(rep, p) <= max, NEW name, NEW g, IsLoop(name, s, g, MaxMembers)
  PROVE  /\ IsReader(g[0], buf, max, rep, AfterHeader(rep, p), obj) /\ g[0].more = TRUE
         /\ s.rep = rep
         /\ rep = "XCDRv2" => StructEnd(s) = end
<1> DEFINE start == StructStart(s)
<1>1. s.rep = rep
  BY DEF IsReader
<1>2. IsReader(start, buf, max, rep, AfterHeader(rep, p), obj) /\ (rep = "XCDRv2" => StructEnd(s) = end)
  <2>1. CASE rep = "XCDRv1"
    BY <1>1, <2>1 DEF StructStart, AfterHeader
  <2>2. CASE rep = "XCDRv2"
    <3> DEFINE q == AfterLong(p)
    <3>1. start = Get(s, 4) /\ AfterHeader(rep, p) = q
      BY <1>1, <2>2 DEF StructStart, AfterHeader
    <3>2. HoldsLong(buf, p, end - q) /\ q <= max
      BY <2>2, <3>1 DEF HoldsHeader
    <3>3. IsReader(start, buf, max, rep, q, obj) /\ start.val = end - q
      BY <3>1, <3>2, GetALong
    <3>4. q \in Nat
      BY AfterLongFacts
    <3> HIDE DEF q, start
    <3>5. start.pos + start.val = end
      BY <3>3, <3>4 DEF IsReader
    <3> QED
      BY <3>1, <3>3, <3>5 DEF StructEnd, start
  <2> QED
    BY <2>1, <2>2 DEF Representations
<1>3. g[0] = [start EXCEPT !.more = TRUE]
  <2>1. 0 \in 0..MaxMembers
    BY DEF MaxMembers
  <2> QED
    BY <2>1 DEF IsLoop, Iteration
<1> DEFINE u == g[0]
<1>4. start = [f \in StreamFields |-> start[f]]
  BY <1>2 DEF IsReader
<1> HIDE DEF start, u
<1>5. /\ u = [f \in StreamFields |-> u[f]] /\ u.more = TRUE
      /\ \A f \in StreamFields : f # "more" => u[f] = start[f]
  BY <1>3, <1>4, FieldChanges DEF StreamFields, u
<1>6. IsReader(u, buf, max, rep, AfterHeader(rep, p), obj)
  BY <1>2, <1>5 DEF IsReader, StreamFields
<1> QED
  BY <1>1, <1>2, <1>5, <1>6 DEF u

Follows(k, i) == i \in 1..MaxMembers /\ k = i - 1

LEMMA FirstIterations ==
  Follows(0, 1) /\ Follows(1, 2) /\ Follows(2, 3) /\ Follows(3, 4) /\ Follows(4, 5)
  BY DEF Follows, MaxMembers

\* The loop g over the members of a struct of buf, which ends at end, is about to
\* read member k at position q, into obj.
Reading(name, s, g, k, buf, max, rep, q, obj, end) ==
  /\ IsLoop(name, s, g, MaxMembers)
  /\ s.rep = rep /\ (rep = "XCDRv2" => StructEnd(s) = end)
  /\ IsReader(g[k], buf, max, rep, q, obj) /\ g[k].more = TRUE

\* At the end of the struct the loop stops: the header says so, or the id is declined.
LEMMA LoopEnds ==
  ASSUME NEW s, NEW buf, NEW max, NEW rep \in Representations, NEW obj, NEW end \in Nat,
         s.rep = rep, rep = "XCDRv2" => StructEnd(s) = end,
         NEW name, NEW g, IsLoop(name, s, g, MaxMembers), NEW k \in 0..MaxMembers, k # MaxMembers,
         IsReader(g[k], buf, max, rep, end, obj), g[k].more = TRUE,
         MemberOf(name, g[k], k) = Decline(g[k])
  PROVE  IsReader(StructDone(s, g[MaxMembers]), buf, max, rep, end, obj)
<1> DEFINE u == g[k]
           last == g[MaxMembers]
           w == StructDone(s, last)
<1>1. IsReader(last, buf, max, rep, end, obj)
  <2>1. CASE rep = "XCDRv2"
    <3>1. u.pos >= StructEnd(s)
      BY <2>1 DEF IsReader
    <3>2. ~GoesOn(s, u)
      <4> HIDE DEF u
      <4> QED
        BY <2>1, <3>1 DEF GoesOn
    <3>3. last = u
      BY <3>2, LoopStops
    <3> QED
      BY <3>3
  <2>2. CASE rep = "XCDRv1"
    <3> DEFINE v == g[k + 1]
    <3>1. k + 1 \in 1..MaxMembers /\ k + 1 \in 0..MaxMembers /\ (k + 1) - 1 = k
      BY DEF MaxMembers
    <3>2. v = IF GoesOn(s, u) THEN MemberOf(name, u, k) ELSE u
      BY <3>1, LoopStep
    <3>3. GoesOn(s, u)
      <4>1. u.ok = TRUE /\ u.more = TRUE
        BY DEF IsReader
      <4> HIDE DEF u
      <4> QED
        BY <2>2, <4>1 DEF GoesOn
    <3>4. v = [u EXCEPT !.more = FALSE]
      BY <3>2, <3>3 DEF Decline
    <3>5. u = [f \in StreamFields |-> u[f]]
      BY DEF IsReader
    <3>6. IsReader(u, buf, max, rep, end, obj)
      OBVIOUS
    <3> HIDE DEF u, v
    <3>7. /\ v = [f \in StreamFields |-> v[f]] /\ v.more = FALSE
          /\ \A f \in StreamFields : f # "more" => v[f] = u[f]
      BY <3>4, <3>5, FieldChanges DEF StreamFields
    <3>8. IsReader(v, buf, max, rep, end, obj)
      BY <3>6, <3>7 DEF IsReader, StreamFields
    <3>9. ~GoesOn(s, v)
      BY <3>7 DEF GoesOn
    <3>10. last = v
      BY <3>1, <3>9, LoopStops DEF v
    <3> QED
      BY <3>8, <3>10
  <2> QED
    BY <2>1, <2>2 DEF Representations
<1>2. w = [last EXCEPT !.pos = end]
  <2>1. last.pos = end
    BY <1>1 DEF IsReader
  <2> HIDE DEF last
  <2> QED
    BY <2>1 DEF StructDone, Representations
<1>3. last = [f \in StreamFields |-> last[f]]
  BY <1>1 DEF IsReader
<1> HIDE DEF w, last
<1>4. /\ w = [f \in StreamFields |-> w[f]] /\ w.pos = end
      /\ \A f \in StreamFields : f # "pos" => w[f] = last[f]
  BY <1>2, <1>3, FieldChanges DEF StreamFields
<1>5. IsReader(w, buf, max, rep, end, obj)
  BY <1>1, <1>4 DEF IsReader, StreamFields
<1> QED
  BY <1>5 DEF w, last

\* Positions only grow.
LEMMA PositionsGrow ==
  ASSUME NEW p \in Nat
  PROVE  /\ AfterLong(p) \in Nat /\ p < AfterLong(p)
         /\ \A rep : AfterHeader(rep, p) \in Nat /\ p <= AfterHeader(rep, p)
         /\ \A n \in Nat : AfterString(p, n) \in Nat /\ p < AfterString(p, n)
         /\ \A n \in Nat : AfterOctets(p, n) \in Nat /\ p < AfterOctets(p, n)
<1>1. AfterLong(p) \in Nat /\ AfterLong(p) >= p + 4
  BY AfterLongFacts
<1> QED
  BY <1>1 DEF AfterHeader, AfterString, AfterOctets

\* It reads the member and goes on to the next one.
LEMMA LoopContinues ==
  ASSUME NEW name, NEW s, NEW g, NEW k, NEW i, NEW buf, NEW max, NEW rep, NEW q \in Nat, NEW obj,
         NEW end \in Nat, Reading(name, s, g, k, buf, max, rep, q, obj, end), q < end,
         Follows(k, i), NEW w, w = MemberOf(name, g[k], k), NEW r, NEW x,
         IsReader(w, buf, max, rep, r, x), w.more = g[k].more
  PROVE  Reading(name, s, g, i, buf, max, rep, r, x, end)
<1> DEFINE u == g[k]
<1>1. /\ IsLoop(name, s, g, MaxMembers)
      /\ s.rep = rep /\ (rep = "XCDRv2" => StructEnd(s) = end)
      /\ IsReader(u, buf, max, rep, q, obj) /\ u.more = TRUE
  BY DEF Reading
<1> HIDE DEF u
<1>2. u.ok = TRUE /\ u.pos = q
  BY <1>1 DEF IsReader
<1>3. s.rep = "XCDRv2" => ~(u.pos >= StructEnd(s))
  BY <1>1, <1>2
<1>4. GoesOn(s, u)
  BY <1>1, <1>2, <1>3 DEF GoesOn
<1>5. g[i] = MemberOf(name, g[k], k)
  BY <1>1, <1>4, LoopStep DEF Follows, u
<1> QED
  BY <1>1, <1>5 DEF Reading, u

\* A member that is a long.
LEMMA LongMember ==
  ASSUME NEW name, NEW s, NEW g, NEW k, NEW i, NEW buf, NEW max \in Nat, NEW rep, NEW q \in Nat,
         NEW obj, NEW end \in Nat, Reading(name, s, g, k, buf, max, rep, q, obj, end), end <= max,
         Follows(k, i), NEW member, MemberOf(name, g[k], k) = GetLong(g[k], member),
         NEW v, HoldsLong(buf, q, v), AfterLong(q) <= end
  PROVE  Reading(name, s, g, i, buf, max, rep, AfterLong(q), [obj EXCEPT ![member] = v], end)
<1> DEFINE u == g[k]
           w == GetLong(u, member)
           x == [obj EXCEPT ![member] = v]
           r == AfterLong(q)
<1>1. r \in Nat /\ q < r
  BY PositionsGrow
<1>2. IsReader(u, buf, max, rep, q, obj)
  BY DEF Reading
<1>3. r <= max /\ q < end
  BY <1>1
<1> HIDE DEF u
<1>4. IsReader(w, buf, max, rep, r, x) /\ w.more = u.more
  BY <1>2, <1>3, GetLongReads
<1>5. w = MemberOf(name, g[k], k)
  BY DEF u
<1> HIDE DEF w, x, r
<1>6. Reading(name, s, g, i, buf, max, rep, r, x, end)
  BY <1>3, <1>4, <1>5, LoopContinues DEF u
<1> QED
  BY <1>6 DEF r, x

\* The loop over a struct that is in buf at p, and what it comes to.
LEMMA LoopRuns ==
  ASSUME NEW s, NEW buf, NEW max \in Nat, NEW rep \in Representations, NEW p \in Nat, NEW obj,
         IsReader(s, buf, max, rep, p, obj), NEW end \in Nat, HoldsHeader(buf, rep, p, end),
         AfterHeader(rep, p) <= max, NEW name, NEW result, ReadsByLoop(name, s, result)
  PROVE  \E g : /\ Reading(name, s, g, 0, buf, max, rep, AfterHeader(rep, p), obj, end)
                /\ result = StructDone(s, g[MaxMembers])
<1>1. PICK g : IsLoop(name, s, g, MaxMembers) /\ result = StructDone(s, g[MaxMembers])
  BY DEF ReadsByLoop
<1>2. /\ IsReader(g[0], buf, max, rep, AfterHeader(rep, p), obj) /\ g[0].more = TRUE
      /\ s.rep = rep /\ (rep = "XCDRv2" => StructEnd(s) = end)
  BY <1>1, LoopStarts
<1> QED
  BY <1>1, <1>2 DEF Reading

LEMMA LoopIsDone ==
  ASSUME NEW name, NEW s, NEW g, NEW k, NEW i, Follows(k, i), NEW buf, NEW max,
         NEW rep \in Representations, NEW obj, NEW end \in Nat,
         Reading(name, s, g, k, buf, max, rep, end, obj, end),
         MemberOf(name, g[k], k) = Decline(g[k]),
         NEW result, result = StructDone(s, g[MaxMembers])
  PROVE  IsReader(result, buf, max, rep, end, obj)
<1>1. /\ IsLoop(name, s, g, MaxMembers)
      /\ s.rep = rep /\ (rep = "XCDRv2" => StructEnd(s) = end)
      /\ IsReader(g[k], buf, max, rep, end, obj) /\ g[k].more = TRUE
  BY DEF Reading
<1>2. k \in 0..MaxMembers /\ k # MaxMembers
  BY DEF Follows, MaxMembers
<1> QED
  BY <1>1, <1>2, LoopEnds

\* A DataBase that is in the buffer is read into the object.
LEMMA DataBaseReads ==
  ASSUME NEW s, NEW buf, NEW max \in Nat, NEW rep \in Representations, NEW p \in Nat, NEW obj,
         IsReader(s, buf, max, rep, p, obj), NEW data, HoldsDataBase(buf, rep, p, data),
         DataBaseEnd(rep, p, data) <= max
  PROVE  IsReader(DeserializeDataBase(s), buf, max, rep, DataBaseEnd(rep, p, data),
                  [obj EXCEPT !.baseId = data.baseId])
<1> DEFINE q == AfterHeader(rep, p)
           end == DataBaseEnd(rep, p, data)
           obj1 == [obj EXCEPT !.baseId = data.baseId]
           result == DeserializeDataBase(s)
<1>1. q \in Nat /\ end \in Nat /\ q <= max /\ end = AfterLong(q)
  <2>1. q \in Nat
    BY PositionsGrow
  <2>2. end = AfterLong(q)
    BY DEF DataBaseEnd
  <2>3. AfterLong(q) \in Nat /\ q < AfterLong(q)
    <3> HIDE DEF q
    <3> QED
      BY <2>1, PositionsGrow
  <2> QED
    BY <2>1, <2>2, <2>3
<1>2. HoldsHeader(buf, rep, p, end) /\ HoldsLong(buf, q, data.baseId) /\ end <= max
  BY DEF HoldsDataBase
<1>3. ReadsByLoop("DataBase", s, result)
  BY DataBaseLoop
<1> HIDE DEF end, result
<1>4. PICK g : /\ Reading("DataBase", s, g, 0, buf, max, rep, q, obj, end)
               /\ result = StructDone(s, g[MaxMembers])
  BY <1>1, <1>2, <1>3, LoopRuns
<1> HIDE DEF q
<1>5. Reading("DataBase", s, g, 1, buf, max, rep, end, obj1, end)
  <2>1. MemberOf("DataBase", g[0], 0) = GetLong(g[0], "baseId") /\ AfterLong(q) <= end
    BY <1>1 DEF MemberOf
  <2>2. Reading("DataBase", s, g, 1, buf, max, rep, AfterLong(q), obj1, end)
    BY <1>1, <1>2, <1>4, <2>1, FirstIterations, LongMember
  <2> QED
    BY <1>1, <2>2
<1>6. MemberOf("DataBase", g[1], 1) = Decline(g[1])
  BY DEF MemberOf
<1> HIDE DEF obj1
<1> QED
  BY <1>1, <1>4, <1>5, <1>6, FirstIterations, LoopIsDone DEF end, obj1, result

\* A ChildData that is in the buffer is read into the object.
LEMMA ChildDataReads ==
  ASSUME NEW s, NEW buf, NEW max \in Nat, NEW rep \in Representations, NEW p \in Nat, NEW obj,
         IsReader(s, buf, max, rep, p, obj), NEW data, HoldsChildData(buf, rep, p, data),
         ChildDataEnd(rep, p, data) <= max
  PROVE  IsReader(DeserializeChildData(s), buf, max, rep, ChildDataEnd(rep, p, data),
                  [obj EXCEPT !.baseId = data.baseId, !.childId = data.childId])
<1> DEFINE q == AfterHeader(rep, p)
           r == AfterLong(q)
           end == ChildDataEnd(rep, p, data)
           obj1 == [obj EXCEPT !.baseId = data.baseId]
           obj2 == [obj1 EXCEPT !.childId = data.childId]
           result == DeserializeChildData(s)
<1>1. q \in Nat /\ r \in Nat /\ end \in Nat /\ q <= max /\ r <= end /\ end = AfterLong(r)
  <2>1. q \in Nat
    BY PositionsGrow
  <2>2. end = AfterLong(r)
    BY DEF ChildDataEnd
  <2>3. r \in Nat /\ q < r
    <3> HIDE DEF q
    <3> QED
      BY <2>1, PositionsGrow
  <2>4. AfterLong(r) \in Nat /\ r < AfterLong(r)
    <3> HIDE DEF r
    <3> QED
      BY <2>3, PositionsGrow
  <2> QED
    BY <2>1, <2>2, <2>3, <2>4
<1>2. /\ HoldsHeader(buf, rep, p, end) /\ HoldsLong(buf, q, data.baseId)
      /\ HoldsLong(buf, r, data.childId) /\ end <= max
  BY DEF HoldsChildData
<1>3. ReadsByLoop("ChildData", s, result)
  BY ChildDataLoop
<1> HIDE DEF end, result
<1>4. PICK g : /\ Reading("ChildData", s, g, 0, buf, max, rep, q, obj, end)
               /\ result = StructDone(s, g[MaxMembers])
  BY <1>1, <1>2, <1>3, LoopRuns
<1> HIDE DEF q
<1>5. Reading("ChildData", s, g, 1, buf, max, rep, r, obj1, end)
  <2>1. MemberOf("ChildData", g[0], 0) = GetLong(g[0], "baseId") /\ AfterLong(q) <= end
    BY <1>1 DEF MemberOf
  <2> QED
    BY <1>1, <1>2, <1>4, <2>1, FirstIterations, LongMember
<1> HIDE DEF r, obj1
<1>6. Reading("ChildData", s, g, 2, buf, max, rep, end, obj2, end)
  <2>1. MemberOf("ChildData", g[1], 1) = GetLong(g[1], "childId") /\ AfterLong(r) <= end
    BY <1>1 DEF MemberOf
  <2>2. Reading("ChildData", s, g, 2, buf, max, rep, AfterLong(r), obj2, end)
    BY <1>1, <1>2, <1>5, <2>1, FirstIterations, LongMember
  <2> QED
    BY <1>1, <2>2
<1>7. MemberOf("ChildData", g[2], 2) = Decline(g[2])
  BY DEF MemberOf
<1>8. IsReader(result, buf, max, rep, end, obj2)
  <2> HIDE DEF obj2
  <2> QED
    BY <1>1, <1>4, <1>6, <1>7, FirstIterations, LoopIsDone
<1> QED
  BY <1>8 DEF end, obj1, result

\* A member that is an octet sequence.
LEMMA OctetsMember ==
  ASSUME NEW name, NEW s, NEW g, NEW k, NEW i, NEW buf, NEW max \in Nat, NEW rep, NEW q \in Nat,
         NEW obj, NEW end \in Nat, Reading(name, s, g, k, buf, max, rep, q, obj, end), end <= max,
         Follows(k, i), NEW member, MemberOf(name, g[k], k) = GetOctets(g[k], member),
         NEW n \in Nat, HoldsOctets(buf, q, n), AfterOctets(q, n) <= end
  PROVE  Reading(name, s, g, i, buf, max, rep, AfterOctets(q, n), [obj EXCEPT ![member] = n], end)
<1> DEFINE u == g[k]
           w == GetOctets(u, member)
           x == [obj EXCEPT ![member] = n]
           r == AfterOctets(q, n)
<1>1. r \in Nat /\ q < r
  BY PositionsGrow
<1>2. IsReader(u, buf, max, rep, q, obj)
  BY DEF Reading
<1>3. r <= max /\ q < end
  BY <1>1
<1> HIDE DEF u
<1>4. IsReader(w, buf, max, rep, r, x) /\ w.more = u.more
  BY <1>2, <1>3, GetOctetsReads
<1>5. w = MemberOf(name, g[k], k)
  BY DEF u
<1> HIDE DEF w, x, r
<1>6. Reading(name, s, g, i, buf, max, rep, r, x, end)
  BY <1>3, <1>4, <1>5, LoopContinues DEF u
<1> QED
  BY <1>6 DEF r, x

\* A member that is a text.
LEMMA StringMember ==
  ASSUME NEW name, NEW s, NEW g, NEW k, NEW i, NEW buf, NEW max \in Nat, NEW rep, NEW q \in Nat,
         NEW obj, NEW end \in Nat, Reading(name, s, g, k, buf, max, rep, q, obj, end), end <= max,
         Follows(k, i), NEW member, MemberOf(name, g[k], k) = GetString(g[k], member),
         NEW n \in Nat, HoldsString(buf, q, n), AfterString(q, n) <= end
  PROVE  Reading(name, s, g, i, buf, max, rep, AfterString(q, n), [obj EXCEPT ![member] = n], end)
<1> DEFINE u == g[k]
           w == GetString(u, member)
           x == [obj EXCEPT ![member] = n]
           r == AfterString(q, n)
<1>1. r \in Nat /\ q < r
  BY PositionsGrow
<1>2. IsReader(u, buf, max, rep, q, obj)
  BY DEF Reading
<1>3. r <= max /\ q < end
  BY <1>1
<1> HIDE DEF u
<1>4. IsReader(w, buf, max, rep, r, x) /\ w.more = u.more
  BY <1>2, <1>3, GetStringReads
<1>5. w = MemberOf(name, g[k], k)
  BY DEF u
<1> HIDE DEF w, x, r
<1>6. Reading(name, s, g, i, buf, max, rep, r, x, end)
  BY <1>3, <1>4, <1>5, LoopContinues DEF u
<1> QED
  BY <1>6 DEF r, x

\* A HelloWorldOne that is in the buffer is read into the object.
LEMMA HelloWorldOneReads ==
  ASSUME NEW s, NEW buf, NEW max \in Nat, NEW rep \in Representations, NEW p \in Nat, NEW obj,
         IsReader(s, buf, max, rep, p, obj), NEW data, data.points \in Nat,
         HoldsHelloWorldOne(buf, rep, p, data), HelloWorldOneEnd(rep, p, data) <= max
  PROVE  IsReader(DeserializeHelloWorldOne(s), buf, max, rep, HelloWorldOneEnd(rep, p, data),
                  [obj EXCEPT !.index = data.index, !.points = data.points])
<1> DEFINE q == AfterHeader(rep, p)
           r == AfterLong(q)
           end == HelloWorldOneEnd(rep, p, data)
           obj1 == [obj EXCEPT !.index = data.index]
           obj2 == [obj1 EXCEPT !.points = data.points]
           result == DeserializeHelloWorldOne(s)
<1>1. /\ q \in Nat /\ r \in Nat /\ end \in Nat /\ q <= max /\ r <= end
      /\ end = AfterOctets(r, data.points)
  <2>1. q \in Nat
    BY PositionsGrow
  <2>2. end = AfterOctets(r, data.points)
    BY DEF HelloWorldOneEnd
  <2>3. r \in Nat /\ q < r
    <3> HIDE DEF q
    <3> QED
      BY <2>1, PositionsGrow
  <2>4. AfterOctets(r, data.points) \in Nat /\ r < AfterOctets(r, data.points)
    <3> HIDE DEF r
    <3> QED
      BY <2>3, PositionsGrow
  <2> QED
    BY <2>1, <2>2, <2>3, <2>4
<1>2. /\ HoldsHeader(buf, rep, p, end) /\ HoldsLong(buf, q, data.index)
      /\ HoldsOctets(buf, r, data.points) /\ end <= max
  BY DEF HoldsHelloWorldOne
<1>3. ReadsByLoop("HelloWorldOne", s, result)
  BY HelloWorldOneLoop
<1> HIDE DEF end, result
<1>4. PICK g : /\ Reading("HelloWorldOne", s, g, 0, buf, max, rep, q, obj, end)
               /\ result = StructDone(s, g[MaxMembers])
  BY <1>1, <1>2, <1>3, LoopRuns
<1> HIDE DEF q
<1>5. Reading("HelloWorldOne", s, g, 1, buf, max, rep, r, obj1, end)
  <2>1. MemberOf("HelloWorldOne", g[0], 0) = GetLong(g[0], "index") /\ AfterLong(q) <= end
    BY <1>1 DEF MemberOf
  <2> QED
    BY <1>1, <1>2, <1>4, <2>1, FirstIterations, LongMember
<1> HIDE DEF r, obj1
<1>6. Reading("HelloWorldOne", s, g, 2, buf, max, rep, end, obj2, end)
  <2> DEFINE n == data.points
  <2>1. MemberOf("HelloWorldOne", g[1], 1) = GetOctets(g[1], "points") /\ AfterOctets(r, n) <= end
    BY <1>1 DEF MemberOf
  <2>2. n \in Nat /\ HoldsOctets(buf, r, n)
    BY <1>2
  <2>3. Reading("HelloWorldOne", s, g, 2, buf, max, rep, AfterOctets(r, n), [obj1 EXCEPT !.points = n], end)
    <3> HIDE DEF n
    <3> QED
      BY <1>1, <1>2, <1>5, <2>1, <2>2, FirstIterations, OctetsMember
  <2> QED
    BY <1>1, <2>3
<1>7. MemberOf("HelloWorldOne", g[2], 2) = Decline(g[2])
  BY DEF MemberOf
<1>8. IsReader(result, buf, max, rep, end, obj2)
  <2> HIDE DEF obj2
  <2> QED
    BY <1>1, <1>4, <1>6, <1>7, FirstIterations, LoopIsDone
<1> QED
  BY <1>8 DEF end, obj1, result

\* The reader of the element at pos: a new object.
ElementReader(start, pos) == DeserializeChildData([start EXCEPT !.pos = pos, !.obj = ChildData])

LEMMA ElementReads ==
  ASSUME NEW s, NEW buf, NEW max \in Nat, NEW rep \in Representations, NEW p, NEW obj,
         IsReader(s, buf, max, rep, p, obj), NEW r \in Nat, r % 4 = 0,
         NEW data \in [baseId : Nat, childId : Nat], HoldsChildData(buf, rep, r, data),
         r + ChildSize(rep) <= max
  PROVE  /\ ElementReader(s, r).ok = TRUE
         /\ ElementReader(s, r).pos = r + ChildSize(rep)
         /\ ElementReader(s, r).obj = data
<1> DEFINE moved == [s EXCEPT !.pos = r]
           u == [s EXCEPT !.pos = r, !.obj = ChildData]
           end == ChildDataEnd(rep, r, data)
           x == [ChildData EXCEPT !.baseId = data.baseId, !.childId = data.childId]
<1>1. s = [f \in StreamFields |-> s[f]]
  BY DEF IsReader
<1>2. u = [moved EXCEPT !.obj = ChildData]
  OBVIOUS
<1>3. /\ moved = [f \in StreamFields |-> moved[f]] /\ moved.pos = r
      /\ \A f \in StreamFields : f # "pos" => moved[f] = s[f]
  BY <1>1, FieldChanges DEF StreamFields
<1> HIDE DEF moved, u
<1>4. /\ u = [f \in StreamFields |-> u[f]] /\ u.obj = ChildData
      /\ \A f \in StreamFields : f # "obj" => u[f] = moved[f]
  BY <1>2, <1>3, FieldChanges DEF StreamFields
<1>5. /\ u.pos = r /\ u.buf = s.buf /\ u.max = s.max /\ u.ok = s.ok /\ u.rep = s.rep
  BY <1>3, <1>4 DEF StreamFields
<1>6. IsReader(u, buf, max, rep, r, ChildData)
  BY <1>4, <1>5 DEF IsReader
<1>7. end = r + ChildSize(rep) /\ ChildDataEnd(rep, r, data) <= max
  BY ChildSizeFacts
<1>8. x = data
  BY DEF ChildData
<1>9. IsReader(DeserializeChildData(u), buf, max, rep, end, x)
  BY <1>6, <1>7, ChildDataReads
<1>10. ElementReader(s, r) = DeserializeChildData(u)
  BY DEF ElementReader, u
<1> QED
  BY <1>7, <1>8, <1>9, <1>10 DEF IsReader

\* GetStructs, for ChildData, once the length is read.
ElementsRead(start, member) ==
  LET size == Taken(start, ElementReader(start, start.pos))
      element == [i \in 1..start.val |-> ElementReader(start, start.pos + (i - 1) * size)]
  IN IF start.ok /\ start.val >= 0 /\ \A i \in DOMAIN element : element[i].ok
     THEN [start EXCEPT !.pos = IF start.val = 0 THEN @ ELSE @ + start.val * size,
                        !.obj[member] = [i \in DOMAIN element |-> element[i].obj]]
     ELSE [start EXCEPT !.ok = FALSE]

LEMMA GetStructsIs ==
  ASSUME NEW s, NEW member
  PROVE  GetStructs(s, member, ChildData, DeserializeChildData)
           = ElementsRead(Get(StructStart(s), 4), member)
  BY DEF GetStructs, ElementsRead, ElementReader, StructStart

\* Where element i of a sequence starts, and where n of them end.
ElementStart(rep, r, i) == r + (i - 1) * ChildSize(rep)
ElementsEnd(rep, r, n) == r + n * ChildSize(rep)

LEMMA ElementsFit ==
  ASSUME NEW rep \in Representations, NEW r \in Nat, r % 4 = 0, NEW n \in Nat
  PROVE  /\ ElementsEnd(rep, r, n) \in Nat /\ r <= ElementsEnd(rep, r, n)
         /\ n = 0 => ElementsEnd(rep, r, n) = r
         /\ n # 0 => 1 \in 1..n
         /\ ElementStart(rep, r, 1) = r
         /\ \A i \in 1..n : /\ ElementStart(rep, r, i) \in Nat /\ ElementStart(rep, r, i) % 4 = 0
                           /\ ElementStart(rep, r, i) + ChildSize(rep) <= ElementsEnd(rep, r, n)
<1>1. ChildSize(rep) \in Nat
  BY ChildSizeIs
<1>2. n * ChildSize(rep) \in Nat /\ (1 - 1) * ChildSize(rep) = 0 /\ (n = 0 => n * ChildSize(rep) = 0)
  BY <1>1
<1>3. ASSUME NEW i \in 1..n
      PROVE  /\ ElementStart(rep, r, i) \in Nat /\ ElementStart(rep, r, i) % 4 = 0
             /\ ElementStart(rep, r, i) + ChildSize(rep) <= ElementsEnd(rep, r, n)
  BY ElementPositions DEF ElementStart, ElementsEnd
<1> DEFINE d == n * ChildSize(rep)
<1>4. ElementsEnd(rep, r, n) = r + d /\ ElementStart(rep, r, 1) = r /\ d \in Nat /\ (n = 0 => d = 0)
  BY <1>2 DEF ElementStart, ElementsEnd
<1> HIDE DEF d
<1> QED
  BY <1>3, <1>4

LEMMA ElementsAreRead ==
  ASSUME NEW s, NEW buf, NEW max \in Nat, NEW rep \in Representations, NEW r \in Nat, r % 4 = 0,
         NEW obj, IsReader(s, buf, max, rep, r, obj),
         NEW q \in Seq([baseId : Nat, childId : Nat]), s.val = Len(q), HoldsElements(buf, rep, r, q),
         ElementsEnd(rep, r, Len(q)) <= max, NEW member
  PROVE  /\ IsReader(ElementsRead(s, member), buf, max, rep, ElementsEnd(rep, r, Len(q)),
                     [obj EXCEPT ![member] = q])
         /\ ElementsRead(s, member).more = s.more
<1> DEFINE n == Len(q)
           size == Taken(s, ElementReader(s, s.pos))
           element == [i \in 1..s.val |-> ElementReader(s, s.pos + (i - 1) * size)]
           end == ElementsEnd(rep, r, n)
           place == IF s.val = 0 THEN s.pos ELSE s.pos + s.val * size
           read == [i \in DOMAIN element |-> element[i].obj]
           moved == [s EXCEPT !.pos = end]
           x == [obj EXCEPT ![member] = q]
           w == ElementsRead(s, member)
<1>1. s.pos = r /\ s.ok = TRUE /\ s = [f \in StreamFields |-> s[f]] /\ s.obj = obj /\ s.val = n
  BY DEF IsReader
<1>2. n \in Nat /\ q = [i \in 1..n |-> q[i]] /\ \A i \in 1..n : q[i] \in [baseId : Nat, childId : Nat]
  <2> DEFINE S == [baseId : Nat, childId : Nat]
  <2>1. q \in Seq(S)
    OBVIOUS
  <2> HIDE DEF S
  <2>2. n \in Nat /\ q = [i \in 1..n |-> q[i]] /\ \A i \in 1..n : q[i] \in S
    BY <2>1
  <2> QED
    BY <2>2 DEF S
<1>3. /\ \A i \in 1..n : HoldsChildData(buf, rep, ElementStart(rep, r, i), q[i])
      /\ end <= max
  BY DEF HoldsElements, ElementStart
<1> HIDE DEF n
<1>4. ASSUME NEW i \in 1..n
      PROVE  /\ ElementReader(s, ElementStart(rep, r, i)).ok = TRUE
             /\ ElementReader(s, ElementStart(rep, r, i)).pos = ElementStart(rep, r, i) + ChildSize(rep)
             /\ ElementReader(s, ElementStart(rep, r, i)).obj = q[i]
  <2> DEFINE at == ElementStart(rep, r, i)
             data == q[i]
             size0 == ChildSize(rep)
  <2>1. at \in Nat /\ at % 4 = 0 /\ at + size0 <= end /\ end \in Nat
    BY <1>2, ElementsFit
  <2>2. HoldsChildData(buf, rep, at, data) /\ data \in [baseId : Nat, childId : Nat]
    BY <1>2, <1>3
  <2>3. at + size0 <= max
    <3>1. size0 \in Nat
      BY ChildSizeIs
    <3> HIDE DEF at, end, size0
    <3> QED
      BY <1>3, <2>1, <3>1
  <2>4. at + ChildSize(rep) <= max
    BY <2>3
  <2> HIDE DEF at, data
  <2>5. /\ ElementReader(s, at).ok = TRUE
        /\ ElementReader(s, at).pos = at + ChildSize(rep)
        /\ ElementReader(s, at).obj = data
    BY <2>1, <2>2, <2>4, ElementReads
  <2> QED
    BY <2>5 DEF at, data
<1>5. n # 0 => size = ChildSize(rep)
  <2> SUFFICES ASSUME n # 0 PROVE size = ChildSize(rep)
    OBVIOUS
  <2>1. 1 \in 1..n /\ ElementStart(rep, r, 1) = r
    BY <1>2, ElementsFit
  <2>2. ElementReader(s, r).pos = r + ChildSize(rep)
    BY <1>4, <2>1
  <2>3. ChildSize(rep) \in Nat
    BY ChildSizeIs
  <2> QED
    BY <1>1, <2>2, <2>3 DEF Taken
<1>6. ASSUME NEW i \in 1..n
      PROVE  element[i].ok = TRUE /\ element[i].obj = q[i]
  <2>1. n # 0
    BY <1>2
  <2>2. element[i] = ElementReader(s, s.pos + (i - 1) * size)
    BY <1>1
  <2> HIDE DEF size, element
  <2>3. element[i] = ElementReader(s, ElementStart(rep, r, i))
    BY <1>1, <1>5, <2>1, <2>2 DEF ElementStart
  <2> QED
    BY <1>4, <2>3
<1>7. DOMAIN element = 1..n
  BY <1>1
<1>8. place = end
  <2> HIDE DEF size, end
  <2>1. CASE n = 0
    BY <1>1, <1>2, <2>1, ElementsFit DEF end
  <2>2. CASE n # 0
    BY <1>1, <1>5, <2>2 DEF end, ElementsEnd
  <2> QED
    BY <2>1, <2>2
<1>9. read = q
  <2> HIDE DEF element
  <2>1. read = [i \in 1..n |-> q[i]]
    BY <1>6, <1>7
  <2> QED
    BY <1>2, <2>1
<1>10. w = [moved EXCEPT !.obj = x]
  <2>1. w = IF s.ok /\ s.val >= 0 /\ \A i \in DOMAIN element : element[i].ok
            THEN [s EXCEPT !.pos = place, !.obj[member] = read]
            ELSE [s EXCEPT !.ok = FALSE]
    BY DEF ElementsRead
  <2> HIDE DEF w, element, place, read, end
  <2>2. s.ok /\ s.val >= 0 /\ \A i \in DOMAIN element : element[i].ok
    <3>1. s.ok /\ s.val >= 0
      BY <1>1, <1>2
    <3>2. ASSUME NEW i \in DOMAIN element
          PROVE  element[i].ok
      <4>1. i \in 1..n
        BY <1>7
      <4> QED
        BY <1>6, <4>1
    <3> QED
      BY <3>1, <3>2
  <2>3. w = [s EXCEPT !.pos = place, !.obj[member] = read]
    BY <2>1, <2>2
  <2>4. w = [s EXCEPT !.pos = end, !.obj = x]
    BY <1>1, <1>8, <1>9, <2>3
  <2> QED
    BY <2>4
<1>11. moved = [s EXCEPT !.pos = end]
  OBVIOUS
<1> HIDE DEF w, element, place, read, end, moved, x
<1>12. /\ moved = [f \in StreamFields |-> moved[f]] /\ moved.pos = end
       /\ \A f \in StreamFields : f # "pos" => moved[f] = s[f]
  BY <1>1, <1>11, FieldChanges DEF StreamFields
<1>13. /\ w = [f \in StreamFields |-> w[f]] /\ w.obj = x
       /\ \A f \in StreamFields : f # "obj" => w[f] = moved[f]
  BY <1>10, <1>12, FieldChanges DEF StreamFields
<1>14. /\ w.pos = end /\ w.buf = s.buf /\ w.max = s.max /\ w.ok = s.ok /\ w.rep = s.rep
       /\ w.more = s.more
  BY <1>12, <1>13 DEF StreamFields
<1>15. IsReader(w, buf, max, rep, end, x)
  BY <1>13, <1>14 DEF IsReader
<1> QED
  BY <1>14, <1>15 DEF w, end, x, n

\* A sequence of ChildData that is in the buffer is read into the object.
LEMMA ChildrenRead ==
  ASSUME NEW s, NEW buf, NEW max \in Nat, NEW rep \in Representations, NEW p \in Nat, NEW obj,
         IsReader(s, buf, max, rep, p, obj), NEW q \in Seq([baseId : Nat, childId : Nat]),
         HoldsChildren(buf, rep, p, q), AfterStructs(rep, p, Len(q), ChildSize(rep)) <= max, NEW member
  PROVE  /\ IsReader(GetStructs(s, member, ChildData, DeserializeChildData), buf, max, rep,
                     AfterStructs(rep, p, Len(q), ChildSize(rep)), [obj EXCEPT ![member] = q])
         /\ GetStructs(s, member, ChildData, DeserializeChildData).more = s.more
<1> DEFINE h == AfterHeader(rep, p)
           r == AfterLong(h)
           n == Len(q)
           end == ElementsEnd(rep, r, n)
           v == StructStart(s)
           start == Get(v, 4)
<1>1. AfterStructs(rep, p, Len(q), ChildSize(rep)) = end
  BY DEF AfterStructs, ElementsEnd
<1>2. n \in Nat /\ h \in Nat /\ p <= h
  <2>1. n \in Nat
    OBVIOUS
  <2>2. h \in Nat /\ p <= h
    BY PositionsGrow
  <2> QED
    BY <2>1, <2>2
<1>3. r \in Nat /\ r % 4 = 0 /\ h <= r
  <2> HIDE DEF h
  <2>1. r \in Nat /\ r % 4 = 0
    BY <1>2, AfterLongFacts
  <2>2. h < r
    BY <1>2, PositionsGrow
  <2> QED
    BY <1>2, <2>1, <2>2
<1>4. end \in Nat /\ r <= end
  <2> HIDE DEF r, n
  <2> QED
    BY <1>2, <1>3, ElementsFit
<1>5. HoldsLong(buf, h, n) /\ HoldsElements(buf, rep, r, q)
  BY DEF HoldsChildren
<1>6. r <= max /\ h <= max /\ end <= max
  <2>1. end <= max
    BY <1>1
  <2> HIDE DEF h, r, end
  <2> QED
    BY <1>2, <1>3, <1>4, <2>1
<1>7. IsReader(v, buf, max, rep, h, obj) /\ v.more = s.more
  <2>1. s.rep = rep
    BY DEF IsReader
  <2>2. CASE rep = "XCDRv1"
    BY <2>1, <2>2 DEF StructStart, AfterHeader
  <2>3. CASE rep = "XCDRv2"
    <3> DEFINE x == AfterStructs(rep, p, Len(q), ChildSize(rep)) - AfterLong(p)
    <3>1. v = Get(s, 4) /\ h = AfterLong(p)
      BY <2>1, <2>3 DEF StructStart, AfterHeader
    <3>2. HoldsLong(buf, p, x)
      BY <2>3 DEF HoldsChildren, HoldsHeader
    <3> HIDE DEF x, v, h
    <3>3. AfterLong(p) <= max
      BY <1>6, <3>1
    <3> QED
      BY <3>1, <3>2, <3>3, GetALong
  <2> QED
    BY <2>2, <2>3 DEF Representations
<1> HIDE DEF h, v
<1>8. IsReader(start, buf, max, rep, r, obj) /\ start.val = n /\ start.more = v.more
  BY <1>2, <1>5, <1>6, <1>7, GetALong
<1>9. GetStructs(s, member, ChildData, DeserializeChildData) = ElementsRead(start, member)
  BY GetStructsIs DEF v
<1> HIDE DEF start, r
<1>10. /\ IsReader(ElementsRead(start, member), buf, max, rep, end, [obj EXCEPT ![member] = q])
       /\ ElementsRead(start, member).more = start.more
  BY <1>3, <1>5, <1>6, <1>8, ElementsAreRead
<1> QED
  BY <1>1, <1>7, <1>8, <1>9, <1>10

\* A member that is such a sequence.
LEMMA ChildrenMember ==
  ASSUME NEW name, NEW s, NEW g, NEW k, NEW i, NEW buf, NEW max \in Nat, NEW rep \in Representations,
         NEW q \in Nat, NEW obj, NEW end \in Nat, Reading(name, s, g, k, buf, max, rep, q, obj, end),
         end <= max, Follows(k, i), NEW member,
         MemberOf(name, g[k], k) = GetStructs(g[k], member, ChildData, DeserializeChildData),
         NEW children \in Seq([baseId : Nat, childId : Nat]), HoldsChildren(buf, rep, q, children),
         NEW r, r = AfterStructs(rep, q, Len(children), ChildSize(rep)), r <= end, q < end
  PROVE  Reading(name, s, g, i, buf, max, rep, r, [obj EXCEPT ![member] = children], end)
<1> DEFINE u == g[k]
           w == GetStructs(u, member, ChildData, DeserializeChildData)
           x == [obj EXCEPT ![member] = children]
<1>1. IsReader(u, buf, max, rep, q, obj)
  BY DEF Reading
<1>2. r \in Nat /\ r <= max
  <2> DEFINE a == AfterLong(AfterHeader(rep, q))
             n == Len(children)
  <2>1. r = ElementsEnd(rep, a, n)
    BY DEF AfterStructs, ElementsEnd
  <2>2. n \in Nat
    OBVIOUS
  <2>3. a \in Nat /\ a % 4 = 0
    <3>1. AfterHeader(rep, q) \in Nat
      BY PositionsGrow
    <3> QED
      BY <3>1, AfterLongFacts
  <2> HIDE DEF a, n
  <2>4. ElementsEnd(rep, a, n) \in Nat
    BY <2>2, <2>3, ElementsFit
  <2> QED
    BY <2>1, <2>4
<1>3. AfterStructs(rep, q, Len(children), ChildSize(rep)) <= max
  BY <1>2
<1> HIDE DEF u
<1>4. IsReader(w, buf, max, rep, r, x) /\ w.more = u.more
  BY <1>1, <1>3, ChildrenRead
<1>5. w = MemberOf(name, g[k], k)
  BY DEF u
<1> HIDE DEF w, x
<1>6. Reading(name, s, g, i, buf, max, rep, r, x, end)
  BY <1>4, <1>5, LoopContinues DEF u
<1> QED
  BY <1>6 DEF x

\* A sequence ends behind where it starts.
LEMMA StructsGrow ==
  ASSUME NEW rep \in Representations, NEW p \in Nat, NEW n \in Nat
  PROVE  AfterStructs(rep, p, n, ChildSize(rep)) \in Nat /\ p < AfterStructs(rep, p, n, ChildSize(rep))
<1> DEFINE h == AfterHeader(rep, p)
           r == AfterLong(h)
           end == ElementsEnd(rep, r, n)
<1>1. h \in Nat /\ p <= h
  BY PositionsGrow
<1>2. r \in Nat /\ r % 4 = 0 /\ h < r
  <2> HIDE DEF h
  <2>1. r \in Nat /\ r % 4 = 0
    BY <1>1, AfterLongFacts
  <2>2. h < r
    BY <1>1, PositionsGrow
  <2> QED
    BY <2>1, <2>2
<1>3. AfterStructs(rep, p, n, ChildSize(rep)) = end
  BY DEF AfterStructs, ElementsEnd
<1> HIDE DEF r, h
<1>4. end \in Nat /\ r <= end
  BY <1>2, ElementsFit
<1> HIDE DEF end
<1>5. end \in Nat /\ p < end
  BY <1>1, <1>2, <1>4
<1> QED
  BY <1>3, <1>5

\* A HelloWorldTwo that is in the buffer is read into the object.
LEMMA HelloWorldTwoReads ==
  ASSUME NEW s, NEW buf, NEW max \in Nat, NEW rep \in Representations, NEW p \in Nat, NEW obj,
         IsReader(s, buf, max, rep, p, obj), NEW data,
         data.message \in Nat, data.children \in Seq([baseId : Nat, childId : Nat]),
         HoldsHelloWorldTwo(buf, rep, p, data), HelloWorldTwoEnd(rep, p, data) <= max
  PROVE  IsReader(DeserializeHelloWorldTwo(s), buf, max, rep, HelloWorldTwoEnd(rep, p, data),
                  [obj EXCEPT !.baseId = data.baseId, !.index = data.index,
                              !.message = data.message, !.children = data.children])
<1> DEFINE text == data.message
           children == data.children
           n == Len(children)
           q0 == AfterHeader(rep, p)
           q1 == AfterLong(q0)
           q2 == AfterLong(q1)
           q3 == AfterString(q2, text)
           end == HelloWorldTwoEnd(rep, p, data)
           obj1 == [obj EXCEPT !.baseId = data.baseId]
           obj2 == [obj1 EXCEPT !.index = data.index]
           obj3 == [obj2 EXCEPT !.message = text]
           obj4 == [obj3 EXCEPT !.children = children]
           result == DeserializeHelloWorldTwo(s)
<1>1. text \in Nat /\ n \in Nat /\ children \in Seq([baseId : Nat, childId : Nat])
  OBVIOUS
<1>2. q0 \in Nat
  BY PositionsGrow
<1>3. end = AfterStructs(rep, q3, n, ChildSize(rep)) /\ end <= max
  BY DEF HelloWorldTwoEnd, ChildSize
<1>4. /\ HoldsHeader(buf, rep, p, end) /\ HoldsLong(buf, q0, data.baseId)
      /\ HoldsLong(buf, q1, data.index) /\ HoldsString(buf, q2, text)
      /\ HoldsChildren(buf, rep, q3, children)
  BY DEF HoldsHelloWorldTwo, HoldsMembersOfTwo
<1>5. ReadsByLoop("HelloWorldTwo", s, result)
  BY HelloWorldTwoLoop
<1> HIDE DEF text, end, result, obj1, obj2, obj3, obj4
<1> HIDE DEF q0
<1>6. q1 \in Nat /\ q0 < q1
  BY <1>2, PositionsGrow
<1> HIDE DEF q1
<1>7. q2 \in Nat /\ q1 < q2
  BY <1>6, PositionsGrow
<1> HIDE DEF q2
<1>8. q3 \in Nat /\ q2 < q3
  BY <1>1, <1>7, PositionsGrow
<1> HIDE DEF q3, n
<1>9. end \in Nat /\ q3 < end
  BY <1>1, <1>3, <1>8, StructsGrow
<1>10. q0 <= max /\ q1 <= end /\ q2 <= end /\ q3 <= end
  BY <1>2, <1>3, <1>6, <1>7, <1>8, <1>9
<1>11. PICK g : /\ Reading("HelloWorldTwo", s, g, 0, buf, max, rep, q0, obj, end)
                /\ result = StructDone(s, g[MaxMembers])
  BY <1>4, <1>5, <1>9, <1>10, LoopRuns DEF q0
<1>12. /\ MemberOf("HelloWorldTwo", g[0], 0) = GetLong(g[0], "baseId")
       /\ MemberOf("HelloWorldTwo", g[1], 1) = GetLong(g[1], "index")
       /\ MemberOf("HelloWorldTwo", g[2], 2) = GetString(g[2], "message")
       /\ MemberOf("HelloWorldTwo", g[3], 3)
            = GetStructs(g[3], "children", ChildData, DeserializeChildData)
       /\ MemberOf("HelloWorldTwo", g[4], 4) = Decline(g[4])
  BY DEF MemberOf
<1>13. Reading("HelloWorldTwo", s, g, 1, buf, max, rep, q1, obj1, end)
  <2>1. AfterLong(q0) <= end
    BY <1>10 DEF q1
  <2> QED
    BY <1>2, <1>3, <1>4, <1>9, <1>11, <1>12, <2>1, FirstIterations, LongMember DEF q1, obj1
<1>14. Reading("HelloWorldTwo", s, g, 2, buf, max, rep, q2, obj2, end)
  <2>1. AfterLong(q1) <= end
    BY <1>10 DEF q2
  <2> QED
    BY <1>3, <1>4, <1>6, <1>9, <1>12, <1>13, <2>1, FirstIterations, LongMember DEF q2, obj2
<1>15. Reading("HelloWorldTwo", s, g, 3, buf, max, rep, q3, obj3, end)
  <2>1. AfterString(q2, text) <= end
    BY <1>10 DEF q3
  <2> QED
    BY <1>1, <1>3, <1>4, <1>7, <1>9, <1>12, <1>14, <2>1, FirstIterations, StringMember DEF q3, obj3
<1>16. Reading("HelloWorldTwo", s, g, 4, buf, max, rep, end, obj4, end)
  <2>1. end = AfterStructs(rep, q3, Len(children), ChildSize(rep)) /\ end <= end
    BY <1>3, <1>9 DEF n
  <2> HIDE DEF children
  <2> QED
    BY <1>1, <1>3, <1>4, <1>8, <1>9, <1>12, <1>15, <2>1, FirstIterations, ChildrenMember DEF obj4
<1>17. IsReader(result, buf, max, rep, end, obj4)
  BY <1>9, <1>11, <1>12, <1>16, FirstIterations, LoopIsDone
<1> QED
  BY <1>17 DEF end, obj1, obj2, obj3, obj4, result, text

\* The encapsulation stays as it is, whatever is written behind it.
LEMMA EncapsulationStays ==
  ASSUME NEW p, IsPayload(p), NEW rep \in Representations, NEW object,
         NEW h, h = Put(NewStream(p, rep, object), Encapsulation, rep), h.ok,
         NEW buf, Beyond(h.buf, buf, 4)
  PROVE  Holds(buf, 0, 4, rep)
<1> DEFINE s == NewStream(p, rep, object)
<1>1. s.max = p.max_size /\ s.rep = rep /\ s.pos = 0 /\ s.ok = TRUE
      /\ s = [f \in StreamFields |-> s[f]]
  BY DEF NewStream, StreamFields
<1> HIDE DEF s
<1>2. s.max \in Nat
  BY <1>1 DEF IsPayload
<1>3. Near(s, s, 0)
  <2>0. s.ok \in BOOLEAN
    BY <1>1, Zenon
  <2>1. s.pos \in Int
    BY <1>1
  <2>2. IsStream(s)
    BY <1>1, <1>2, <2>0, <2>1, Zenon DEF IsStream
  <2> QED
    BY <1>1, <2>2 DEF Near
<1>4. h = Put(s, 4, rep) /\ 4 \in Sizes
  BY DEF s, Encapsulation, Sizes
<1>5. Holds(h.buf, 0 + Alignment(0, 4), 4, rep)
  BY <1>2, <1>3, <1>4, PutWrites
<1>6. 0 + Alignment(0, 4) = 0
  BY DEF Alignment
<1>7. Holds(h.buf, 0, 4, rep)
  BY <1>5, <1>6
<1> QED
  BY <1>4, <1>7 DEF Beyond

\* The stream deserialize starts with, behind the encapsulation it read.
ReaderOf(p, object) ==
  LET header == Get([buf |-> p.data, max |-> p.length, pos |-> 0, ok |-> TRUE,
                     rep |-> "XCDRv2", obj |-> object, val |-> 0, more |-> TRUE], Encapsulation)
  IN [header EXCEPT !.rep = header.val, !.obj = object]

LEMMA EncapsulationRead ==
  ASSUME NEW p, p.length \in Nat, 4 <= p.length, NEW rep, Holds(p.data, 0, 4, rep), NEW object
  PROVE  IsReader(ReaderOf(p, object), p.data, p.length, rep, 4, object)
<1> DEFINE s == [buf |-> p.data, max |-> p.length, pos |-> 0, ok |-> TRUE,
                 rep |-> "XCDRv2", obj |-> object, val |-> 0, more |-> TRUE]
           buf == p.data
           max == p.length
           header == Get(s, 4)
           named == [header EXCEPT !.rep = rep]
           r == [header EXCEPT !.rep = rep, !.obj = object]
<1>1. IsReader(s, buf, max, "XCDRv2", 0, object)
  BY DEF IsReader, StreamFields
<1>2. 0 \in Nat /\ 0 + 4 = 4 /\ 4 \in Nat /\ Alignment(0, 4) = 0 /\ 0 + 4 <= max /\ max \in Nat
  BY DEF Alignment
<1> HIDE DEF s
<1>3. IsReader(header, buf, max, "XCDRv2", 0 + 4, object) /\ header.val = rep
  <2> HIDE DEF buf, max
  <2>1. Holds(buf, 0, 4, rep)
    BY DEF buf
  <2> QED
    BY <1>1, <1>2, <2>1, GetAligned
<1>4. ReaderOf(p, object) = r
  BY <1>3 DEF ReaderOf, s, Encapsulation
<1>5. IsReader(header, buf, max, "XCDRv2", 4, object)
  BY <1>2, <1>3
<1> HIDE DEF header
<1>6. header = [f \in StreamFields |-> header[f]]
  BY <1>5 DEF IsReader
<1>7. r = [named EXCEPT !.obj = object]
  OBVIOUS
<1>8. /\ named = [f \in StreamFields |-> named[f]] /\ named.rep = rep
      /\ \A f \in StreamFields : f # "rep" => named[f] = header[f]
  BY <1>6, FieldChanges DEF StreamFields
<1> HIDE DEF named, r
<1>9. /\ r = [f \in StreamFields |-> r[f]] /\ r.obj = object
      /\ \A f \in StreamFields : f # "obj" => r[f] = named[f]
  BY <1>7, <1>8, FieldChanges DEF StreamFields
<1>10. /\ r.pos = header.pos /\ r.buf = header.buf /\ r.max = header.max /\ r.ok = header.ok
       /\ r.rep = rep
  BY <1>8, <1>9 DEF StreamFields
<1>11. IsReader(r, buf, max, rep, 4, object)
  BY <1>5, <1>9, <1>10 DEF IsReader
<1> QED
  BY <1>4, <1>11

\* The payload serialize makes of a stream that is in order.
LEMMA FilledPayload ==
  ASSUME NEW p, IsPayload(p), NEW w, w.ok = TRUE,
         NEW q, q = [p EXCEPT !.data = w.buf, !.length = IF w.ok THEN w.pos ELSE @]
  PROVE  q.data = w.buf /\ q.length = w.pos
<1>1. DOMAIN p = {"data", "length", "max_size"}
  BY DEF IsPayload
<1>2. q = [p EXCEPT !.data = w.buf, !.length = w.pos]
  OBVIOUS
<1> QED
  BY <1>1, <1>2

(***************************************************************************)
(* What serialize wrote, deserialize reads, whatever the payload held.     *)
(***************************************************************************)
LEMMA DataBaseRoundTrip ==
  ASSUME NEW rep \in Representations, NEW p, IsPayload(p), NEW data \in Messages["DataBase"],
         Serialize("DataBase", data, p, rep).ok
  PROVE  LET q == Serialize("DataBase", data, p, rep).payload
         IN Deserialize("DataBase", q).ok = TRUE /\ Deserialize("DataBase", q).data = data
<1> DEFINE s == NewStream(p, rep, DataBase)
           h == Put(s, Encapsulation, rep)
           w == SerializeDataBase(h, data)
           n == DataBaseEnd(rep, 4, data)
           q == [p EXCEPT !.data = w.buf, !.length = IF w.ok THEN w.pos ELSE @]
           result == Serialize("DataBase", data, p, rep)
           r == ReaderOf(q, DataBase)
           end == DeserializeDataBase(r)
           x == [DataBase EXCEPT !.baseId = data.baseId]
<1>1. data \in [baseId : Nat]
  BY MessagesAssumption
<1>2. n \in Nat /\ 4 <= n
  BY <1>1, Shift
<1>3. result.ok = w.ok /\ result.payload = q
  BY DEF Serialize, DataBasePubSubType!serialize, DataBasePubSubType!Stream, NewStream, Encapsulation,
         DataBasePubSubType!Encapsulation, Put, DataBasePubSubType!Put, Alignment,
         DataBasePubSubType!Alignment, Overwrite, DataBasePubSubType!Overwrite
<1>4. s.max = p.max_size /\ s.max \in Nat /\ s.rep = rep /\ Near(s, h, 4)
  BY EncapsulationReaches DEF IsPayload
<1>5. Reaches(s, w, n)
  <2> HIDE DEF s, h, n
  <2> QED
    BY <1>1, <1>2, <1>4, DataBaseReaches DEF n
<1>6. w.ok = TRUE /\ w.pos = n
  <2>1. w.ok \in BOOLEAN
    <3> HIDE DEF s, w, n
    <3> QED
      BY <1>2, <1>4, <1>5, ReachesOk
  <2>2. w.ok = TRUE
    <3> HIDE DEF w, result
    <3> QED
      BY <1>3, <2>1 DEF result
  <2> HIDE DEF s, w, n
  <2> QED
    BY <1>5, <2>2 DEF Reaches, Near
<1>7. h.ok /\ HoldsDataBase(w.buf, rep, 4, data) /\ Beyond(h.buf, w.buf, 4)
  <2> HIDE DEF s, h
  <2> QED
    BY <1>1, <1>4, <1>6, DataBaseWrites
<1>8. Holds(w.buf, 0, 4, rep)
  <2> DEFINE buf == w.buf
  <2>1. Beyond(h.buf, buf, 4) /\ h.ok /\ h = Put(NewStream(p, rep, DataBase), Encapsulation, rep)
    BY <1>7
  <2> HIDE DEF h, buf
  <2>2. Holds(buf, 0, 4, rep)
    BY <2>1, EncapsulationStays
  <2> QED
    BY <2>2 DEF buf
<1> HIDE DEF w, h, s, result
<1>9. q.data = w.buf /\ q.length = n
  <2>1. q.data = w.buf /\ q.length = w.pos
    BY <1>6, FilledPayload
  <2> QED
    BY <1>6, <2>1
<1> HIDE DEF q, n
<1>10. IsReader(r, q.data, q.length, rep, 4, DataBase)
  BY <1>2, <1>8, <1>9, EncapsulationRead
<1>11. IsReader(r, w.buf, n, rep, 4, DataBase)
  BY <1>9, <1>10
<1> HIDE DEF r, x
<1>12. IsReader(end, w.buf, n, rep, n, x)
  <2> DEFINE buf == w.buf
  <2>1. HoldsDataBase(buf, rep, 4, data) /\ IsReader(r, buf, n, rep, 4, DataBase)
    BY <1>7, <1>11
  <2>2. DataBaseEnd(rep, 4, data) <= n /\ 4 \in Nat
    BY <1>2 DEF n
  <2> HIDE DEF buf
  <2>3. IsReader(end, buf, n, rep, DataBaseEnd(rep, 4, data), x)
    BY <1>1, <1>2, <2>1, <2>2, DataBaseReads DEF x
  <2> QED
    BY <2>3 DEF buf, n
<1>13. x = data
  BY <1>1 DEF x, DataBase
<1>14. Deserialize("DataBase", q) = [ok |-> end.ok, data |-> end.obj]
  BY DEF Deserialize, DataBasePubSubType!deserialize, DataBasePubSubType!createData,
         DataBasePubSubType!Stream, DataBasePubSubType!Encapsulation, DataBasePubSubType!Get,
         DataBasePubSubType!Alignment, DataBasePubSubType!Garbage, Get, Alignment, Garbage,
         Encapsulation, ReaderOf, r
<1>15. end.ok = TRUE /\ end.obj = x
  BY <1>12 DEF IsReader
<1>16. Deserialize("DataBase", q).ok = TRUE /\ Deserialize("DataBase", q).data = data
  BY <1>13, <1>14, <1>15
<1> QED
  BY <1>3, <1>16 DEF result

LEMMA ChildDataRoundTrip ==
  ASSUME NEW rep \in Representations, NEW p, IsPayload(p), NEW data \in Messages["ChildData"],
         Serialize("ChildData", data, p, rep).ok
  PROVE  LET q == Serialize("ChildData", data, p, rep).payload
         IN Deserialize("ChildData", q).ok = TRUE /\ Deserialize("ChildData", q).data = data
<1> DEFINE s == NewStream(p, rep, ChildData)
           h == Put(s, Encapsulation, rep)
           w == SerializeChildData(h, data)
           n == ChildDataEnd(rep, 4, data)
           q == [p EXCEPT !.data = w.buf, !.length = IF w.ok THEN w.pos ELSE @]
           result == Serialize("ChildData", data, p, rep)
           r == ReaderOf(q, ChildData)
           end == DeserializeChildData(r)
           x == [ChildData EXCEPT !.baseId = data.baseId, !.childId = data.childId]
<1>1. data \in [baseId : Nat, childId : Nat]
  BY MessagesAssumption
<1>2. n \in Nat /\ 4 <= n
  BY <1>1, Shift
<1>3. result.ok = w.ok /\ result.payload = q
  BY DEF Serialize, ChildDataPubSubType!serialize, ChildDataPubSubType!Stream, NewStream, Encapsulation,
         ChildDataPubSubType!Encapsulation, Put, ChildDataPubSubType!Put, Alignment,
         ChildDataPubSubType!Alignment, Overwrite, ChildDataPubSubType!Overwrite
<1>4. s.max = p.max_size /\ s.max \in Nat /\ s.rep = rep /\ Near(s, h, 4)
  BY EncapsulationReaches DEF IsPayload
<1>5. Reaches(s, w, n)
  <2> HIDE DEF s, h, n
  <2> QED
    BY <1>1, <1>2, <1>4, ChildDataReaches DEF n
<1>6. w.ok = TRUE /\ w.pos = n
  <2>1. w.ok \in BOOLEAN
    <3> HIDE DEF s, w, n
    <3> QED
      BY <1>2, <1>4, <1>5, ReachesOk
  <2>2. w.ok = TRUE
    <3> HIDE DEF w, result
    <3> QED
      BY <1>3, <2>1 DEF result
  <2> HIDE DEF s, w, n
  <2> QED
    BY <1>5, <2>2 DEF Reaches, Near
<1>7. h.ok /\ HoldsChildData(w.buf, rep, 4, data) /\ Beyond(h.buf, w.buf, 4)
  <2> HIDE DEF s, h
  <2> QED
    BY <1>1, <1>4, <1>6, ChildDataWrites
<1>8. Holds(w.buf, 0, 4, rep)
  <2> DEFINE buf == w.buf
  <2>1. Beyond(h.buf, buf, 4) /\ h.ok /\ h = Put(NewStream(p, rep, ChildData), Encapsulation, rep)
    BY <1>7
  <2> HIDE DEF h, buf
  <2>2. Holds(buf, 0, 4, rep)
    BY <2>1, EncapsulationStays
  <2> QED
    BY <2>2 DEF buf
<1> HIDE DEF w, h, s, result
<1>9. q.data = w.buf /\ q.length = n
  <2>1. q.data = w.buf /\ q.length = w.pos
    BY <1>6, FilledPayload
  <2> QED
    BY <1>6, <2>1
<1> HIDE DEF q, n
<1>10. IsReader(r, q.data, q.length, rep, 4, ChildData)
  BY <1>2, <1>8, <1>9, EncapsulationRead
<1>11. IsReader(r, w.buf, n, rep, 4, ChildData)
  BY <1>9, <1>10
<1> HIDE DEF r, x
<1>12. IsReader(end, w.buf, n, rep, n, x)
  <2> DEFINE buf == w.buf
  <2>1. HoldsChildData(buf, rep, 4, data) /\ IsReader(r, buf, n, rep, 4, ChildData)
    BY <1>7, <1>11
  <2>2. ChildDataEnd(rep, 4, data) <= n /\ 4 \in Nat
    BY <1>2 DEF n
  <2> HIDE DEF buf
  <2>3. IsReader(end, buf, n, rep, ChildDataEnd(rep, 4, data), x)
    BY <1>1, <1>2, <2>1, <2>2, ChildDataReads DEF x
  <2> QED
    BY <2>3 DEF buf, n
<1>13. x = data
  BY <1>1 DEF x, ChildData
<1>14. Deserialize("ChildData", q) = [ok |-> end.ok, data |-> end.obj]
  BY DEF Deserialize, ChildDataPubSubType!deserialize, ChildDataPubSubType!createData,
         ChildDataPubSubType!Stream, ChildDataPubSubType!Encapsulation, ChildDataPubSubType!Get,
         ChildDataPubSubType!Alignment, ChildDataPubSubType!Garbage, Get, Alignment, Garbage,
         Encapsulation, ReaderOf, r
<1>15. end.ok = TRUE /\ end.obj = x
  BY <1>12 DEF IsReader
<1>16. Deserialize("ChildData", q).ok = TRUE /\ Deserialize("ChildData", q).data = data
  BY <1>13, <1>14, <1>15
<1> QED
  BY <1>3, <1>16 DEF result

LEMMA HelloWorldOneRoundTrip ==
  ASSUME NEW rep \in Representations, NEW p, IsPayload(p), NEW data \in Messages["HelloWorldOne"],
         Serialize("HelloWorldOne", data, p, rep).ok
  PROVE  LET q == Serialize("HelloWorldOne", data, p, rep).payload
         IN Deserialize("HelloWorldOne", q).ok = TRUE /\ Deserialize("HelloWorldOne", q).data = data
<1> DEFINE s == NewStream(p, rep, HelloWorldOne)
           h == Put(s, Encapsulation, rep)
           w == SerializeHelloWorldOne(h, data)
           n == HelloWorldOneEnd(rep, 4, data)
           q == [p EXCEPT !.data = w.buf, !.length = IF w.ok THEN w.pos ELSE @]
           result == Serialize("HelloWorldOne", data, p, rep)
           r == ReaderOf(q, HelloWorldOne)
           end == DeserializeHelloWorldOne(r)
           x == [HelloWorldOne EXCEPT !.index = data.index, !.points = data.points]
<1>1. data \in [index : Nat, points : Nat]
  BY MessagesAssumption
<1>2. n \in Nat /\ 4 <= n
  BY <1>1, Shift
<1>3. result.ok = w.ok /\ result.payload = q
  BY DEF Serialize, HelloWorldOnePubSubType!serialize, HelloWorldOnePubSubType!Stream, NewStream, Encapsulation,
         HelloWorldOnePubSubType!Encapsulation, Put, HelloWorldOnePubSubType!Put, Alignment,
         HelloWorldOnePubSubType!Alignment, Overwrite, HelloWorldOnePubSubType!Overwrite
<1>4. s.max = p.max_size /\ s.max \in Nat /\ s.rep = rep /\ Near(s, h, 4)
  BY EncapsulationReaches DEF IsPayload
<1>5. Reaches(s, w, n)
  <2> HIDE DEF s, h, n
  <2> QED
    BY <1>1, <1>2, <1>4, HelloWorldOneReaches DEF n
<1>6. w.ok = TRUE /\ w.pos = n
  <2>1. w.ok \in BOOLEAN
    <3> HIDE DEF s, w, n
    <3> QED
      BY <1>2, <1>4, <1>5, ReachesOk
  <2>2. w.ok = TRUE
    <3> HIDE DEF w, result
    <3> QED
      BY <1>3, <2>1 DEF result
  <2> HIDE DEF s, w, n
  <2> QED
    BY <1>5, <2>2 DEF Reaches, Near
<1>7. h.ok /\ HoldsHelloWorldOne(w.buf, rep, 4, data) /\ Beyond(h.buf, w.buf, 4)
  <2> HIDE DEF s, h
  <2> QED
    BY <1>1, <1>4, <1>6, HelloWorldOneWrites
<1>8. Holds(w.buf, 0, 4, rep)
  <2> DEFINE buf == w.buf
  <2>1. Beyond(h.buf, buf, 4) /\ h.ok /\ h = Put(NewStream(p, rep, HelloWorldOne), Encapsulation, rep)
    BY <1>7
  <2> HIDE DEF h, buf
  <2>2. Holds(buf, 0, 4, rep)
    BY <2>1, EncapsulationStays
  <2> QED
    BY <2>2 DEF buf
<1> HIDE DEF w, h, s, result
<1>9. q.data = w.buf /\ q.length = n
  <2>1. q.data = w.buf /\ q.length = w.pos
    BY <1>6, FilledPayload
  <2> QED
    BY <1>6, <2>1
<1> HIDE DEF q, n
<1>10. IsReader(r, q.data, q.length, rep, 4, HelloWorldOne)
  BY <1>2, <1>8, <1>9, EncapsulationRead
<1>11. IsReader(r, w.buf, n, rep, 4, HelloWorldOne)
  BY <1>9, <1>10
<1> HIDE DEF r, x
<1>12. IsReader(end, w.buf, n, rep, n, x)
  <2> DEFINE buf == w.buf
  <2>1. HoldsHelloWorldOne(buf, rep, 4, data) /\ IsReader(r, buf, n, rep, 4, HelloWorldOne)
    BY <1>7, <1>11
  <2>2. HelloWorldOneEnd(rep, 4, data) <= n /\ 4 \in Nat
    BY <1>2 DEF n
  <2> HIDE DEF buf
  <2>3. IsReader(end, buf, n, rep, HelloWorldOneEnd(rep, 4, data), x)
    BY <1>1, <1>2, <2>1, <2>2, HelloWorldOneReads DEF x
  <2> QED
    BY <2>3 DEF buf, n
<1>13. x = data
  BY <1>1 DEF x, HelloWorldOne
<1>14. Deserialize("HelloWorldOne", q) = [ok |-> end.ok, data |-> end.obj]
  BY DEF Deserialize, HelloWorldOnePubSubType!deserialize, HelloWorldOnePubSubType!createData,
         HelloWorldOnePubSubType!Stream, HelloWorldOnePubSubType!Encapsulation, HelloWorldOnePubSubType!Get,
         HelloWorldOnePubSubType!Alignment, HelloWorldOnePubSubType!Garbage, Get, Alignment, Garbage,
         Encapsulation, ReaderOf, r
<1>15. end.ok = TRUE /\ end.obj = x
  BY <1>12 DEF IsReader
<1>16. Deserialize("HelloWorldOne", q).ok = TRUE /\ Deserialize("HelloWorldOne", q).data = data
  BY <1>13, <1>14, <1>15
<1> QED
  BY <1>3, <1>16 DEF result

LEMMA HelloWorldTwoRoundTrip ==
  ASSUME NEW rep \in Representations, NEW p, IsPayload(p), NEW data \in Messages["HelloWorldTwo"],
         Serialize("HelloWorldTwo", data, p, rep).ok
  PROVE  LET q == Serialize("HelloWorldTwo", data, p, rep).payload
         IN Deserialize("HelloWorldTwo", q).ok = TRUE /\ Deserialize("HelloWorldTwo", q).data = data
<1> DEFINE s == NewStream(p, rep, HelloWorldTwo)
           h == Put(s, Encapsulation, rep)
           w == SerializeHelloWorldTwo(h, data)
           n == HelloWorldTwoEnd(rep, 4, data)
           q == [p EXCEPT !.data = w.buf, !.length = IF w.ok THEN w.pos ELSE @]
           result == Serialize("HelloWorldTwo", data, p, rep)
           r == ReaderOf(q, HelloWorldTwo)
           end == DeserializeHelloWorldTwo(r)
           x == [HelloWorldTwo EXCEPT !.baseId = data.baseId, !.index = data.index,
                                    !.message = data.message, !.children = data.children]
<1>1. data \in [baseId : Nat, index : Nat, message : Nat,
                  children : Seq([baseId : Nat, childId : Nat])]
  BY MessagesAssumption
<1>2. n \in Nat /\ 4 <= n
  BY <1>1, ShiftTwo
<1>3. result.ok = w.ok /\ result.payload = q
  BY DEF Serialize, HelloWorldTwoPubSubType!serialize, HelloWorldTwoPubSubType!Stream, NewStream, Encapsulation,
         HelloWorldTwoPubSubType!Encapsulation, Put, HelloWorldTwoPubSubType!Put, Alignment,
         HelloWorldTwoPubSubType!Alignment, Overwrite, HelloWorldTwoPubSubType!Overwrite
<1>4. s.max = p.max_size /\ s.max \in Nat /\ s.rep = rep /\ Near(s, h, 4)
  BY EncapsulationReaches DEF IsPayload
<1>5. Reaches(s, w, n)
  <2> HIDE DEF s, h, n
  <2> QED
    BY <1>1, <1>2, <1>4, HelloWorldTwoReaches DEF n
<1>6. w.ok = TRUE /\ w.pos = n
  <2>1. w.ok \in BOOLEAN
    <3> HIDE DEF s, w, n
    <3> QED
      BY <1>2, <1>4, <1>5, ReachesOk
  <2>2. w.ok = TRUE
    <3> HIDE DEF w, result
    <3> QED
      BY <1>3, <2>1 DEF result
  <2> HIDE DEF s, w, n
  <2> QED
    BY <1>5, <2>2 DEF Reaches, Near
<1>7. h.ok /\ HoldsHelloWorldTwo(w.buf, rep, 4, data) /\ Beyond(h.buf, w.buf, 4)
  <2> HIDE DEF s, h
  <2> QED
    BY <1>1, <1>4, <1>6, HelloWorldTwoWrites
<1>8. Holds(w.buf, 0, 4, rep)
  <2> DEFINE buf == w.buf
  <2>1. Beyond(h.buf, buf, 4) /\ h.ok /\ h = Put(NewStream(p, rep, HelloWorldTwo), Encapsulation, rep)
    BY <1>7
  <2> HIDE DEF h, buf
  <2>2. Holds(buf, 0, 4, rep)
    BY <2>1, EncapsulationStays
  <2> QED
    BY <2>2 DEF buf
<1> HIDE DEF w, h, s, result
<1>9. q.data = w.buf /\ q.length = n
  <2>1. q.data = w.buf /\ q.length = w.pos
    BY <1>6, FilledPayload
  <2> QED
    BY <1>6, <2>1
<1> HIDE DEF q, n
<1>10. IsReader(r, q.data, q.length, rep, 4, HelloWorldTwo)
  BY <1>2, <1>8, <1>9, EncapsulationRead
<1>11. IsReader(r, w.buf, n, rep, 4, HelloWorldTwo)
  BY <1>9, <1>10
<1> HIDE DEF r, x
<1>12. IsReader(end, w.buf, n, rep, n, x)
  <2> DEFINE buf == w.buf
  <2>1. HoldsHelloWorldTwo(buf, rep, 4, data) /\ IsReader(r, buf, n, rep, 4, HelloWorldTwo)
    BY <1>7, <1>11
  <2>2. HelloWorldTwoEnd(rep, 4, data) <= n /\ 4 \in Nat
    BY <1>2 DEF n
  <2> HIDE DEF buf
  <2>3. IsReader(end, buf, n, rep, HelloWorldTwoEnd(rep, 4, data), x)
    BY <1>1, <1>2, <2>1, <2>2, HelloWorldTwoReads DEF x
  <2> QED
    BY <2>3 DEF buf, n
<1>13. x = data
  BY <1>1 DEF x, HelloWorldTwo
<1>14. Deserialize("HelloWorldTwo", q) = [ok |-> end.ok, data |-> end.obj]
  BY DEF Deserialize, HelloWorldTwoPubSubType!deserialize, HelloWorldTwoPubSubType!createData,
         HelloWorldTwoPubSubType!Stream, HelloWorldTwoPubSubType!Encapsulation, HelloWorldTwoPubSubType!Get,
         HelloWorldTwoPubSubType!Alignment, HelloWorldTwoPubSubType!Garbage, Get, Alignment, Garbage,
         Encapsulation, ReaderOf, r
<1>15. end.ok = TRUE /\ end.obj = x
  BY <1>12 DEF IsReader
<1>16. Deserialize("HelloWorldTwo", q).ok = TRUE /\ Deserialize("HelloWorldTwo", q).data = data
  BY <1>13, <1>14, <1>15
<1> QED
  BY <1>3, <1>16 DEF result
-----------------------------------------------------------------------------
\* The sizes the generator declares.

\* Aligned positions are 4 apart.
LEMMA AlignedApart ==
  ASSUME NEW p \in Nat, NEW q \in Nat, p % 4 = 0, q % 4 = 0, p > q
  PROVE  p >= q + 4
  OBVIOUS

\* What follows a long that starts by an aligned position starts 4 later.
LEMMA AfterLongUpTo ==
  ASSUME NEW p \in Nat, NEW q \in Nat, p <= q, q % 4 = 0
  PROVE  AfterLong(p) <= q + 4
<1> DEFINE a == Alignment(p, 4)
<1>1. a \in 0..3 /\ (p + a) % 4 = 0 /\ AfterLong(p) = p + a + 4
  BY AlignmentFacts DEF AfterLong
<1> HIDE DEF a
<1>2. p + a \in Nat
  BY <1>1
<1>3. ~(p + a >= q + 4)
  BY <1>1
<1>4. ~(p + a > q)
  BY <1>1, <1>2, <1>3, AlignedApart, Zenon
<1> QED
  BY <1>1, <1>4

\* m_typeSize of the four types.
LEMMA TypeSizes ==
  /\ TypeSize("DataBase") = 12
  /\ TypeSize("ChildData") = 16
  /\ TypeSize("HelloWorldTwo") = 1484
  /\ TypeSize("HelloWorldOne") = 10000016
<1>1. TypeSize("DataBase") = 12
  BY DEF TypeSize, DataBasePubSubType!m_typeSize, DataBasePubSubType!Alignment,
         DataBasePubSubType!Encapsulation, DataBase_max_cdr_typesize
<1>2. TypeSize("ChildData") = 16
  BY DEF TypeSize, ChildDataPubSubType!m_typeSize, ChildDataPubSubType!Alignment,
         ChildDataPubSubType!Encapsulation, ChildData_max_cdr_typesize
<1>3. TypeSize("HelloWorldTwo") = 1484
  BY DEF TypeSize, HelloWorldTwoPubSubType!m_typeSize, HelloWorldTwoPubSubType!Alignment,
         HelloWorldTwoPubSubType!Encapsulation, HelloWorldTwo_max_cdr_typesize
<1>4. TypeSize("HelloWorldOne") = 10000016
  BY DEF TypeSize, HelloWorldOnePubSubType!m_typeSize, HelloWorldOnePubSubType!Alignment,
         HelloWorldOnePubSubType!Encapsulation, HelloWorldOne_max_cdr_typesize
<1> QED
  BY <1>1, <1>2, <1>3, <1>4

\* Within its bounds the largest HelloWorldTwo has 1480 bytes.
LEMMA LargestTwo ==
  ASSUME NEW rep \in Representations, NEW data,
         data.message \in Nat, data.message <= MaxMessage,
         data.children \in Seq([baseId : Nat, childId : Nat]), Len(data.children) <= MaxChildren
  PROVE  HelloWorldTwoEnd(rep, 0, data) <= 1480
<1> DEFINE fixed == AfterLong(AfterLong(AfterHeader(rep, 0)))
           text == AfterString(fixed, data.message)
           header == AfterHeader(rep, text)
           length == AfterLong(header)
           elements == Len(data.children) * ChildSize(rep)
<1>1. fixed \in Nat /\ AfterLong(fixed) = fixed + 4
      /\ fixed = IF rep = "XCDRv1" THEN 8 ELSE 12
  BY DEF AfterHeader, AfterLong, Alignment, Representations
<1>2. text \in Nat /\ text <= fixed + 260
  <2> HIDE DEF fixed
  <2> QED
    BY <1>1 DEF AfterString, MaxMessage
<1>3. header \in Nat /\ length \in Nat /\ length <= IF rep = "XCDRv1" THEN 272 ELSE 280
  <2> HIDE DEF text, fixed, header
  <2>1. text <= IF rep = "XCDRv1" THEN 268 ELSE 272
    BY <1>1, <1>2
  <2>2. CASE rep = "XCDRv1"
    <3>1. header = text
      BY <2>2 DEF header, AfterHeader
    <3>2. AfterLong(header) <= 268 + 4 /\ AfterLong(header) \in Nat
      <4>1. 268 \in Nat /\ 268 % 4 = 0 /\ header \in Nat /\ header <= 268
        BY <1>2, <2>1, <2>2, <3>1
      <4>2. AfterLong(header) \in Nat
        BY <4>1, AfterLongFacts
      <4> QED
        BY <4>1, <4>2, AfterLongUpTo, Zenon
    <3> QED
      BY <1>2, <2>2, <3>1, <3>2
  <2>3. CASE rep = "XCDRv2"
    <3>1. header = AfterLong(text)
      BY <2>3 DEF header, AfterHeader
    <3>2. AfterLong(text) <= 272 + 4 /\ AfterLong(text) \in Nat
      <4>1. 272 \in Nat /\ 272 % 4 = 0 /\ text <= 272
        BY <2>1, <2>3
      <4>2. AfterLong(text) \in Nat
        BY <1>2, AfterLongFacts
      <4> QED
        BY <1>2, <4>1, <4>2, AfterLongUpTo, Zenon
    <3>3. AfterLong(header) <= 276 + 4 /\ AfterLong(header) \in Nat
      <4>1. 276 \in Nat /\ 276 % 4 = 0 /\ header \in Nat /\ header <= 276
        BY <3>1, <3>2
      <4>2. AfterLong(header) \in Nat
        BY <4>1, AfterLongFacts
      <4> QED
        BY <4>1, <4>2, AfterLongUpTo, Zenon
    <3> QED
      BY <2>3, <3>1, <3>2, <3>3
  <2> QED
    BY <2>2, <2>3 DEF Representations
<1>4. elements \in Nat /\ elements <= IF rep = "XCDRv1" THEN 800 ELSE 1200
  <2>1. ChildSize(rep) = IF rep = "XCDRv1" THEN 8 ELSE 12
    BY DEF ChildSize, ChildDataEnd, AfterHeader, AfterLong, Alignment, Representations
  <2>2. Len(data.children) \in Nat
    OBVIOUS
  <2>3. Len(data.children) <= 100
    BY DEF MaxChildren
  <2>4. CASE rep = "XCDRv1"
    BY <2>1, <2>2, <2>3, <2>4
  <2>5. CASE rep = "XCDRv2"
    BY <2>1, <2>2, <2>3, <2>5
  <2> QED
    BY <2>4, <2>5 DEF Representations
<1>5. HelloWorldTwoEnd(rep, 0, data) = length + elements
  BY DEF HelloWorldTwoEnd, AfterStructs, ChildSize
<1> HIDE DEF length, elements
<1> QED
  BY <1>3, <1>4, <1>5

\* max_cdr_typesize is enough for every message within the bounds.
LEMMA DeclaredSizeIsEnough ==
  ASSUME NEW m \in Messages[topicType], topicType \in TypeNames, WithinBounds(m),
         NEW rep \in Representations
  PROVE  SerializedSize(topicType, m, rep) <= TypeSize(topicType)
<1>1. CASE topicType = "DataBase"
  <2>1. SerializedSize(topicType, m, rep) = DataBaseEnd(rep, 0, m) + 4
    BY <1>1 DEF SerializedSize, DataBasePubSubType!getSerializedSizeProvider, DataBasePubSubType!Encapsulation
  <2>2. DataBaseEnd(rep, 0, m) <= 8 /\ DataBaseEnd(rep, 0, m) \in Nat
    BY DEF DataBaseEnd, AfterHeader, AfterLong, Alignment, Representations
  <2> QED
    BY <1>1, <2>1, <2>2, TypeSizes
<1>2. CASE topicType = "ChildData"
  <2>1. SerializedSize(topicType, m, rep) = ChildDataEnd(rep, 0, m) + 4
    BY <1>2 DEF SerializedSize, ChildDataPubSubType!getSerializedSizeProvider, ChildDataPubSubType!Encapsulation
  <2>2. ChildDataEnd(rep, 0, m) <= 12 /\ ChildDataEnd(rep, 0, m) \in Nat
    BY DEF ChildDataEnd, AfterHeader, AfterLong, Alignment, Representations
  <2> QED
    BY <1>2, <2>1, <2>2, TypeSizes
<1>3. CASE topicType = "HelloWorldOne"
  <2>1. SerializedSize(topicType, m, rep) = HelloWorldOneEnd(rep, 0, m) + 4
    BY <1>3 DEF SerializedSize, HelloWorldOnePubSubType!getSerializedSizeProvider, HelloWorldOnePubSubType!Encapsulation
  <2>2. m.points \in Nat /\ m.points <= 10000000
    BY <1>3, MessagesAssumption DEF WithinBounds, MaxPoints
  <2>3. HelloWorldOneEnd(rep, 0, m) <= 10000012 /\ HelloWorldOneEnd(rep, 0, m) \in Nat
    BY <2>2 DEF HelloWorldOneEnd, AfterOctets, AfterHeader, AfterLong, Alignment, Representations
  <2> QED
    BY <1>3, <2>1, <2>3, TypeSizes
<1>4. CASE topicType = "HelloWorldTwo"
  <2>1. SerializedSize(topicType, m, rep) = HelloWorldTwoEnd(rep, 0, m) + 4
    BY <1>4 DEF SerializedSize, HelloWorldTwoPubSubType!getSerializedSizeProvider, HelloWorldTwoPubSubType!Encapsulation
  <2>2. m.message \in Nat /\ m.children \in Seq([baseId : Nat, childId : Nat])
    BY <1>4, MessagesAssumption
  <2>3. m.message <= MaxMessage /\ Len(m.children) <= MaxChildren
    BY <1>4 DEF WithinBounds
  <2>4. HelloWorldTwoEnd(rep, 0, m) <= 1480 /\ HelloWorldTwoEnd(rep, 0, m) \in Nat
    BY <2>2, <2>3, LargestTwo, ShiftTwo
  <2> QED
    BY <1>4, <2>1, <2>4, TypeSizes
<1> QED
  BY <1>1, <1>2, <1>3, <1>4 DEF TypeNames
-----------------------------------------------------------------------------
(***************************************************************************)
(* The inductive invariant: between taking a payload and filling it, the   *)
(* payload is the one the policy promises for this message.                *)
(***************************************************************************)
PayloadInv ==
  /\ IsPayload(payload)
  /\ stage # "idle" => message \in Messages[topicType]
  /\ policy = "PREALLOCATED" => payload.max_size \in {0, TypeSize(topicType)}
  /\ stage = "reserved" =>
       /\ policy = "PREALLOCATED" => payload.max_size = TypeSize(topicType)
       /\ policy # "PREALLOCATED" =>
            SerializedSize(topicType, message, representation) <= payload.max_size
  /\ stage = "sending" =>
       payload.length = SerializedSize(topicType, message, representation)
  /\ answer = "false" => policy = "PREALLOCATED" /\ ~WithinBounds(message)

DataInv == TypeOK /\ PayloadInv

\* One of three numbers is the largest.
LEMMA LargestOfThree ==
  ASSUME NEW a \in Nat, NEW b \in Nat, NEW c \in Nat
  PROVE  LET max == CHOOSE max \in {a, b, c} : \A n \in {a, b, c} : n <= max
         IN max \in Nat /\ a <= max /\ b <= max /\ c <= max
<1>1. \E max \in {a, b, c} : \A n \in {a, b, c} : n <= max
  <2>1. CASE b <= a /\ c <= a
    BY <2>1
  <2>2. CASE a <= b /\ c <= b
    BY <2>2
  <2>3. CASE a <= c /\ b <= c
    BY <2>3
  <2> QED
    BY <2>1, <2>2, <2>3
<1> DEFINE max == CHOOSE max \in {a, b, c} : \A n \in {a, b, c} : n <= max
<1>2. max \in {a, b, c} /\ \A n \in {a, b, c} : n <= max
  BY <1>1
<1> HIDE DEF max
<1>3. max \in Nat /\ a <= max /\ b <= max /\ c <= max
  BY <1>2
<1> QED
  BY <1>3 DEF max

\* The payload of the pool is as large as its policy promises.
LEMMA PayloadForFacts ==
  ASSUME policy \in Policies, topicType \in TypeNames, IsPayload(payload), NEW size \in Nat,
         policy = "PREALLOCATED" => payload.max_size \in {0, TypeSize(topicType)}
  PROVE  /\ IsPayload(PayloadFor(size))
         /\ policy = "PREALLOCATED" => PayloadFor(size).max_size = TypeSize(topicType)
         /\ policy # "PREALLOCATED" => size <= PayloadFor(size).max_size
<1> DEFINE q == PayloadFor(size)
           old == payload.max_size
           typeSize == TypeSize(topicType)
<1>1. typeSize \in Nat /\ old \in Nat
  BY TypeSizes DEF IsPayload, TypeNames
<1>2. CASE policy = "PREALLOCATED"
  <2>1. q = [payload EXCEPT !.max_size = typeSize]
    BY <1>2 DEF PayloadFor
  <2>2. q = [f \in {"data", "length", "max_size"} |-> q[f]] /\ q.max_size = typeSize
        /\ q.length = payload.length
    BY <2>1 DEF IsPayload
  <2>3. payload.length \in 0..typeSize
    BY <1>1, <1>2 DEF IsPayload
  <2> HIDE DEF q, typeSize
  <2>4. IsPayload(q)
    BY <1>1, <2>2, <2>3 DEF IsPayload
  <2> QED
    BY <1>2, <2>2, <2>4 DEF q, typeSize
<1>3. CASE policy = "PREALLOCATED_WITH_REALLOC"
  <2> DEFINE max == CHOOSE max \in {old, size, typeSize} : \A n \in {old, size, typeSize} : n <= max
  <2>1. q = [payload EXCEPT !.max_size = max]
    BY <1>3 DEF PayloadFor
  <2>2. max \in Nat /\ old <= max /\ size <= max
    <3> HIDE DEF old, typeSize
    <3> QED
      BY <1>1, LargestOfThree
  <2> HIDE DEF max
  <2>3. q = [f \in {"data", "length", "max_size"} |-> q[f]] /\ q.max_size = max
        /\ q.length = payload.length
    BY <2>1 DEF IsPayload
  <2> HIDE DEF q
  <2>4. IsPayload(q)
    BY <2>2, <2>3 DEF IsPayload
  <2> QED
    BY <1>3, <2>2, <2>3, <2>4 DEF q
<1>4. CASE policy = "DYNAMIC_RESERVE"
  <2>1. q = [data |-> <<>>, length |-> 0, max_size |-> size]
    BY <1>4 DEF PayloadFor
  <2>2. IsPayload(q) /\ q.max_size = size
    BY <2>1 DEF IsPayload
  <2> HIDE DEF q
  <2> QED
    BY <1>4, <2>2 DEF q
<1> QED
  BY <1>2, <1>3, <1>4 DEF Policies

\* No type has a key.
LEMMA OneInstance ==
  ASSUME topicType \in TypeNames, NEW m
  PROVE  InstanceOf(topicType, m) = <<>>
  BY DEF InstanceOf, TypeNames,
         DataBasePubSubType!getKey, DataBasePubSubType!m_isGetKeyDefined,
         ChildDataPubSubType!getKey, ChildDataPubSubType!m_isGetKeyDefined,
         HelloWorldTwoPubSubType!getKey, HelloWorldTwoPubSubType!m_isGetKeyDefined,
         HelloWorldOnePubSubType!getKey, HelloWorldOnePubSubType!m_isGetKeyDefined

\* No payload was taken yet.
LEMMA DataInit == Init => DataInv
<1> SUFFICES ASSUME Init PROVE DataInv
  OBVIOUS
<1>1. payload = [data |-> <<>>, length |-> 0, max_size |-> 0]
  BY DEF Init
<1>2. payload = [f \in {"data", "length", "max_size"} |-> payload[f]]
      /\ payload.length = 0 /\ payload.max_size = 0
  BY <1>1
<1>3. TypeOK
  BY <1>2, MaxWritesAssumption DEF TypeOK, Init
<1>4. PayloadInv
  BY <1>2 DEF PayloadInv, IsPayload, Init
<1> QED
  BY <1>3, <1>4 DEF DataInv

\* A payload is taken as the policy says.
LEMMA ReserveKeeps ==
  ASSUME DataInv, NEW m \in Messages[topicType], Reserve(m)
  PROVE  DataInv'
<1> DEFINE size == SerializedSize(topicType, m, representation)
<1> USE DEF DataInv
<1>1. topicType' = topicType /\ representation' = representation /\ policy' = policy
      /\ message' = m /\ stage' = "reserved" /\ answer' = "none"
      /\ payload' = PayloadFor(size)
  BY DEF Reserve, qos
<1>2. size \in Nat
  BY SerializeWrites DEF TypeOK, PayloadInv
<1> HIDE DEF size
<1>3. IsPayload(PayloadFor(size))
      /\ (policy = "PREALLOCATED" => PayloadFor(size).max_size = TypeSize(topicType))
      /\ (policy # "PREALLOCATED" => size <= PayloadFor(size).max_size)
  BY <1>2, PayloadForFacts DEF TypeOK, PayloadInv
<1>4. PayloadInv'
  BY <1>1, <1>3 DEF PayloadInv, size, IsPayload
<1>5. instance' = <<>>
  BY OneInstance DEF Reserve, TypeOK
<1>6. payload'.length \in 0..payload'.max_size
  BY <1>1, <1>3 DEF IsPayload
<1>7. writes' \in 0..MaxWrites /\ received' = received
  BY MaxWritesAssumption DEF Reserve, TypeOK
<1>8. TypeOK'
  BY <1>1, <1>5, <1>6, <1>7 DEF TypeOK
<1> QED
  BY <1>4, <1>8

\* serialize fills the payload exactly, or the message exceeded the bounds.
LEMMA FillKeeps ==
  ASSUME DataInv, Fill
  PROVE  DataInv'
<1> DEFINE result == Serialize(topicType, message, payload, representation)
           size == SerializedSize(topicType, message, representation)
<1> USE DEF DataInv
<1>1. topicType' = topicType /\ representation' = representation /\ policy' = policy
      /\ message' = message /\ stage = "reserved" /\ payload' = result.payload
      /\ stage' = (IF result.ok THEN "sending" ELSE "idle")
      /\ answer' = (IF result.ok THEN "true" ELSE "false")
      /\ instance' = instance /\ received' = received /\ writes' = writes
  BY DEF Fill, qos
<1>2. message \in Messages[topicType] /\ topicType \in TypeNames
      /\ representation \in Representations /\ policy \in Policies
  BY <1>1 DEF TypeOK, PayloadInv
<1>3. size \in Nat /\ Wrote(result, payload, size)
  BY <1>2, SerializeWrites DEF PayloadInv
<1>4. WithinBounds(message) => size <= TypeSize(topicType)
  BY <1>2, DeclaredSizeIsEnough
<1>5. WithinBounds(message)' <=> WithinBounds(message)
  BY <1>1 DEF WithinBounds
<1>6. (policy = "PREALLOCATED" => payload.max_size = TypeSize(topicType))
      /\ (policy # "PREALLOCATED" => size <= payload.max_size)
  BY <1>1 DEF PayloadInv
<1>7. size' = size
  BY <1>1
<1> HIDE DEF result, size
<1>8. IsPayload(result.payload) /\ result.payload.max_size = payload.max_size
      /\ result.ok \in BOOLEAN /\ (result.ok <=> size <= payload.max_size)
      /\ (result.ok => result.payload.length = size)
  BY <1>3 DEF Wrote
<1>9. PayloadInv'
  <2>1. IsPayload(payload)'
    BY <1>1, <1>8 DEF IsPayload
  <2>2. (policy = "PREALLOCATED" => payload.max_size \in {0, TypeSize(topicType)})'
    BY <1>1, <1>6, <1>8
  <2>3. (stage = "sending")' => payload'.length = size'
    BY <1>1, <1>7, <1>8
  <2>4. (answer = "false")' => policy' = "PREALLOCATED" /\ ~WithinBounds(message)'
    BY <1>1, <1>4, <1>5, <1>6, <1>8
  <2>5. stage' # "reserved" /\ message' \in Messages[topicType']
    BY <1>1, <1>2
  <2> QED
    BY <2>1, <2>2, <2>3, <2>4, <2>5 DEF PayloadInv, size
<1>10. payload'.length \in 0..payload'.max_size
  BY <1>1, <1>8 DEF IsPayload
<1>11. TypeOK'
  BY <1>1, <1>10 DEF TypeOK
<1> QED
  BY <1>9, <1>11

\* The sample arrives or is lost; the payload stays as it is.
LEMMA EndKeeps ==
  ASSUME DataInv, Take \/ Lose
  PROVE  DataInv'
<1> USE DEF DataInv
<1>1. topicType' = topicType /\ representation' = representation /\ policy' = policy
      /\ message' = message /\ stage = "sending" /\ stage' = "idle" /\ payload' = payload
      /\ answer' = answer /\ instance' = instance /\ writes' = writes
  BY DEF Take, Lose, qos
<1>2. WithinBounds(message)' <=> WithinBounds(message)
  BY <1>1 DEF WithinBounds
<1>3. PayloadInv'
  BY <1>1, <1>2 DEF PayloadInv, IsPayload
<1>4. received' # None => received'.sent \in Messages[topicType]
  <2>1. CASE Take
    BY <1>1, <2>1 DEF Take, PayloadInv
  <2>2. CASE Lose
    BY <2>2 DEF Lose, TypeOK
  <2> QED
    BY <2>1, <2>2
<1>5. TypeOK'
  BY <1>1, <1>4 DEF TypeOK
<1> QED
  BY <1>3, <1>5

\* Every step keeps the invariant.
LEMMA DataNext == DataInv /\ [Next]_vars => DataInv'
<1> SUFFICES ASSUME DataInv, [Next]_vars PROVE DataInv'
  OBVIOUS
<1>1. CASE \E m \in Messages[topicType] : Reserve(m)
  BY <1>1, ReserveKeeps
<1>2. CASE Fill
  BY <1>2, FillKeeps
<1>3. CASE Take \/ Lose
  BY <1>3, EndKeeps
<1>4. CASE UNCHANGED vars
  <2>1. topicType' = topicType /\ representation' = representation /\ policy' = policy
        /\ message' = message /\ stage' = stage /\ payload' = payload
        /\ answer' = answer /\ instance' = instance /\ writes' = writes /\ received' = received
    BY <1>4 DEF vars, qos
  <2> QED
    BY <2>1 DEF DataInv, TypeOK, PayloadInv, IsPayload, WithinBounds
<1> QED
  BY <1>1, <1>2, <1>3, <1>4 DEF Next

\* Type correctness; of a payload, that its valid bytes are bytes it has.
THEOREM DataTypeCorrect == Spec => []TypeOK
<1>1. DataInv => TypeOK
  BY DEF DataInv
<1> QED
  BY <1>1, DataInit, DataNext, PTL DEF Spec

(***************************************************************************)
(* For messages of every length, both representations and every pool       *)
(* policy, what serialize wrote has the size calculate_serialized_size     *)
(* promised.                                                               *)
(***************************************************************************)
THEOREM SizesAgree == Spec => []SizeIsExact
<1>1. DataInv => SizeIsExact
  BY DEF DataInv, PayloadInv, SizeIsExact
<1> QED
  BY <1>1, DataInit, DataNext, PTL DEF Spec

(***************************************************************************)
(* max_cdr_typesize covers every message within the bounds, so that a      *)
(* write is only refused beyond them, and only by a fixed payload.         *)
(***************************************************************************)
THEOREM RefusedOnlyBeyondBounds == Spec => []OnlyOversizedRefused
<1>1. DataInv => OnlyOversizedRefused
  BY DEF DataInv, PayloadInv, OnlyOversizedRefused
<1> QED
  BY <1>1, DataInit, DataNext, PTL DEF Spec

(***************************************************************************)
(* A sample under way can be read, and what is read is the message; with   *)
(* that, what was received is what was sent.                               *)
(***************************************************************************)
Readable ==
  stage = "sending" =>
    Deserialize(topicType, payload).ok = TRUE /\ Deserialize(topicType, payload).data = message

ReadInv == Readable /\ ReceivedIsSent

\* What serialize wrote, deserialize reads, of each type.
LEMMA RoundTrip ==
  ASSUME NEW name \in TypeNames, NEW rep \in Representations, NEW p, IsPayload(p),
         NEW data \in Messages[name], Serialize(name, data, p, rep).ok
  PROVE  LET q == Serialize(name, data, p, rep).payload
         IN Deserialize(name, q).ok = TRUE /\ Deserialize(name, q).data = data
<1>1. CASE name = "DataBase"
  BY <1>1, DataBaseRoundTrip
<1>2. CASE name = "ChildData"
  BY <1>2, ChildDataRoundTrip
<1>3. CASE name = "HelloWorldOne"
  BY <1>3, HelloWorldOneRoundTrip
<1>4. CASE name = "HelloWorldTwo"
  BY <1>4, HelloWorldTwoRoundTrip
<1> QED
  BY <1>1, <1>2, <1>3, <1>4 DEF TypeNames

LEMMA ReadNext == DataInv /\ ReadInv /\ [Next]_vars => ReadInv'
<1> SUFFICES ASSUME DataInv, ReadInv, [Next]_vars PROVE ReadInv'
  OBVIOUS
<1>1. CASE \E m \in Messages[topicType] : Reserve(m)
  BY <1>1 DEF Reserve, ReadInv, Readable, ReceivedIsSent
<1>2. CASE Fill
  <2> DEFINE result == Serialize(topicType, message, payload, representation)
  <2>1. /\ topicType' = topicType /\ message' = message /\ payload' = result.payload
        /\ stage' = (IF result.ok THEN "sending" ELSE "idle") /\ received' = received
        /\ stage = "reserved"
    BY <1>2 DEF Fill, qos
  <2>2. /\ message \in Messages[topicType] /\ topicType \in TypeNames
        /\ representation \in Representations /\ IsPayload(payload)
    BY <2>1 DEF DataInv, TypeOK, PayloadInv
  <2>3. result.ok => /\ Deserialize(topicType, result.payload).ok = TRUE
                     /\ Deserialize(topicType, result.payload).data = message
    BY <2>2, RoundTrip
  <2> HIDE DEF result
  <2>4. Readable'
    BY <2>1, <2>3 DEF Readable
  <2> QED
    BY <2>1, <2>4 DEF ReadInv, ReceivedIsSent
<1>3. CASE Take
  <2> DEFINE result == Deserialize(topicType, payload)
  <2>1. /\ stage = "sending" /\ stage' = "idle"
        /\ received' = [sent |-> message, ok |-> result.ok, data |-> result.data]
    BY <1>3 DEF Take
  <2>2. result.ok = TRUE /\ result.data = message
    BY <2>1 DEF ReadInv, Readable
  <2> HIDE DEF result
  <2> QED
    BY <2>1, <2>2 DEF ReadInv, Readable, ReceivedIsSent
<1>4. CASE Lose
  BY <1>4 DEF Lose, ReadInv, Readable, ReceivedIsSent
<1>5. CASE UNCHANGED vars
  BY <1>5 DEF vars, qos, ReadInv, Readable, ReceivedIsSent
<1> QED
  BY <1>1, <1>2, <1>3, <1>4, <1>5 DEF Next

(***************************************************************************)
(* Messages of any length, both representations, a payload that held       *)
(* anything before: what serialize put into the payload, deserialize reads *)
(* back into the same message, every member of base and elements.          *)
(***************************************************************************)
THEOREM ReceivedCorrect == Spec => []ReceivedIsSent
<1>1. Init => ReadInv
  BY DEF Init, ReadInv, Readable, ReceivedIsSent
<1>2. ReadInv => ReceivedIsSent
  BY DEF ReadInv
<1> QED
  BY <1>1, <1>2, DataInit, DataNext, ReadNext, PTL DEF Spec
=============================================================================
