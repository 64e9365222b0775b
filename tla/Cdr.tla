--------------------------------- MODULE Cdr ---------------------------------
(***************************************************************************)
(* External: Fast CDR, as the generated code uses it.  Nothing of it is in *)
(* the repository.  CdrSizeCalculator is a set of functions that say where *)
(* a value ends that starts at a position; Cdr is a stream over a buffer.  *)
(*                                                                         *)
(* A buffer is not a string of bytes but a function from offsets to the    *)
(* scalars that start there, [size, val].  Writing over a part of an older *)
(* scalar destroys it.  A text or an octet sequence is one scalar, and the *)
(* value of a text is its length: two texts of one length are one text.    *)
(*                                                                         *)
(* XCDRv2 puts a 4-byte header with the size in bytes (DHEADER) before     *)
(* each struct and each sequence of structs; XCDRv1 does not.              *)
(***************************************************************************)
EXTENDS Integers, Sequences

Representations == {"XCDRv1", "XCDRv2"}

\* Bytes of the encapsulation header, which names the representation.
Encapsulation == 4

\* Cdr::alignment(current, size), for the sizes 1, 2, 4
Alignment(pos, size) == (size - (pos % size)) % size
-----------------------------------------------------------------------------
\* CdrSizeCalculator: the position after a value that starts at pos.

AfterLong(pos) == pos + Alignment(pos, 4) + 4
AfterString(pos, n) == AfterLong(pos) + n + 1
AfterOctets(pos, n) == AfterLong(pos) + n
AfterHeader(rep, pos) == IF rep = "XCDRv2" THEN AfterLong(pos) ELSE pos

\* A sequence of n structs of fixed size (a multiple of the alignment).
AfterStructs(rep, pos, n, size) == AfterLong(AfterHeader(rep, pos)) + n * size
-----------------------------------------------------------------------------
\* Cdr, writing.  An exception leaves ok FALSE and what was written in place.

Overwrite(buf, at, n, v) ==
  LET intact == {o \in DOMAIN buf : o + buf[o].size <= at \/ at + n <= o}
  IN [o \in intact \cup {at} |-> IF o = at THEN [size |-> n, val |-> v] ELSE buf[o]]

\* Lengths are longs, so what follows one is aligned as well.
Put(s, n, v) ==
  LET at == s.pos + Alignment(s.pos, 4)
  IN IF s.ok /\ at + n <= s.max
     THEN [s EXCEPT !.pos = at + n, !.buf = Overwrite(@, at, n, v)]
     ELSE [s EXCEPT !.ok = FALSE]

PutLong(s, v) == Put(s, 4, v)
PutString(s, n) == Put(PutLong(s, n + 1), n + 1, n)
PutOctets(s, n) == IF n = 0 THEN PutLong(s, 0) ELSE Put(PutLong(s, n), n, n)

\* begin_serialize_type, the members, end_serialize_type (fills in the header)
PutStruct(s, Body(_)) ==
  IF s.rep = "XCDRv1" THEN Body(s)
  ELSE LET header == PutLong(s, 0)
           end == Body(header)
       IN IF end.ok THEN [end EXCEPT !.buf[header.pos - 4].val = end.pos - header.pos]
          ELSE end

(***************************************************************************)
(* The elements of a sequence are structs of fixed size: what one of them  *)
(* takes up says where each of them is.                                    *)
(***************************************************************************)
Taken(before, after) == after.pos - before.pos

PutStructs(s, q, PutElement(_, _)) ==
  LET Elements(u) ==
        LET size == Taken(u, PutElement(u, q[1]))
            element == [i \in DOMAIN q |->
                          PutElement([u EXCEPT !.pos = @ + (i - 1) * size, !.buf = <<>>], q[i])]
            written == UNION {DOMAIN element[i].buf : i \in DOMAIN q}
            ElementAt(o) == element[((o - u.pos) \div size) + 1]
            intact == {o \in DOMAIN u.buf : o + u.buf[o].size <= u.pos \/ u.pos + Len(q) * size <= o}
        IN IF q = <<>> \/ ~u.ok THEN u
           ELSE [u EXCEPT !.pos = @ + Len(q) * size,
                          !.buf = [o \in intact \cup written |->
                                     IF o \in written THEN ElementAt(o).buf[o] ELSE u.buf[o]],
                          !.ok = \A i \in DOMAIN q : element[i].ok]
  IN PutStruct(s, LAMBDA u : Elements(PutLong(u, Len(q))))
-----------------------------------------------------------------------------
(***************************************************************************)
(* Cdr, reading.  val is the value read last, obj the object being filled, *)
(* more what the generated member function returned.  Bytes that are not   *)
(* one intact scalar read as Garbage.                                      *)
(***************************************************************************)
Garbage == -1

Get(s, n) ==
  LET at == s.pos + Alignment(s.pos, 4)
  IN IF s.ok /\ n >= 0 /\ at + n <= s.max
     THEN [s EXCEPT !.pos = at + n,
                    !.val = IF at \in DOMAIN s.buf /\ s.buf[at].size = n
                            THEN s.buf[at].val ELSE Garbage]
     ELSE [s EXCEPT !.ok = FALSE]

Store(s, member) == IF s.ok THEN [s EXCEPT !.obj[member] = s.val] ELSE s

GetLong(s, member) == Store(Get(s, 4), member)
GetString(s, member) == LET length == Get(s, 4) IN Store(Get(length, length.val), member)
GetOctets(s, member) ==
  LET length == Get(s, 4)
  IN Store(IF length.val = 0 THEN length ELSE Get(length, length.val), member)

\* More members than any struct has.
MaxMembers == 8

\* deserialize_type: members in order until Member declines the next id, or
\* the size in the header is used up.
GetStruct(s, Member(_, _)) ==
  LET start == IF s.rep = "XCDRv2" THEN Get(s, 4) ELSE s
      end == start.pos + start.val
      Finished(u) == s.rep = "XCDRv2" /\ u.pos >= end
      upTo[i \in 0..MaxMembers] ==
        IF i = 0 THEN [start EXCEPT !.more = TRUE]
        ELSE LET u == upTo[i - 1]
             IN IF u.ok /\ u.more /\ ~Finished(u) THEN Member(u, i - 1) ELSE u
      done == upTo[MaxMembers]
  IN [done EXCEPT !.pos = IF s.rep = "XCDRv2" THEN end ELSE @]

\* Its length, then the elements, each a new object.
GetStructs(s, member, new, GetElement(_)) ==
  LET start == Get(IF s.rep = "XCDRv2" THEN Get(s, 4) ELSE s, 4)
      ElementAt(pos) == GetElement([start EXCEPT !.pos = pos, !.obj = new])
      size == Taken(start, ElementAt(start.pos))
      element == [i \in 1..start.val |-> ElementAt(start.pos + (i - 1) * size)]
  IN IF start.ok /\ start.val >= 0 /\ \A i \in DOMAIN element : element[i].ok
     THEN [start EXCEPT !.pos = IF start.val = 0 THEN @ ELSE @ + start.val * size,
                        !.obj[member] = [i \in DOMAIN element |-> element[i].obj]]
     ELSE [start EXCEPT !.ok = FALSE]
=============================================================================
