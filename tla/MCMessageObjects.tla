--------------------------- MODULE MCMessageObjects ---------------------------
EXTENDS MessageObjects

\* Two elements that differ in the member of the base only.
MCElements == {[baseId |-> 0, childId |-> 1], [baseId |-> 1, childId |-> 1]}

MCBuffers == 1..6

\* A state without its addresses: what each object holds, which members
\* share storage, and how much storage there is.
References == {<<o, m>> \in Objects \X {"message", "children", "points"} :
                 Exists(o) /\ m \in Dynamic(obj[o]) /\ obj[o][m] # None}
MCView ==
  <<ObjectValues,
    {{s \in References : obj[s[1]][s[2]] = obj[r[1]][r[2]]} : r \in References},
    Cardinality({b \in Buffers : heap[b] # None})>>
=============================================================================
