----------------------------- MODULE MessageValues -----------------------------
(***************************************************************************)
(* What an application may expect of message objects: each is a value.     *)
(* A copy is worth what its original is and independent of it; a move      *)
(* gives the value away; nothing else changes more than one object.        *)
(***************************************************************************)
CONSTANTS Objects, Defaults, Dynamic(_), None

VARIABLE value      \* of each object; None: there is no such object

Init == value = [o \in Objects |-> None]

Create(o) == value[o] = None /\ \E v \in Defaults : value' = [value EXCEPT ![o] = v]

Copy(o, x) == value[x] # None /\ value' = [value EXCEPT ![o] = value[x]]

\* What a moved-from object's text and sequence are is left open.
Move(o, x) ==
  /\ value[x] # None /\ value'[x] # None
  /\ value'[o] = value[x]
  /\ DOMAIN value'[x] = DOMAIN value[x]
  /\ \A m \in DOMAIN value[x] \ Dynamic(value[x]) : value'[x][m] = value[x][m]
  /\ \A z \in Objects \ {o, x} : value'[z] = value[z]

Change(o, m) ==
  /\ value[o] # None /\ value'[o] # None
  /\ DOMAIN value'[o] = DOMAIN value[o]
  /\ \A k \in DOMAIN value[o] \ {m} : value'[o][k] = value[o][k]
  /\ \A z \in Objects \ {o} : value'[z] = value[z]

Drop(o) == value' = [value EXCEPT ![o] = None]

Next ==
  \E o \in Objects :
    \/ Create(o)
    \/ \E x \in Objects : Copy(o, x) \/ Move(o, x)
    \/ \E m \in {"baseId", "index", "message", "children", "points"} : Change(o, m)
    \/ Drop(o)

Spec == Init /\ [][Next]_value
=============================================================================
