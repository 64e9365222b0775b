----------------------------- MODULE MCTopicData -----------------------------
EXTENDS TopicData

\* Distinct members, so that no two of them can be mixed up.
Children(n) == [i \in 1..n |-> [baseId |-> 2 * i, childId |-> 2 * i + 1]]

Two(length, n) == [baseId |-> 7, index |-> 9, message |-> length, children |-> Children(n)]

\* Texts of each length modulo 4, and on each side of each bound.
MCMessages ==
  [name \in TypeNames |->
     CASE name = "DataBase" -> {[baseId |-> 7]}
       [] name = "ChildData" -> {[baseId |-> 7, childId |-> 9]}
       [] name = "HelloWorldOne" ->
            {[index |-> 9, points |-> n] : n \in {0, 1, MaxPoints, MaxPoints + 1}}
       [] name = "HelloWorldTwo" ->
            {Two(length, n) : length \in 0..3, n \in 0..2}
              \cup {Two(MaxMessage, MaxChildren), Two(MaxMessage + 1, MaxChildren),
                    Two(MaxMessage, MaxChildren + 1)}]
=============================================================================
