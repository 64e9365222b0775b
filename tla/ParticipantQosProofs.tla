-------------------------- MODULE ParticipantQosProofs --------------------------
(***************************************************************************)
(* Proofs about ParticipantQos, for vectors and texts of any length and    *)
(* any number of calls.  What the loop over the texts makes is found by    *)
(* induction over its iterations.                                          *)
(***************************************************************************)
EXTENDS ParticipantQos, WellFoundedInduction, TLAPS

-----------------------------------------------------------------------------
\* Induction, for a set instead of a predicate.

\* A set with 0 and the successor of each of its numbers has every number.
LEMMA SetInduction ==
  ASSUME NEW S, 0 \in S, \A n \in Nat : n \in S => n + 1 \in S
  PROVE  Nat \subseteq S
<1> DEFINE T == Nat \ S
           Less == OpToRel(<, Nat)
<1> SUFFICES ASSUME T # {} PROVE FALSE
  OBVIOUS
<1>1. IsWellFoundedOn(Less, Nat)
  BY NatLessThanWellFounded
<1>2. \A m, n \in Nat : m < n => <<m, n>> \in Less
  BY DEF OpToRel
<1> HIDE DEF Less
<1>3. PICK n \in T : \A m \in T : <<m, n>> \notin Less
  BY <1>1, WFMin
<1>4. n - 1 \in Nat /\ n - 1 < n /\ (n - 1) + 1 = n
  BY <1>3
<1>5. n - 1 \notin T
  BY <1>2, <1>3, <1>4
<1> QED
  BY <1>3, <1>4, <1>5
-----------------------------------------------------------------------------
\* Locators.

\* A port field holds any port number, and whatever atoi makes of a text.
LEMMA PortFieldFacts ==
  /\ PortFieldSize \in Nat \ {0}
  /\ PhysicalPorts <= PortFieldSize
  /\ \A n \in Int : PortField(n) \in 0..(PortFieldSize - 1)
  /\ \A n \in 0..(PortFieldSize - 1) : PortField(n) = n
<1>1. PhysicalPorts \in Nat \ {0}
  BY PortsAssumption
<1>2. PhysicalPorts * PhysicalPorts \in Nat /\ PhysicalPorts * PhysicalPorts >= PhysicalPorts
  BY <1>1
<1>3. PortFieldSize \in Nat \ {0} /\ PhysicalPorts <= PortFieldSize
  BY <1>1, <1>2 DEF PortFieldSize
<1> QED
  BY <1>3 DEF PortField

\* The address of a locator is one that the library accepts, or invalid.
LEMMA AddressFacts ==
  /\ \A text : setIPv4(text) \in IPv4 \cup {"invalid"}
  /\ \A field \in IPv4 : setIPv4(<<field>>) = field
  BY DEF setIPv4

\* A text with a colon makes a TCP locator.
LEMMA TCPPeerType ==
  ASSUME NEW text \in Texts, HasColon(text)
  PROVE  TCPPeer(text) \in Locators /\ TCPPeer(text).kind = "TCPv4"
<1>1. text[2] \in Fields
  BY TextsAssumption DEF HasColon
<1>2. AtoI[text[2]] \in Int
  BY <1>1, FieldsAssumption
<1> QED
  BY <1>2, PortFieldFacts, AddressFacts DEF TCPPeer, Locators

\* A documented text makes the locator that was promised.
LEMMA DocumentedPeer ==
  ASSUME NEW text \in Texts, Documented(text)
  PROVE  HasColon(text) /\ TCPPeer(text) = Promised(text)
<1>1. AtoI[text[2]] \in 0..(PortFieldSize - 1)
  BY PortFieldFacts, PortsAssumption DEF Documented
<1>2. PortField(AtoI[text[2]]) = AtoI[text[2]]
  BY <1>1, PortFieldFacts
<1>3. setIPv4(<<text[1]>>) = text[1]
  BY AddressFacts DEF Documented
<1> QED
  BY <1>2, <1>3 DEF Documented, HasColon, TCPPeer, Promised

\* A text with a colon makes a locator of its own fields.
LEMMA MadeOfItsText ==
  ASSUME NEW text \in Texts, HasColon(text)
  PROVE  MadeOf(TCPPeer(text), text)
<1>1. setIPv4(<<text[1]>>) = IF text[1] \in IPv4 THEN text[1] ELSE "invalid"
  BY DEF setIPv4
<1>2. AtoI[text[2]] \in 0..(PhysicalPorts - 1) => AtoI[text[2]] \in 0..(PortFieldSize - 1)
  BY PortFieldFacts, PortsAssumption
<1>3. AtoI[text[2]] \in 0..(PhysicalPorts - 1) => PortField(AtoI[text[2]]) = AtoI[text[2]]
  BY <1>2, PortFieldFacts
<1> QED
  BY <1>1, <1>3 DEF HasColon, MadeOf, TCPPeer

\* A UDP locator is one of its own kind.
LEMMA UDPPeerType ==
  ASSUME NEW text
  PROVE  UDPPeer(text) \in Locators /\ UDPPeer(text).kind = "UDPv4"
  BY PortFieldFacts, AddressFacts DEF UDPPeer, Locators
-----------------------------------------------------------------------------
\* The loop over the texts.

\* What iteration i makes of the result g[i - 1] of the one before.
Iteration(v, g, i) ==
  IF i = 0 THEN <<>>
  ELSE IF HasColon(v[i]) THEN Append(g[i - 1], TCPPeer(v[i])) ELSE g[i - 1]

\* g has the results of the first n iterations.
IsLoop(v, g, n) == g = [i \in 0..n |-> Iteration(v, g, i)]

\* The recursive function in TCPPeers.
Loop(v) == CHOOSE g : IsLoop(v, g, Len(v))

\* TCPPeers is the result of the last iteration.
LEMMA TCPPeersIsLoop == \A v : TCPPeers(v) = Loop(v)[Len(v)]
  BY DEF TCPPeers, Loop, IsLoop, Iteration

\* The loop can be run: each iteration has the results before it.
LEMMA LoopExists ==
  ASSUME NEW v, Len(v) \in Nat
  PROVE  IsLoop(v, Loop(v), Len(v))
<1> DEFINE S == {n \in Nat : \E g : IsLoop(v, g, n)}
<1>1. 0 \in S
  <2> DEFINE g == [i \in 0..0 |-> <<>>]
  <2>1. IsLoop(v, g, 0)
    BY DEF IsLoop, Iteration
  <2> QED
    BY <2>1
<1>2. ASSUME NEW n \in Nat, n \in S
      PROVE  n + 1 \in S
  <2>1. PICK g : IsLoop(v, g, n)
    BY <1>2
  <2> DEFINE h == [i \in 0..(n + 1) |-> Iteration(v, g, i)]
  <2>2. \A i \in 0..n : h[i] = g[i]
    BY <2>1 DEF IsLoop
  <2>3. h = [i \in 0..(n + 1) |-> Iteration(v, g, i)]
    OBVIOUS
  <2> HIDE DEF h
  <2>4. ASSUME NEW i \in 0..(n + 1)
        PROVE  Iteration(v, h, i) = Iteration(v, g, i)
    <3>1. i # 0 => i - 1 \in 0..n
      OBVIOUS
    <3>2. i # 0 => h[i - 1] = g[i - 1]
      BY <2>2, <3>1
    <3> QED
      BY <3>2 DEF Iteration
  <2>5. h = [i \in 0..(n + 1) |-> Iteration(v, h, i)]
    BY <2>3, <2>4, Zenon
  <2>6. IsLoop(v, h, n + 1)
    BY <2>5 DEF IsLoop
  <2> QED
    BY <2>6
<1>3. Len(v) \in S
  <2> HIDE DEF S
  <2> QED
    BY <1>1, <1>2, SetInduction
<1> QED
  BY <1>3 DEF Loop
-----------------------------------------------------------------------------
\* Documented texts and the locators made of them, in order.

DocumentedIn(v, n) == {i \in 1..n : Documented(v[i])}

\* f leads from the documented ones among the first n texts to their locators.
Leads(f, v, n, peers) ==
  /\ f \in [DocumentedIn(v, n) -> DOMAIN peers]
  /\ \A i, j \in DocumentedIn(v, n) : i < j => f[i] < f[j]
  /\ \A i \in DocumentedIn(v, n) : peers[f[i]] = Promised(v[i])

\* PeersInOrder, with the texts and the peers as parameters.
InOrder(v, peers) ==
  \E f \in [{i \in DOMAIN v : Documented(v[i])} -> DOMAIN peers] :
    /\ \A i, j \in DOMAIN f : i < j => f[i] < f[j]
    /\ \A i \in DOMAIN f : peers[f[i]] = Promised(v[i])

LEMMA PeersInOrderIs ==
  ASSUME NEW v \in Seq(Texts), NEW peers
  PROVE  InOrder(v, peers) <=> \E f : Leads(f, v, Len(v), peers)
<1>1. DOMAIN v = 1..Len(v)
  OBVIOUS
<1>2. {i \in DOMAIN v : Documented(v[i])} = DocumentedIn(v, Len(v))
  BY <1>1 DEF DocumentedIn
<1>3. ASSUME NEW f \in [DocumentedIn(v, Len(v)) -> DOMAIN peers]
      PROVE  DOMAIN f = DocumentedIn(v, Len(v))
  OBVIOUS
<1> QED
  BY <1>2, <1>3 DEF InOrder, Leads

\* One text more, and its locator.
LEMMA LeadsAppend ==
  ASSUME NEW v, NEW n \in Nat, NEW peers \in Seq(Locators), NEW f, Leads(f, v, n, peers),
         NEW peer \in Locators, Documented(v[n + 1]) => peer = Promised(v[n + 1])
  PROVE  \E g : Leads(g, v, n + 1, Append(peers, peer))
<1> DEFINE more == Append(peers, peer)
           g == [i \in DocumentedIn(v, n + 1) |-> IF i = n + 1 THEN Len(peers) + 1 ELSE f[i]]
<1>1. /\ DOMAIN peers = 1..Len(peers) /\ DOMAIN more = 1..(Len(peers) + 1) /\ Len(peers) \in Nat
      /\ more[Len(peers) + 1] = peer /\ \A k \in DOMAIN peers : more[k] = peers[k]
  OBVIOUS
<1>2. \A i \in DocumentedIn(v, n + 1) :
        i \in 1..(n + 1) /\ Documented(v[i]) /\ (i # n + 1 => i \in DocumentedIn(v, n) /\ i < n + 1)
  BY DEF DocumentedIn
<1>3. \A i \in DocumentedIn(v, n) :
        f[i] \in 1..Len(peers) /\ peers[f[i]] = Promised(v[i])
  BY <1>1 DEF Leads
<1>4. \A i, j \in DocumentedIn(v, n) : i < j => f[i] < f[j]
  BY DEF Leads
<1>5. \A i \in DocumentedIn(v, n + 1) :
        /\ i = n + 1 => g[i] = Len(peers) + 1
        /\ i # n + 1 => g[i] = f[i]
  OBVIOUS
<1>6. DOMAIN g = DocumentedIn(v, n + 1) /\ g = [i \in DocumentedIn(v, n + 1) |-> g[i]]
  OBVIOUS
<1> HIDE DEF g, more
<1>7. ASSUME NEW i \in DocumentedIn(v, n + 1)
      PROVE  g[i] \in DOMAIN more /\ more[g[i]] = Promised(v[i])
  <2>1. CASE i = n + 1
    BY <1>1, <1>2, <1>5, <2>1
  <2>2. CASE i # n + 1
    BY <1>1, <1>2, <1>3, <1>5, <2>2
  <2> QED
    BY <2>1, <2>2
<1>8. ASSUME NEW i \in DocumentedIn(v, n + 1), NEW j \in DocumentedIn(v, n + 1), i < j
      PROVE  g[i] < g[j]
  <2>1. i # n + 1
    BY <1>2, <1>8
  <2>2. CASE j = n + 1
    <3>1. g[i] = f[i] /\ f[i] \in 1..Len(peers)
      BY <1>2, <1>3, <1>5, <2>1
    <3>2. g[j] = Len(peers) + 1
      BY <1>5, <2>2
    <3> QED
      BY <1>1, <3>1, <3>2
  <2>3. CASE j # n + 1
    BY <1>2, <1>4, <1>5, <1>8, <2>1, <2>3
  <2> QED
    BY <2>2, <2>3
<1>9. g \in [DocumentedIn(v, n + 1) -> DOMAIN more]
  BY <1>6, <1>7
<1>10. Leads(g, v, n + 1, more)
  BY <1>7, <1>8, <1>9 DEF Leads
<1> QED
  BY <1>10 DEF more

\* One text more that is not documented.
LEMMA LeadsSkip ==
  ASSUME NEW v, NEW n \in Nat, NEW peers, NEW f, Leads(f, v, n, peers), ~Documented(v[n + 1])
  PROVE  Leads(f, v, n + 1, peers)
<1>1. DocumentedIn(v, n + 1) = DocumentedIn(v, n)
  BY DEF DocumentedIn
<1> QED
  BY <1>1 DEF Leads

\* Two lists of texts, and the locators made of each.
LEMMA LeadsConcat ==
  ASSUME NEW v \in Seq(Texts), NEW peers \in Seq(Locators), NEW f, Leads(f, v, Len(v), peers),
         NEW w \in Seq(Texts), NEW more \in Seq(Locators), NEW g, Leads(g, w, Len(w), more)
  PROVE  \E h : Leads(h, v \o w, Len(v \o w), peers \o more)
<1> DEFINE both == v \o w
           all == peers \o more
           h == [i \in DocumentedIn(both, Len(both)) |->
                   IF i <= Len(v) THEN f[i] ELSE Len(peers) + g[i - Len(v)]]
<1>1. /\ Len(v) \in Nat /\ Len(w) \in Nat /\ Len(both) = Len(v) + Len(w)
      /\ \A i \in 1..Len(v) : both[i] = v[i]
      /\ \A i \in 1..Len(w) : both[Len(v) + i] = w[i]
  OBVIOUS
<1>2. /\ Len(peers) \in Nat /\ Len(more) \in Nat /\ DOMAIN all = 1..(Len(peers) + Len(more))
      /\ DOMAIN peers = 1..Len(peers) /\ DOMAIN more = 1..Len(more)
      /\ \A i \in 1..Len(peers) : all[i] = peers[i]
      /\ \A i \in 1..Len(more) : all[Len(peers) + i] = more[i]
  OBVIOUS
<1>3. DOMAIN h = DocumentedIn(both, Len(both)) /\ h = [i \in DocumentedIn(both, Len(both)) |-> h[i]]
  OBVIOUS
<1>4. \A i \in DocumentedIn(both, Len(both)) :
        /\ i <= Len(v) => h[i] = f[i]
        /\ ~(i <= Len(v)) => h[i] = Len(peers) + g[i - Len(v)]
  OBVIOUS
<1> HIDE DEF both, all, h
<1>5. ASSUME NEW i \in DocumentedIn(both, Len(both))
      PROVE  \/ i <= Len(v) /\ i \in DocumentedIn(v, Len(v)) /\ both[i] = v[i]
             \/ /\ ~(i <= Len(v)) /\ i - Len(v) \in DocumentedIn(w, Len(w))
                /\ both[i] = w[i - Len(v)]
  <2>1. i \in 1..(Len(v) + Len(w)) /\ Documented(both[i])
    BY <1>1 DEF DocumentedIn
  <2>2. CASE i <= Len(v)
    BY <1>1, <2>1, <2>2 DEF DocumentedIn
  <2>3. CASE ~(i <= Len(v))
    <3>1. i - Len(v) \in 1..Len(w) /\ Len(v) + (i - Len(v)) = i
      BY <1>1, <2>1, <2>3
    <3>2. both[i] = w[i - Len(v)]
      BY <1>1, <3>1
    <3> QED
      BY <2>1, <2>3, <3>1, <3>2 DEF DocumentedIn
  <2> QED
    BY <2>2, <2>3
<1>6. /\ \A i \in DocumentedIn(v, Len(v)) : f[i] \in 1..Len(peers) /\ peers[f[i]] = Promised(v[i])
      /\ \A i, j \in DocumentedIn(v, Len(v)) : i < j => f[i] < f[j]
      /\ \A i \in DocumentedIn(w, Len(w)) : g[i] \in 1..Len(more) /\ more[g[i]] = Promised(w[i])
      /\ \A i, j \in DocumentedIn(w, Len(w)) : i < j => g[i] < g[j]
  BY <1>2 DEF Leads
<1>7. ASSUME NEW i \in DocumentedIn(both, Len(both))
      PROVE  h[i] \in DOMAIN all /\ all[h[i]] = Promised(both[i])
  <2>1. CASE i <= Len(v)
    BY <1>2, <1>4, <1>5, <1>6, <2>1
  <2>2. CASE ~(i <= Len(v))
    BY <1>2, <1>4, <1>5, <1>6, <2>2
  <2> QED
    BY <2>1, <2>2
<1>8. ASSUME NEW i \in DocumentedIn(both, Len(both)), NEW j \in DocumentedIn(both, Len(both)), i < j
      PROVE  h[i] < h[j]
  <2>1. i \in Int /\ j \in Int
    BY <1>1 DEF DocumentedIn
  <2>2. CASE j <= Len(v)
    <3>1. i <= Len(v)
      BY <1>1, <1>8, <2>1, <2>2
    <3>2. h[i] = f[i] /\ h[j] = f[j]
      BY <1>4, <2>2, <3>1
    <3>3. i \in DocumentedIn(v, Len(v)) /\ j \in DocumentedIn(v, Len(v))
      BY <1>5, <2>2, <3>1
    <3> QED
      BY <1>6, <1>8, <3>2, <3>3
  <2>3. CASE i <= Len(v) /\ ~(j <= Len(v))
    BY <1>2, <1>4, <1>5, <1>6, <2>3
  <2>4. CASE ~(i <= Len(v))
    <3>1. ~(j <= Len(v)) /\ i - Len(v) < j - Len(v)
      BY <1>1, <1>8, <2>1, <2>4
    <3>2. g[i - Len(v)] < g[j - Len(v)]
      BY <1>5, <1>6, <2>4, <3>1
    <3> QED
      BY <1>2, <1>4, <1>5, <1>6, <2>4, <3>1, <3>2
  <2> QED
    BY <2>2, <2>3, <2>4
<1>9. h \in [DocumentedIn(both, Len(both)) -> DOMAIN all]
  BY <1>3, <1>7
<1>10. Leads(h, both, Len(both), all)
  BY <1>7, <1>8, <1>9 DEF Leads
<1> QED
  BY <1>10 DEF both, all
-----------------------------------------------------------------------------
\* TCP locators and the texts they were made of, in order.

TCPIn(peers) == {k \in DOMAIN peers : peers[k].kind = "TCPv4"}

\* f traces the TCP locators in peers back to some of the first n texts.
Traces(f, v, n, peers) ==
  /\ f \in [TCPIn(peers) -> 1..n]
  /\ \A j, k \in TCPIn(peers) : j < k => f[j] < f[k]
  /\ \A k \in TCPIn(peers) : MadeOf(peers[k], v[f[k]])

\* PeersWereGiven, with the texts and the peers as parameters.
WereGiven(v, peers) ==
  \E f \in [{k \in DOMAIN peers : peers[k].kind = "TCPv4"} -> DOMAIN v] :
    /\ \A j, k \in DOMAIN f : j < k => f[j] < f[k]
    /\ \A k \in DOMAIN f : MadeOf(peers[k], v[f[k]])

LEMMA PeersWereGivenIs ==
  ASSUME NEW v \in Seq(Texts), NEW peers
  PROVE  WereGiven(v, peers) <=> \E f : Traces(f, v, Len(v), peers)
<1>1. DOMAIN v = 1..Len(v)
  OBVIOUS
<1>2. {k \in DOMAIN peers : peers[k].kind = "TCPv4"} = TCPIn(peers)
  BY DEF TCPIn
<1>3. ASSUME NEW f \in [TCPIn(peers) -> 1..Len(v)]
      PROVE  DOMAIN f = TCPIn(peers)
  OBVIOUS
<1> QED
  BY <1>1, <1>2, <1>3 DEF WereGiven, Traces

\* One text more, and its locator.
LEMMA TracesAppend ==
  ASSUME NEW v, NEW n \in Nat, NEW peers \in Seq(Locators), NEW f, Traces(f, v, n, peers),
         NEW peer \in Locators, MadeOf(peer, v[n + 1])
  PROVE  \E g : Traces(g, v, n + 1, Append(peers, peer))
<1> DEFINE more == Append(peers, peer)
           g == [k \in TCPIn(more) |-> IF k = Len(peers) + 1 THEN n + 1 ELSE f[k]]
<1>1. /\ Len(peers) \in Nat /\ DOMAIN peers = 1..Len(peers)
      /\ DOMAIN more = 1..(Len(peers) + 1) /\ more[Len(peers) + 1] = peer
      /\ \A k \in 1..Len(peers) : more[k] = peers[k]
  OBVIOUS
<1>2. g = [k \in TCPIn(more) |-> g[k]] /\ DOMAIN g = TCPIn(more)
  OBVIOUS
<1>3. \A k \in TCPIn(more) : g[k] = IF k = Len(peers) + 1 THEN n + 1 ELSE f[k]
  OBVIOUS
<1> HIDE DEF more, g
<1>4. ASSUME NEW k \in TCPIn(more)
      PROVE  k = Len(peers) + 1 \/ (k \in 1..Len(peers) /\ k \in TCPIn(peers))
  BY <1>1 DEF TCPIn
<1>5. /\ \A k \in TCPIn(peers) : f[k] \in 1..n /\ MadeOf(peers[k], v[f[k]])
      /\ \A j, k \in TCPIn(peers) : j < k => f[j] < f[k]
  BY DEF Traces
<1>6. ASSUME NEW k \in TCPIn(more)
      PROVE  g[k] \in 1..(n + 1) /\ MadeOf(more[k], v[g[k]])
  BY <1>1, <1>3, <1>4, <1>5
<1>7. ASSUME NEW j \in TCPIn(more), NEW k \in TCPIn(more), j < k
      PROVE  g[j] < g[k]
  <2>1. j \in 1..Len(peers) /\ j \in TCPIn(peers)
    BY <1>1, <1>4, <1>7
  <2>2. g[j] = f[j] /\ f[j] \in 1..n
    BY <1>1, <1>3, <1>5, <2>1
  <2>3. CASE k = Len(peers) + 1
    BY <1>3, <2>2, <2>3
  <2>4. CASE k # Len(peers) + 1
    BY <1>3, <1>4, <1>5, <1>7, <2>1, <2>2, <2>4
  <2> QED
    BY <2>3, <2>4
<1>8. Traces(g, v, n + 1, more)
  BY <1>2, <1>6, <1>7 DEF Traces
<1> QED
  BY <1>8 DEF more

\* One text more that makes no locator.
LEMMA TracesSkip ==
  ASSUME NEW v, NEW n \in Nat, NEW peers, NEW f, Traces(f, v, n, peers)
  PROVE  Traces(f, v, n + 1, peers)
  BY DEF Traces

\* Two lists of texts, and the locators made of each.
LEMMA TracesConcat ==
  ASSUME NEW v \in Seq(Texts), NEW peers \in Seq(Locators), NEW f, Traces(f, v, Len(v), peers),
         NEW w \in Seq(Texts), NEW more \in Seq(Locators), NEW g, Traces(g, w, Len(w), more)
  PROVE  \E h : Traces(h, v \o w, Len(v \o w), peers \o more)
<1> DEFINE both == v \o w
           all == peers \o more
           h == [k \in TCPIn(all) |->
                   IF k <= Len(peers) THEN f[k] ELSE Len(v) + g[k - Len(peers)]]
<1>1. /\ Len(v) \in Nat /\ Len(w) \in Nat /\ Len(both) = Len(v) + Len(w)
      /\ \A i \in 1..Len(v) : both[i] = v[i]
      /\ \A i \in 1..Len(w) : both[Len(v) + i] = w[i]
  OBVIOUS
<1>2. /\ Len(peers) \in Nat /\ Len(more) \in Nat /\ DOMAIN all = 1..(Len(peers) + Len(more))
      /\ DOMAIN peers = 1..Len(peers) /\ DOMAIN more = 1..Len(more)
      /\ \A k \in 1..Len(peers) : all[k] = peers[k]
      /\ \A k \in 1..Len(more) : all[Len(peers) + k] = more[k]
  OBVIOUS
<1>3. DOMAIN h = TCPIn(all) /\ h = [k \in TCPIn(all) |-> h[k]]
  OBVIOUS
<1>4. \A k \in TCPIn(all) :
        /\ k <= Len(peers) => h[k] = f[k]
        /\ ~(k <= Len(peers)) => h[k] = Len(v) + g[k - Len(peers)]
  OBVIOUS
<1> HIDE DEF both, all, h
<1>5. ASSUME NEW k \in TCPIn(all)
      PROVE  \/ k <= Len(peers) /\ k \in TCPIn(peers) /\ all[k] = peers[k]
             \/ /\ ~(k <= Len(peers)) /\ k - Len(peers) \in TCPIn(more)
                /\ all[k] = more[k - Len(peers)]
  <2>1. k \in 1..(Len(peers) + Len(more)) /\ all[k].kind = "TCPv4"
    BY <1>2 DEF TCPIn
  <2>2. CASE k <= Len(peers)
    BY <1>2, <2>1, <2>2 DEF TCPIn
  <2>3. CASE ~(k <= Len(peers))
    <3>1. k - Len(peers) \in 1..Len(more) /\ Len(peers) + (k - Len(peers)) = k
      BY <1>2, <2>1, <2>3
    <3>2. all[k] = more[k - Len(peers)]
      BY <1>2, <3>1
    <3> QED
      BY <1>2, <2>1, <2>3, <3>1, <3>2 DEF TCPIn
  <2> QED
    BY <2>2, <2>3
<1>6. /\ \A k \in TCPIn(peers) : f[k] \in 1..Len(v) /\ MadeOf(peers[k], v[f[k]])
      /\ \A j, k \in TCPIn(peers) : j < k => f[j] < f[k]
      /\ \A k \in TCPIn(more) : g[k] \in 1..Len(w) /\ MadeOf(more[k], w[g[k]])
      /\ \A j, k \in TCPIn(more) : j < k => g[j] < g[k]
  BY DEF Traces
<1>7. ASSUME NEW k \in TCPIn(all)
      PROVE  h[k] \in 1..Len(both) /\ MadeOf(all[k], both[h[k]])
  <2>1. CASE k <= Len(peers)
    BY <1>1, <1>4, <1>5, <1>6, <2>1
  <2>2. CASE ~(k <= Len(peers))
    BY <1>1, <1>4, <1>5, <1>6, <2>2
  <2> QED
    BY <2>1, <2>2
<1>8. ASSUME NEW j \in TCPIn(all), NEW k \in TCPIn(all), j < k
      PROVE  h[j] < h[k]
  <2>1. j \in Int /\ k \in Int
    BY <1>2 DEF TCPIn
  <2>2. CASE k <= Len(peers)
    <3>1. j <= Len(peers)
      BY <1>2, <1>8, <2>1, <2>2
    <3>2. h[j] = f[j] /\ h[k] = f[k]
      BY <1>4, <2>2, <3>1
    <3>3. j \in TCPIn(peers) /\ k \in TCPIn(peers)
      BY <1>5, <2>2, <3>1
    <3> QED
      BY <1>6, <1>8, <3>2, <3>3
  <2>3. CASE j <= Len(peers) /\ ~(k <= Len(peers))
    BY <1>1, <1>4, <1>5, <1>6, <2>3
  <2>4. CASE ~(j <= Len(peers))
    <3>1. ~(k <= Len(peers)) /\ j - Len(peers) < k - Len(peers)
      BY <1>2, <1>8, <2>1, <2>4
    <3>2. g[j - Len(peers)] < g[k - Len(peers)]
      BY <1>5, <1>6, <2>4, <3>1
    <3> QED
      BY <1>1, <1>4, <1>5, <1>6, <2>4, <3>1, <3>2
  <2> QED
    BY <2>2, <2>3, <2>4
<1>9. h \in [TCPIn(all) -> 1..Len(both)]
  BY <1>3, <1>7
<1>10. Traces(h, both, Len(both), all)
  BY <1>7, <1>8, <1>9 DEF Traces
<1> QED
  BY <1>10 DEF both, all

\* Locators of another kind need no text.
LEMMA TracesNone ==
  ASSUME NEW peers, \A k \in DOMAIN peers : peers[k].kind # "TCPv4"
  PROVE  \E f : Traces(f, <<>>, Len(<<>>), peers)
<1> DEFINE f == [k \in {} |-> 0]
<1>1. TCPIn(peers) = {} /\ Len(<<>>) = 0
  BY DEF TCPIn
<1>2. f \in [{} -> 1..0]
  OBVIOUS
<1> HIDE DEF f
<1> QED
  BY <1>1, <1>2 DEF Traces
-----------------------------------------------------------------------------
\* What TCPPeers makes of a vector.

\* Its result is a list of TCP locators: the documented texts' are there in order,
\* and all of them come from texts in order.
LEMMA TCPPeersResult ==
  ASSUME NEW v \in Seq(Texts)
  PROVE  /\ TCPPeers(v) \in Seq(Locators)
         /\ \A k \in DOMAIN TCPPeers(v) : TCPPeers(v)[k].kind = "TCPv4"
         /\ \E f : Leads(f, v, Len(v), TCPPeers(v))
         /\ \E f : Traces(f, v, Len(v), TCPPeers(v))
<1> DEFINE g == Loop(v)
           Good(n) == /\ g[n] \in Seq(Locators)
                      /\ \A k \in DOMAIN g[n] : g[n][k].kind = "TCPv4"
                      /\ \E f : Leads(f, v, n, g[n])
                      /\ \E f : Traces(f, v, n, g[n])
           S == {n \in Nat : n <= Len(v) => Good(n)}
<1>1. Len(v) \in Nat
  OBVIOUS
<1>2. \A i \in 0..Len(v) : g[i] = Iteration(v, g, i)
  <2>1. IsLoop(v, g, Len(v))
    BY <1>1, LoopExists
  <2> HIDE DEF g
  <2> QED
    BY <2>1 DEF IsLoop
<1> HIDE DEF g
<1>3. 0 \in S
  <2>1. g[0] = <<>>
    BY <1>1, <1>2 DEF Iteration
  <2> DEFINE f == [i \in {} |-> 0]
  <2>2. DocumentedIn(v, 0) = {}
    BY DEF DocumentedIn
  <2>3. f \in [{} -> DOMAIN g[0]]
    OBVIOUS
  <2> HIDE DEF f
  <2>4. Leads(f, v, 0, g[0])
    BY <2>2, <2>3 DEF Leads
  <2>5. g[0] \in Seq(Locators) /\ DOMAIN g[0] = {}
    BY <2>1
  <2>6. TCPIn(g[0]) = {}
    BY <2>5 DEF TCPIn
  <2>7. f \in [{} -> 1..0]
    BY DEF f
  <2>8. Traces(f, v, 0, g[0])
    BY <2>6, <2>7 DEF Traces
  <2>9. Good(0)
    BY <2>4, <2>5, <2>8
  <2> HIDE DEF Good
  <2> QED
    BY <2>9
<1>4. ASSUME NEW n \in Nat, n \in S
      PROVE  n + 1 \in S
  <2> SUFFICES ASSUME n + 1 <= Len(v)
               PROVE  Good(n + 1)
    OBVIOUS
  <2> DEFINE text == v[n + 1]
  <2>1. Good(n) /\ n + 1 \in 1..Len(v) /\ text \in Texts
    BY <1>1, <1>4
  <2>2. g[n + 1] = IF HasColon(text) THEN Append(g[n], TCPPeer(text)) ELSE g[n]
    <3>1. g[n + 1] = Iteration(v, g, n + 1) /\ (n + 1) - 1 = n /\ n + 1 # 0
      BY <1>1, <1>2, <2>1
    <3> QED
      BY <3>1 DEF Iteration
  <2>3. PICK f, e : Leads(f, v, n, g[n]) /\ Traces(e, v, n, g[n])
    BY <2>1
  <2>4. CASE HasColon(text)
    <3> DEFINE peer == TCPPeer(text)
    <3>1. /\ peer \in Locators /\ peer.kind = "TCPv4" /\ (Documented(text) => peer = Promised(text))
          /\ MadeOf(peer, text)
      BY <2>1, <2>4, TCPPeerType, DocumentedPeer, MadeOfItsText
    <3>2. g[n + 1] = Append(g[n], peer)
      BY <2>2, <2>4
    <3> HIDE DEF peer
    <3>3. \E h : Leads(h, v, n + 1, g[n + 1])
      BY <2>1, <2>3, <3>1, <3>2, LeadsAppend
    <3>4. g[n + 1] \in Seq(Locators) /\ \A k \in DOMAIN g[n + 1] : g[n + 1][k].kind = "TCPv4"
      BY <2>1, <3>1, <3>2
    <3>5. \E h : Traces(h, v, n + 1, g[n + 1])
      BY <2>1, <2>3, <3>1, <3>2, TracesAppend
    <3> QED
      BY <3>3, <3>4, <3>5
  <2>5. CASE ~HasColon(text)
    <3>1. ~Documented(text) /\ g[n + 1] = g[n]
      BY <2>1, <2>2, <2>5, DocumentedPeer
    <3>2. Leads(f, v, n + 1, g[n + 1])
      BY <2>3, <3>1, LeadsSkip
    <3>3. Traces(e, v, n + 1, g[n + 1])
      BY <2>3, <3>1, TracesSkip
    <3> QED
      BY <2>1, <3>1, <3>2, <3>3
  <2> QED
    BY <2>4, <2>5
<1>5. Len(v) \in S
  <2> HIDE DEF S
  <2> QED
    BY <1>1, <1>3, <1>4, SetInduction
<1>6. Good(Len(v))
  BY <1>1, <1>5
<1> QED
  BY <1>6, TCPPeersIsLoop DEF g
-----------------------------------------------------------------------------
\* The invariant.

(***************************************************************************)
(* The properties of the list need more than themselves: PeersInOrder and  *)
(* PeersWereGiven need the types of what was given and what was made of    *)
(* it, and PeersHaveTransport that a transport, once added, stays.         *)
(***************************************************************************)
QosInv == TypeOK /\ PeersInOrder /\ PeersWereGiven /\ PeersHaveTransport

\* A vector is a sequence of texts.
LEMMA VectorType == Vectors \subseteq Seq(Texts)
  BY MaxPeersAssumption DEF Vectors

\* In the beginning nothing was given, and there are no peers.
LEMMA QosInit == Init => QosInv
<1> SUFFICES ASSUME Init PROVE QosInv
  OBVIOUS
<1>1. TypeOK
  BY DEF Init, TypeOK
<1>2. PeersHaveTransport
  BY DEF Init, PeersHaveTransport
<1>3. PeersInOrder
  <2> DEFINE f == [i \in {} |-> 0]
  <2>1. {i \in DOMAIN given : Documented(given[i])} = {}
    BY DEF Init
  <2>2. f \in [{} -> DOMAIN initialPeersList] /\ DOMAIN f = {}
    OBVIOUS
  <2> HIDE DEF f
  <2> QED
    BY <2>1, <2>2 DEF PeersInOrder
<1>4. PeersWereGiven
  <2> DEFINE f == [i \in {} |-> 0]
  <2>1. {k \in DOMAIN initialPeersList : initialPeersList[k].kind = "TCPv4"} = {}
    BY DEF Init
  <2>2. f \in [{} -> DOMAIN given] /\ DOMAIN f = {}
    OBVIOUS
  <2> HIDE DEF f
  <2> QED
    BY <2>1, <2>2 DEF PeersWereGiven
<1> QED
  BY <1>1, <1>2, <1>3, <1>4 DEF QosInv

\* A transport more, and peers of its kind: each peer has a transport.
LEMMA TransportAdded ==
  ASSUME QosInv, NEW kind \in TransportKinds, NEW ports \in SUBSET ListenPorts, Adds(kind, ports),
         NEW peers \in Seq(Locators), initialPeersList' = initialPeersList \o peers,
         \A k \in DOMAIN peers : peers[k].kind = kind
  PROVE  user_transports' \in Seq(Transports) /\ initialPeersList' \in Seq(Locators) /\ PeersHaveTransport'
<1> DEFINE added == [kind |-> kind, listening_ports |-> ports]
<1>1. added \in Transports /\ added.kind = kind
  BY DEF Transports
<1>2. user_transports \in Seq(Transports) /\ user_transports' = Append(user_transports, added)
  BY DEF QosInv, TypeOK, Adds
<1> HIDE DEF added
<1>3. /\ user_transports' \in Seq(Transports)
      /\ Len(user_transports) + 1 \in DOMAIN user_transports'
      /\ user_transports'[Len(user_transports) + 1] = added
      /\ \A j \in DOMAIN user_transports : j \in DOMAIN user_transports' /\ user_transports'[j] = user_transports[j]
  BY <1>1, <1>2
<1>4. initialPeersList \in Seq(Locators)
  BY DEF QosInv, TypeOK
<1>5. ASSUME NEW i \in DOMAIN initialPeersList'
      PROVE  \E j \in DOMAIN user_transports' : user_transports'[j].kind = initialPeersList'[i].kind
  <2>1. CASE i \in DOMAIN initialPeersList
    <3>1. initialPeersList'[i] = initialPeersList[i]
      BY <1>4, <2>1
    <3>2. PICK j \in DOMAIN user_transports : user_transports[j].kind = initialPeersList[i].kind
      BY <2>1 DEF QosInv, PeersHaveTransport
    <3> QED
      BY <1>3, <3>1, <3>2
  <2>2. CASE i \notin DOMAIN initialPeersList
    <3>1. i - Len(initialPeersList) \in DOMAIN peers
          /\ initialPeersList'[i] = peers[i - Len(initialPeersList)]
      BY <1>4, <2>2
    <3>2. initialPeersList'[i].kind = kind
      BY <3>1
    <3> QED
      BY <1>1, <1>3, <3>2
  <2> QED
    BY <2>1, <2>2
<1> QED
  BY <1>3, <1>4, <1>5 DEF PeersHaveTransport

\* Texts given, and the locators made of them: the documented peers are in order,
\* and none is made up.
LEMMA PeersAdded ==
  ASSUME QosInv, NEW texts \in Seq(Texts), given' = given \o texts,
         NEW peers \in Seq(Locators), initialPeersList' = initialPeersList \o peers,
         \E f : Leads(f, texts, Len(texts), peers),
         \E f : Traces(f, texts, Len(texts), peers)
  PROVE  given' \in Seq(Texts) /\ PeersInOrder' /\ PeersWereGiven'
<1>1. given \in Seq(Texts) /\ initialPeersList \in Seq(Locators)
  BY DEF QosInv, TypeOK
<1>2. PICK f : Leads(f, given, Len(given), initialPeersList)
  BY <1>1, PeersInOrderIs DEF QosInv, PeersInOrder, InOrder
<1>3. PICK g : Leads(g, texts, Len(texts), peers)
  OBVIOUS
<1>4. \E h : Leads(h, given', Len(given'), initialPeersList')
  BY <1>1, <1>2, <1>3, LeadsConcat
<1>5. given' \in Seq(Texts)
  BY <1>1
<1>6. InOrder(given', initialPeersList')
  BY <1>4, <1>5, PeersInOrderIs
<1>7. PICK d : Traces(d, given, Len(given), initialPeersList)
  BY <1>1, PeersWereGivenIs DEF QosInv, PeersWereGiven, WereGiven
<1>8. PICK e : Traces(e, texts, Len(texts), peers)
  OBVIOUS
<1>9. \E h : Traces(h, given', Len(given'), initialPeersList')
  BY <1>1, <1>7, <1>8, TracesConcat
<1>10. WereGiven(given', initialPeersList')
  BY <1>5, <1>9, PeersWereGivenIs
<1>11. PeersInOrder'
  BY <1>6 DEF PeersInOrder, InOrder
<1>12. PeersWereGiven'
  BY <1>10 DEF PeersWereGiven, WereGiven
<1> QED
  BY <1>5, <1>11, <1>12

\* No texts given: any peers may be added.
LEMMA NoTexts ==
  ASSUME NEW peers
  PROVE  \E f : Leads(f, <<>>, Len(<<>>), peers)
<1> DEFINE f == [i \in {} |-> 0]
<1>1. DocumentedIn(<<>>, 0) = {} /\ Len(<<>>) = 0
  BY DEF DocumentedIn
<1>2. f \in [{} -> DOMAIN peers]
  OBVIOUS
<1> HIDE DEF f
<1> QED
  BY <1>1, <1>2 DEF Leads

\* A call that changes neither list keeps what is said of them.
LEMMA ListsKept ==
  ASSUME QosInv, UNCHANGED <<initialPeersList, given>>
  PROVE  /\ initialPeersList' \in Seq(Locators) /\ given' \in Seq(Texts)
         /\ PeersInOrder' /\ PeersWereGiven'
  BY DEF QosInv, TypeOK, PeersInOrder, PeersWereGiven
-----------------------------------------------------------------------------
\* The five functions.

\* Each call keeps the invariant.
LEMMA QosStep == QosInv /\ [Next]_vars => QosInv'
<1> SUFFICES ASSUME QosInv, [Next]_vars PROVE QosInv'
  OBVIOUS
<1>1. ASSUME NEW kind \in TransportKinds, Requests(kind)
      PROVE  requested' \subseteq TransportKinds
  BY <1>1 DEF QosInv, TypeOK, Requests
<1>2. /\ user_transports \in Seq(Transports) /\ initialPeersList \in Seq(Locators)
      /\ given \in Seq(Texts)
  BY DEF QosInv, TypeOK
<1>3. /\ <<>> \in Seq(Locators) /\ DOMAIN <<>> = {} /\ initialPeersList = initialPeersList \o <<>>
      /\ <<>> \in Seq(Texts) /\ given = given \o <<>>
  BY <1>2
<1>4. CASE addSHMTransport
  <2>1. user_transports' \in Seq(Transports) /\ PeersHaveTransport'
    BY <1>3, <1>4, TransportAdded DEF addSHMTransport, TransportKinds
  <2>2. /\ initialPeersList' \in Seq(Locators) /\ given' \in Seq(Texts)
        /\ PeersInOrder' /\ PeersWereGiven'
    BY <1>4, ListsKept DEF addSHMTransport
  <2>3. requested' \subseteq TransportKinds
    BY <1>1, <1>4 DEF addSHMTransport, TransportKinds
  <2> QED
    BY <2>1, <2>2, <2>3 DEF QosInv, TypeOK
<1>5. ASSUME NEW p \in ListenPorts, NEW v \in Vectors, addTCPV4Transport(p, v)
      PROVE  QosInv'
  <2>1. v \in Seq(Texts)
    BY VectorType
  <2>2. /\ TCPPeers(v) \in Seq(Locators)
        /\ \A k \in DOMAIN TCPPeers(v) : TCPPeers(v)[k].kind = "TCPv4"
        /\ \E f : Leads(f, v, Len(v), TCPPeers(v))
        /\ \E f : Traces(f, v, Len(v), TCPPeers(v))
    BY <2>1, TCPPeersResult
  <2>3. "TCPv4" \in TransportKinds /\ {p} \ {0} \in SUBSET ListenPorts
    BY DEF TransportKinds
  <2>4. user_transports' \in Seq(Transports) /\ initialPeersList' \in Seq(Locators) /\ PeersHaveTransport'
    BY <1>5, <2>2, <2>3, TransportAdded DEF addTCPV4Transport
  <2>5. given' \in Seq(Texts) /\ PeersInOrder' /\ PeersWereGiven'
    BY <1>5, <2>1, <2>2, PeersAdded DEF addTCPV4Transport
  <2>6. requested' \subseteq TransportKinds
    BY <1>1, <1>5, <2>3 DEF addTCPV4Transport
  <2> QED
    BY <2>4, <2>5, <2>6 DEF QosInv, TypeOK
<1>6. ASSUME NEW v \in Vectors, addUDPV4Transport(v)
      PROVE  QosInv'
  <2> DEFINE peers == Map(v, UDPPeer)
  <2>1. peers \in Seq(Locators) /\ \A k \in DOMAIN peers : peers[k].kind = "UDPv4"
    <3>1. v \in Seq(Texts)
      BY VectorType
    <3>2. peers = [i \in 1..Len(v) |-> UDPPeer(v[i])] /\ Len(v) \in Nat
      BY <3>1 DEF Map
    <3> HIDE DEF peers
    <3> QED
      BY <3>2, UDPPeerType
  <2>2. initialPeersList' = initialPeersList \o peers
    BY <1>6 DEF addUDPV4Transport
  <2>3. "UDPv4" \in TransportKinds /\ Adds("UDPv4", {}) /\ Requests("UDPv4") /\ given' = given
    BY <1>6 DEF addUDPV4Transport, TransportKinds
  <2> HIDE DEF peers
  <2>4. user_transports' \in Seq(Transports) /\ initialPeersList' \in Seq(Locators) /\ PeersHaveTransport'
    BY <2>1, <2>2, <2>3, TransportAdded
  <2>5. given' \in Seq(Texts) /\ PeersInOrder' /\ PeersWereGiven'
    BY <1>3, <2>1, <2>2, <2>3, NoTexts, TracesNone, PeersAdded
  <2>6. requested' \subseteq TransportKinds
    BY <1>1, <2>3
  <2> QED
    BY <2>4, <2>5, <2>6 DEF QosInv, TypeOK
<1>7. CASE addTCPV6Transport
  <2>1. /\ initialPeersList' \in Seq(Locators) /\ given' \in Seq(Texts)
        /\ PeersInOrder' /\ PeersWereGiven'
    BY <1>7, ListsKept DEF addTCPV6Transport
  <2>2. user_transports' \in Seq(Transports) /\ PeersHaveTransport'
    BY <1>2, <1>7 DEF addTCPV6Transport, QosInv, PeersHaveTransport
  <2>3. requested' \subseteq TransportKinds
    BY <1>1, <1>7 DEF addTCPV6Transport, TransportKinds
  <2> QED
    BY <2>1, <2>2, <2>3 DEF QosInv, TypeOK
<1>8. CASE addUDPV6Transport
  <2>1. user_transports' \in Seq(Transports) /\ PeersHaveTransport'
    BY <1>3, <1>8, TransportAdded DEF addUDPV6Transport, TransportKinds
  <2>2. /\ initialPeersList' \in Seq(Locators) /\ given' \in Seq(Texts)
        /\ PeersInOrder' /\ PeersWereGiven'
    BY <1>8, ListsKept DEF addUDPV6Transport
  <2>3. requested' \subseteq TransportKinds
    BY <1>1, <1>8 DEF addUDPV6Transport, TransportKinds
  <2> QED
    BY <2>1, <2>2, <2>3 DEF QosInv, TypeOK
<1>9. CASE UNCHANGED vars
  BY <1>9 DEF vars, QosInv, TypeOK, PeersInOrder, PeersWereGiven, PeersHaveTransport
<1> QED
  BY <1>4, <1>5, <1>6, <1>7, <1>8, <1>9 DEF Next

LEMMA QosInvariant == Spec => []QosInv
  BY QosInit, QosStep, PTL DEF Spec

(***************************************************************************)
(* Every peer given to addTCPV4Transport as address:port is an initial     *)
(* peer with that address and port, in the order they were given, in       *)
(* vectors of any length, with whatever texts between them, over any       *)
(* number of calls.                                                        *)
(***************************************************************************)
THEOREM DocumentedPeersArrive == Spec => []PeersInOrder
<1>1. QosInv => PeersInOrder
  BY DEF QosInv
<1> QED
  BY <1>1, QosInvariant, PTL

(***************************************************************************)
(* No TCP peer is made up, repeated or mixed from two texts: each comes    *)
(* from a text with a colon of its own, in the order of the texts; a text  *)
(* without port adds none.                                                 *)
(***************************************************************************)
THEOREM NoPeerMadeUp == Spec => []PeersWereGiven
<1>1. QosInv => PeersWereGiven
  BY DEF QosInv
<1> QED
  BY <1>1, QosInvariant, PTL

(***************************************************************************)
(* No call leaves an initial peer for whose kind of locator there is no    *)
(* transport.                                                              *)
(***************************************************************************)
THEOREM PeersReachable == Spec => []PeersHaveTransport
<1>1. QosInv => PeersHaveTransport
  BY DEF QosInv
<1> QED
  BY <1>1, QosInvariant, PTL
=============================================================================
