---------------------------- MODULE ParticipantQos ----------------------------
(***************************************************************************)
(* ParticipantQosHandler: the transports and initial peers that a          *)
(* DomainParticipant gets.  The built-in transports are disabled, so the   *)
(* participant has exactly those that were added here.                     *)
(*                                                                         *)
(* A text is the sequence of the fields between its colons: "a:b:c" is     *)
(* <<"a", "b", "c">>, find(':') succeeds if there are two fields or more,  *)
(* and atoi of what follows the first colon reads the second field.        *)
(*                                                                         *)
(* External: IPLocator::setIPv4 leaves the address of a locator invalid    *)
(* when the text is no IPv4 address (its answer is ignored); the kind of a *)
(* new locator is UDPv4; a TCP locator's port field holds the physical     *)
(* port, a number below PhysicalPorts, in its lower half and the logical   *)
(* port in its upper half.                                                 *)
(***************************************************************************)
EXTENDS Integers, Sequences

CONSTANTS
  Fields,         \* pieces of text without a colon
  IPv4,           \* those that are IPv4 addresses
  AtoI,           \* what atoi makes of each of them
  Texts,          \* the texts that callers pass
  ListenPorts,    \* the values of listen_port that they pass
  PhysicalPorts,  \* 2^16; smaller in a model
  MaxPeers,       \* bound: length of the vectors passed
  MaxCalls        \* bound: number of calls

ASSUME FieldsAssumption == IPv4 \subseteq Fields /\ AtoI \in [Fields -> Int]
ASSUME TextsAssumption == \A text \in Texts : text \in Seq(Fields) /\ text # <<>>
ASSUME PortsAssumption ==
  PhysicalPorts \in Nat \ {0} /\ ListenPorts \subseteq 0..(PhysicalPorts - 1)
ASSUME MaxPeersAssumption == MaxPeers \in Nat

VARIABLES
  user_transports,    \* the transports added, in order
  initialPeersList,   \* locators, in order
  requested,          \* history: kinds of the transports asked for
  given               \* history: the texts passed to addTCPV4Transport

vars == <<user_transports, initialPeersList, requested, given>>

TransportKinds == {"SHM", "TCPv4", "TCPv6", "UDPv4", "UDPv6"}
PortFieldSize == PhysicalPorts * PhysicalPorts

Transports == [kind : TransportKinds, listening_ports : SUBSET ListenPorts]
Locators == [kind : {"TCPv4", "UDPv4"},
             address : IPv4 \cup {"invalid"},
             port : 0..(PortFieldSize - 1)]

\* Types, which the proofs need; the kinds and fields of Fast DDS's locators.
TypeOK ==
  /\ user_transports \in Seq(Transports)
  /\ initialPeersList \in Seq(Locators)
  /\ requested \subseteq TransportKinds
  /\ given \in Seq(Texts)

Init ==
  /\ user_transports = <<>>
  /\ initialPeersList = <<>>
  /\ requested = {}
  /\ given = <<>>
-----------------------------------------------------------------------------
setIPv4(text) ==
  IF Len(text) = 1 /\ text[1] \in IPv4 THEN text[1] ELSE "invalid"

\* An int assigned to the port of a locator, an unsigned number.
PortField(n) == n % PortFieldSize

\* Mutant of TCPPeer: the kind of the locator is not set.
TCPPeer_DefaultKind(text) ==
  [kind |-> "UDPv4", address |-> setIPv4(<<text[1]>>), port |-> PortField(AtoI[text[2]])]

\* The locator made of a text with a colon.
TCPPeer(text) ==
  [kind |-> "TCPv4", address |-> setIPv4(<<text[1]>>), port |-> PortField(AtoI[text[2]])]

HasColon(text) == Len(text) > 1

\* Mutant of TCPPeers: a text without colon ends the loop.
TCPPeers_Breaks(texts) ==
  LET upTo[i \in 0..Len(texts)] ==
        IF i = 0 THEN <<>>
        ELSE IF \A j \in 1..i : HasColon(texts[j]) THEN Append(upTo[i - 1], TCPPeer(texts[i]))
        ELSE upTo[i - 1]
  IN  upTo[Len(texts)]

\* Mutant of TCPPeers: no test against npos.  Without a colon substr(0, npos) and
\* substr(npos + 1), which is substr(0), are both the whole text.
TCPPeers_NoTest(texts) ==
  [i \in DOMAIN texts |->
     TCPPeer(IF HasColon(texts[i]) THEN texts[i] ELSE <<texts[i][1], texts[i][1]>>)]

\* What the loop over the texts adds to the list: upTo[i] after i texts,
\* of which those without a colon are skipped.
TCPPeers(texts) ==
  LET upTo[i \in 0..Len(texts)] ==
        IF i = 0 THEN <<>>
        ELSE IF HasColon(texts[i]) THEN Append(upTo[i - 1], TCPPeer(texts[i]))
        ELSE upTo[i - 1]
  IN  upTo[Len(texts)]

Map(s, Op(_)) == [i \in DOMAIN s |-> Op(s[i])]

Requests(k) == requested' = requested \cup {k}

Adds(k, ports) ==
  user_transports' = Append(user_transports, [kind |-> k, listening_ports |-> ports])

addSHMTransport ==
  /\ Adds("SHM", {})
  /\ Requests("SHM")
  /\ UNCHANGED <<initialPeersList, given>>

\* listen_port 0 means not to listen.
addTCPV4Transport(listen_port, peer_locators) ==
  /\ initialPeersList' = initialPeersList \o TCPPeers(peer_locators)
  /\ Adds("TCPv4", {listen_port} \ {0})
  /\ Requests("TCPv4")
  /\ given' = given \o peer_locators

\* The body of addTCPV6Transport is empty.
addTCPV6Transport ==
  /\ Requests("TCPv6")
  /\ UNCHANGED <<user_transports, initialPeersList, given>>

\* The kind and the port of a UDP peer keep their defaults.
UDPPeer(text) == [kind |-> "UDPv4", address |-> setIPv4(text), port |-> 0]

addUDPV4Transport(ipaddrs) ==
  /\ initialPeersList' = initialPeersList \o Map(ipaddrs, UDPPeer)
  /\ Adds("UDPv4", {})
  /\ Requests("UDPv4")
  /\ UNCHANGED given

addUDPV6Transport ==
  /\ Adds("UDPv6", {})
  /\ Requests("UDPv6")
  /\ UNCHANGED <<initialPeersList, given>>

Vectors == UNION {[1..n -> Texts] : n \in 0..MaxPeers}

Next ==
  /\ Len(user_transports) < MaxCalls
  /\ \/ addSHMTransport
     \/ \E p \in ListenPorts, v \in Vectors : addTCPV4Transport(p, v)
     \/ \E v \in Vectors : addUDPV4Transport(v)
     \/ addTCPV6Transport
     \/ addUDPV6Transport

Spec == Init /\ [][Next]_vars
-----------------------------------------------------------------------------
\* Properties.

(***************************************************************************)
(* Every peer given in the documented format, address:port, is in the list *)
(* of initial peers with its address and port, whatever else was given     *)
(* before, after and between, and these peers keep their order.            *)
(***************************************************************************)
Documented(text) ==
  /\ Len(text) = 2
  /\ text[1] \in IPv4
  /\ AtoI[text[2]] \in 1..(PhysicalPorts - 1)

Promised(text) == [kind |-> "TCPv4", address |-> text[1], port |-> AtoI[text[2]]]

PeersInOrder ==
  \E f \in [{i \in DOMAIN given : Documented(given[i])} -> DOMAIN initialPeersList] :
    /\ \A i, j \in DOMAIN f : i < j => f[i] < f[j]
    /\ \A i \in DOMAIN f : initialPeersList[f[i]] = Promised(given[i])

(***************************************************************************)
(* Conversely no TCP peer is made up, repeated or mixed from two texts:    *)
(* each comes from a text of its own that has a colon, in the order of     *)
(* the texts, with the address before the colon, unless that is none, and  *)
(* the port behind it.  A text without port adds no peer at all, neither   *)
(* its address nor a default port.                                         *)
(***************************************************************************)
MadeOf(peer, text) ==
  /\ Len(text) > 1
  /\ peer.address = IF text[1] \in IPv4 THEN text[1] ELSE "invalid"
  /\ AtoI[text[2]] \in 0..(PhysicalPorts - 1) => peer.port = AtoI[text[2]]

PeersWereGiven ==
  \E f \in [{k \in DOMAIN initialPeersList : initialPeersList[k].kind = "TCPv4"} -> DOMAIN given] :
    /\ \A j, k \in DOMAIN f : j < k => f[j] < f[k]
    /\ \A k \in DOMAIN f : MadeOf(initialPeersList[k], given[f[k]])

\* Every initial peer can be reached by a transport that was added.
PeersHaveTransport ==
  \A i \in DOMAIN initialPeersList :
    \E j \in DOMAIN user_transports : user_transports[j].kind = initialPeersList[i].kind

(***************************************************************************)
(* What ParticipantQosHandler.h says of the five functions: each adds its  *)
(* transport ("add the TCPv6 strategy", line 41).  addTCPV6Transport does  *)
(* not, and as the built-in transports are disabled a participant          *)
(* configured with it alone has no transport at all.                       *)
(***************************************************************************)
RequestedIsAdded ==
  \A k \in requested : \E j \in DOMAIN user_transports : user_transports[j].kind = k
=============================================================================
