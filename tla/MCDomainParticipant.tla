------------------------- MODULE MCDomainParticipant -------------------------
EXTENDS DomainParticipantInv, TLC

\* Every constant set is a set of interchangeable names or addresses.
Symmetry ==
  Permutations(Threads) \cup Permutations(TopicNames) \cup Permutations(TypeNames)
  \cup Permutations(TypeObjs) \cup Permutations(TopicIds) \cup Permutations(Endpoints)
=============================================================================
