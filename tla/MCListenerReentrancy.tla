------------------------- MODULE MCListenerReentrancy -------------------------
EXTENDS ListenerReentrancy, TLC

Symmetry ==
  Permutations(Threads) \cup Permutations(TypeObjs) \cup Permutations(Endpoints)
=============================================================================
