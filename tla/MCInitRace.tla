------------------------------ MODULE MCInitRace ------------------------------
EXTENDS InitRace, TLC

Symmetry == Permutations(Threads) \cup Permutations(Objects)
=============================================================================
