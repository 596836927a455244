--------------------------- MODULE MCConfiguration ---------------------------
EXTENDS Configuration, TLC
MCSymmetry == Permutations(Collections) \cup Permutations(Threads) \cup Permutations(Users)
=============================================================================
