------------------------------ MODULE MCLibrary ------------------------------
EXTENDS Library, TLC
MCTargets == (SUBSET Kinds) \ {{}}
MCSymmetry == Permutations(Handlers) \cup Permutations(Ids)
=============================================================================
