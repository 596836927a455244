----------------------------- MODULE MCDiscovery -----------------------------
EXTENDS Discovery, TLC
MCSymmetry == Permutations(Ids) \cup Permutations(Paths) \cup Permutations(Contents)
              \cup Permutations(Scanners)
=============================================================================
