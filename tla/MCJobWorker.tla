---------------------------- MODULE MCJobWorker ----------------------------
EXTENDS JobProperties, TLC
Symmetry == Permutations(Jobs) \cup Permutations(Handlers) \cup Permutations(Clips)
=============================================================================
