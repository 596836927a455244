------------------------------ MODULE MCUploads ------------------------------
EXTENDS Uploads, TLC
MCSymmetry == Permutations(Browsers) \cup Permutations(Threads) \cup Permutations(Uploads)
=============================================================================
