---------------------------- MODULE MCLinkCheckPool ----------------------------
EXTENDS LinkCheckPool, TLC
Symmetry == Permutations(Jobs) \cup Permutations(Links) \cup Permutations(Workers)
=============================================================================
