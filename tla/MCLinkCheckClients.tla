-------------------------- MODULE MCLinkCheckClients --------------------------
EXTENDS LinkCheckClients, TLC
ClientSymmetry == Permutations(Fetches) \cup Permutations(Links) \cup Permutations(Workers)
=============================================================================
