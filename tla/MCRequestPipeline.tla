--------------------------- MODULE MCRequestPipeline ---------------------------
EXTENDS RequestPipeline, TLC

\* The connections are interchangeable.
Symmetry == Permutations(Requests)
=============================================================================
