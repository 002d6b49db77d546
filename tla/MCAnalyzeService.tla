--------------------------- MODULE MCAnalyzeService ---------------------------
EXTENDS AnalyzeService, TLC
CONSTANTS Moved, Page
MCRedirect == Moved :> Page @@ Page :> Page
RequestSymmetry == Permutations(Requests)
=============================================================================
