SPECIFICATION Spec
CONSTANTS
    Moved = Moved
    Page = Page
    Keys = {Moved, Page}
    Redirect <- MCRedirect
    Linked = {Page}
    Requests = {r1, r2}
    TTL = 1
    BackfillTTL = 1
    Lag = 1
    Miss = Miss
    NoJob = NoJob
INVARIANTS
    ServiceInv
    CachedAgeBounded
    SharedPagesHoldNoCheck
    CompletedMeansChecked
SYMMETRY RequestSymmetry
