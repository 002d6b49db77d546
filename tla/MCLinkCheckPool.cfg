SPECIFICATION Spec
CONSTANTS
    Jobs = {j1, j2}
    Links = {u1, u2}
    Workers = {w1, w2}
    QueueSize = 1
    SemCap = 1
    SharedCache = TRUE
    NoJob = NoJob
    NoResult = NoResult
    QueueFull = QueueFull
SYMMETRY Symmetry
INVARIANTS
    ResultAccountsForEveryLink
    RequestsBounded
    YoungJobsAreKept
    StopIsKeptPrivate
    IndInv
PROPERTY ImplementsJobLifecycle
