SPECIFICATION ClientsSpec
CONSTANTS
    Jobs = {j1}
    Links = {u1}
    Workers = {w1}
    QueueSize = 1
    SemCap = 1
    SharedCache = FALSE
    NoJob = NoJob
    NoResult = NoResult
    QueueFull = QueueFull
    Fetches = {f1, f2}
    MaxAttempts = 2
    Torn = Torn
INVARIANT FinishedPageShowsResult
SYMMETRY ClientSymmetry
