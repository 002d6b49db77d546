SPECIFICATION FairSpec
CONSTANTS
    Jobs = {j1, j2}
    Links = {u1}
    Workers = {w1}
    QueueSize = 1
    SemCap = 1
    SharedCache = FALSE
    NoJob = NoJob
    NoResult = NoResult
    QueueFull = QueueFull
PROPERTIES
    PendingJobsSettle
    StartedJobsComplete
    StoppedPoolDrains
    JobsAreForgotten
