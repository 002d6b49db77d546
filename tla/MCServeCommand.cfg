SPECIFICATION ServeFairSpec
CONSTANTS
    Requests = {r1, r2, r3}
    MaxRecords = 2
INVARIANTS
    GracefulAnswersAll
    ServicesOutliveHandlers
    TelemetryIsFlushed
PROPERTY ShutdownEnds
