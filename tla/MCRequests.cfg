SPECIFICATION MCSpec
CONSTANTS
    Codes = {200, 304, 404}
    MaxVia = 2
    Timeout = 2
    MaxBody = 2
    MaxLinks <- MCMaxLinks
    Default = 10
    Waits <- MCWaits
    PollPeriod = 2
    WriteTimeout = 4
    LinkCodes = {200, 304, 404, 405}
    LinkVia = 2
    LinkTimeout = 2
INVARIANTS
    AnswerBlamesRightSide
    TimingInv
    VerdictIsFair
    LinkInv
