SPECIFICATION Spec
CONSTANTS
    Requests = {r1, r2}
    Codes = {400, 404, 500, 502}
SYMMETRY Symmetry
INVARIANTS
    ActiveIsExact
    AnswersAreRecorded
