SPECIFICATION Spec
CONSTANTS
    Requests = {r1, r2}
    Limits = {1, 2}
    Inactive = Inactive
    LocalTtl = 1
    PositiveTtl = 2
    NegativeTtl = 1
    Window = 2
    MaxDelay = 1
SYMMETRY Symmetry
INVARIANT TypeOK
INVARIANT AnswersSoonCurrent
INVARIANT OnlyLateReadersBringBack
PROPERTY GrantsWithinLimit
