CONSTANTS
    r1 = r1
    r2 = r2
    Requests = {r1, r2}
    MaxCodes = 3
    MaxAttempts = 2
    MaxResends = 1
SPECIFICATION Spec
SYMMETRY Symmetry
INVARIANTS
    OnlyByPhone
    ResendsBounded
PROPERTY AcceptsTheLastOnce
CHECK_DEADLOCK FALSE
