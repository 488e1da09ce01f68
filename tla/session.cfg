\* Two logins one after the other in a tab that has two requests at a time.
CONSTANTS
    q1 = q1
    q2 = q2
    MaxLogins = 2
    Requests = {q1, q2}
    MaxTokens = 3
    MaxRevoked = 1
SPECIFICATION SessionFairSpec
INVARIANTS
    LeftStaysOut
PROPERTIES
    LogoutEndsSession
    CallsEnd
CHECK_DEADLOCK FALSE
