\* One message at a time of every kind: messages share nothing.
CONSTANTS
    n1 = n1
    Messages = {n1}
    Tries = 4
    JobAttempts = 3
    MaxStalls = 1
SPECIFICATION FairSpec
INVARIANTS
    LogsAreTrue
PROPERTIES
    KeepsPromise
    EverySendEnds
CHECK_DEADLOCK FALSE
