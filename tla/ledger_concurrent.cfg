\* Two handlers in flight at once, recipients in queue order.
CONSTANTS
    m1 = m1
    m2 = m2
    r1 = r1
    r2 = r2
    Members = {m1, m2}
    Owner = m1
    Requests = {r1, r2}
    Amount = 2
    GroupSettings <- Queue
    EarlierPaid = {}
    MaxTotal = 4
    MaxDraws = 1
SPECIFICATION StartedSpec
SYMMETRY Symmetry
INVARIANTS
    NoLostAdvance
    CollectedCoversRecorded
    PaidWithinPot
    ReportsAreTrue
