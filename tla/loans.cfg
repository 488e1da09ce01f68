\* Two handlers in flight, interest of a half, rounded.
CONSTANTS
    m1 = m1
    l1 = l1
    l2 = l2
    r1 = r1
    r2 = r2
    Members = {m1}
    LoanIds = {l1, l2}
    Requests = {r1, r2}
    Amounts = {1, 3}
    Savings = {0, 2}
    RateNum = 1
    RateDen = 2
    Multiplier = 2
    MaxRepaid = 4
SPECIFICATION Spec
SYMMETRY Symmetry
INVARIANTS
    RepaidInFull
    BalanceExact
PROPERTY ClosedIsFinal
