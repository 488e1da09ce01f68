\* Two handlers in flight, two cycles, a manual or a random payout.
CONSTANTS
    m1 = m1
    m2 = m2
    m3 = m3
    m4 = m4
    m5 = m5
    r1 = r1
    r2 = r2
    Requests = {r1, r2}
    Orders <- OneOrTwo
    Lines <- Samples
    GroupSettings <- Methods
    MaxCycles = 2
SPECIFICATION Spec
SYMMETRY Symmetry
INVARIANTS
    NoLostCompletion
    QueuesAreFair
    RandomDrawsSpread
PROPERTY ContractUnlessCrossed
