\* One handler of several steps at a time, every payout method, fair.
CONSTANTS
    m1 = m1
    m2 = m2
    r1 = r1
    Members = {m1, m2}
    Owner = m1
    Requests = {r1}
    Amount = 2
    GroupSettings <- AllMethods
    EarlierPaid = {}
    MaxTotal = 4
    MaxDraws = 2
SPECIFICATION FairSpec
PROPERTIES
    PayoutFinal
    PaidRoundCompletes
    SettledRoundAdvances
