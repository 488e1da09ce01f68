CONSTANTS
    g1 = g1
    g2 = g2
    i1 = i1
    r1 = r1
    r2 = r2
    k1 = k1
    k2 = k2
    Groups = {g1, g2}
    Invoices = {i1}
    Platform = Platform
    None = None
    Rows = {1, 2, 3, 4}
    Requests = {r1, r2}
    MaxSaves = 4
    MaxRuns = 3
    LinkGroups = {g1, g2}
    Chats = {k1, k2}
    NoChat = NoChat
    Owners = {r1, r2}
    MaxAttempts = 2
    MaxChallenges = 2
    MaxGuesses = 4
SPECIFICATION Spec
SYMMETRY Symmetry
INVARIANT PayersSeeTheirOwn
CHECK_DEADLOCK FALSE
