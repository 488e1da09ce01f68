CONSTANTS
    g1 = g1
    g2 = g2
    c1 = c1
    c2 = c2
    Groups = {g1, g2}
    LastRound = 2
    Calls = {c1, c2}
    MaxClicks = 3
    MaxPresses = 3
    None = None
SPECIFICATION TabSpec
INVARIANTS
    GroupsKeepTheirOwn
    QuietPageIsTrue
PROPERTIES
    Settles
    WritesStayInGroup
CHECK_DEADLOCK FALSE
