CONSTANTS
    u1 = u1
    u2 = u2
    u3 = u3
    r1 = r1
    r2 = r2
    Users = {u1, u2, u3}
    Founder = u1
    Requests = {r1, r2}
    Capacities = {2, 3}
    Role = {"owner", "member"}
    Places = {0, 1, 2}
    MaxPosition = 3
    MaxBegun = 4
SPECIFICATION Spec
SYMMETRY Symmetry
INVARIANTS
    PositionsDistinct
    TermsLocked
PROPERTIES
    CapacityRespected
    LeavesPaid
CHECK_DEADLOCK FALSE
