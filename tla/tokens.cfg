SPECIFICATION Spec
CONSTANTS
    f1 = f1
    f2 = f2
    Logins = {"login"}
    Refreshes <- MCRefreshes
    Logouts = {"o1"}
    Uses = {"u1"}
    Users = {"ann"}
    Second = 2
    Lifetime <- MCLifetime
    MaxClock = 3
    MaxFaults = 1
INVARIANTS TypeOK RevokedIsRefused LogoutIsLasting
SYMMETRY MCSymmetry
CHECK_DEADLOCK FALSE
