SPECIFICATION Spec
CONSTANTS
    Sends = {"s1", "s2"}
    Reads = {}
    Users = {"ann", "bob", "eve"}
    DialogIds = {"d0", "d1", "d2"}
    Participants <- MCParticipants
    ClientIds = {"c1", "c2"}
    Workers = {"w1"}
    SendCalls <- MCAnnToBob
    ReadCalls <- MCNoCalls
    Listeners = {}
    MaxFaults = 0
INVARIANTS SendIsIdempotent
CHECK_DEADLOCK FALSE
