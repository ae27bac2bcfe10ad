SPECIFICATION Spec
CONSTANTS
    Sends = {s1, s2, s3}
    Reads = {}
    Users = {"ann", "bob", "eve"}
    DialogIds = {"d0", "d1", "d2"}
    Participants <- MCParticipants
    ClientIds = {"c1", "c2"}
    Workers = {"w1", "w2"}
    SendCalls <- MCSendCalls
    ReadCalls <- MCNoCalls
    Listeners = {}
    MaxFaults = 1
SYMMETRY MCSendSymmetry
INVARIANTS TypeOK StoredOnce AckIsTrue
CHECK_DEADLOCK FALSE
