SPECIFICATION FairSpec
CONSTANTS
    Sends = {"s1", "s2"}
    Reads = {"r1", "r2"}
    Users = {"ann", "bob", "eve"}
    DialogIds = {"d0", "d1", "d2"}
    Participants <- MCParticipants
    ClientIds = {"c1", "c2"}
    Workers = {"w1"}
    SendCalls <- MCAnnToBob
    ReadCalls <- MCReads
    Listeners = {"bob"}
    MaxFaults = 1
INVARIANTS ParticipantsOnly DeliveredAfterAnnounced ReadAnnouncedOnce
PROPERTIES StatusNeverFalls ImplementsMessageStore
PROPERTIES ReadReachesSender StoredIsAnnounced
CHECK_DEADLOCK FALSE
