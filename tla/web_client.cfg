SPECIFICATION FairSpec
CONSTANTS
    Users = {"ann", "bob"}
    Dialogs = {"d1", "d2"}
    Participants <- MCParticipants
    Own = {"m1", "m2"}
    Others = {"p1", "p2", "p3"}
    DialogOf <- MCDialogOf
    None = None
    PageSize = 2
    MaxSockets = 3
    MaxLoads = 2
    Scopes <- MCScopes
INVARIANTS TypeOK ViewIsTrue MissesOnlyKnown PostedAsTyped OneSocket
PROPERTIES Reconnects
CHECK_DEADLOCK FALSE
