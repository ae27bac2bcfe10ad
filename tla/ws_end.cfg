SPECIFICATION FairSpec
CONSTANTS
    Sockets = {"a1", "a2"}
    Users = {"ann"}
    Owner <- MCOwner
    Limit = 1
    Events = {"e1", "e2"}
    To <- MCTo
PROPERTIES EverySendEnds ClosedIsForgotten
CHECK_DEADLOCK FALSE
