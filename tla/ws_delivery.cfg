SPECIFICATION Spec
CONSTANTS
    Sockets = {a1, a2, a3}
    Users = {"ann"}
    Owner <- MCOwner
    Limit = 2
    Events = {"e1", "e2"}
    To <- MCTo
INVARIANTS TypeOK RegistryConsistent OpenIsListed NobodySkipped InOrder
SYMMETRY MCSymmetry
CHECK_DEADLOCK FALSE
