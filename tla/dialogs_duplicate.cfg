SPECIFICATION Spec
CONSTANTS
    Creates = {r1, r2}
    Users = {ann, bob}
    Unknown = nobody
    MaxFaults = 0
INVARIANTS OneDialogPerPair
SYMMETRY MCSymmetry
CHECK_DEADLOCK FALSE
