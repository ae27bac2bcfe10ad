SPECIFICATION Spec
CONSTANTS
    Creates = {r1, r2, r3}
    Users = {ann, bob, eve}
    Unknown = nobody
    MaxFaults = 1
INVARIANTS TypeOK AnswerIsTrue DuplicatesOnlyFromRaces
SYMMETRY MCSymmetry
CHECK_DEADLOCK FALSE
