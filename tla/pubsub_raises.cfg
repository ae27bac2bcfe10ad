SPECIFICATION Spec
CONSTANTS
    Workers = {"w1", "w2"}
    Events = {"e1", "e2"}
    Origin <- MCOrigin
    MaxFaults = 2
INVARIANTS AlwaysFallsBack
CHECK_DEADLOCK FALSE
