SPECIFICATION Spec
CONSTANTS
    Deltas = {1, 3}
    Valids = {{1}, {3}, {0, 2}, {0, 1, 2, 3}}
    TIME = 4
    DEPTH = 2
    OUT = 1
    Events = 3
INVARIANTS
    TimeAsTested
CHECK_DEADLOCK FALSE
