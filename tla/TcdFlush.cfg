SPECIFICATION Spec
CONSTANTS
    BURST_LEN = 4
    DEPTH = 6
    BURSTS = 2
    Lengths = {9}
    Early = 2
    Outstanding = 1
    Captures = 0
INVARIANT
    FlushComplete
