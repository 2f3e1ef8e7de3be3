SPECIFICATION FairSpec
CONSTANTS
    BURST_LEN = 4
    DEPTH = 6
    BURSTS = 3
    Lengths = {5, 14, 17}
    Early = 2
    Outstanding = 2
    Captures = 1
INVARIANTS
    BurstsWellFormed
    FlushReaches
PROPERTIES
    ReadInOrder
    EmptyMeansDone
    CaptureEnds
