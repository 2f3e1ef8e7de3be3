SPECIFICATION Spec
CONSTANTS
    BURST_LEN = 4
    DEPTH = 6
    BURSTS = 2
    Lengths = {10, 13, 16}
    Early = 1
    Outstanding = 1
    Captures = 1
PROPERTY
    AddressStable
