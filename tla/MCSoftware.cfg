CONSTANTS
    None = None
    Procs = {p1, p2}
    Frames = {1, 2, 3}
    Pages = {1, 2, 3}
    Sizes = {1, 2}
    PSPE = 1
    PSPB = 1
    T_READ = 2
    T_WRITE = 3
    T_SRAM_W = 1
    Lengths = {1, 2}
    Garbage = {0, 2}
    MaxRequests = 3
    MaxTime = 6
SPECIFICATION SoftwareSpec
INVARIANTS
    StreamsExact CachesCoherent MemoryOwned ResourcesReturned MonitorExact
    DelaysMatchClock TraceKept ResultsExact SystemCallsExact BandwidthKept
PROPERTY SoftwareSettles
CHECK_DEADLOCK FALSE
