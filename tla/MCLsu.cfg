CONSTANTS
    NReg = 6
    SelMod = 8
    AddrLo = 4
    AddrHi = 4
    SAddrMod = 8
    RepMod = 4
    SizeMod = 4
    BttMod = 4
    DestMod = 8
    Packets <- MemcpyPackets
    MoverDepth = 2
    Flags = {1, 2}
    Blocking = TRUE
SPECIFICATION ProgramSpec
INVARIANTS EmitsAsProgrammed RegistersAsProgrammed AnswerExpected
PROPERTY CopiesAnswered
