CONSTANTS
    Half = 32
    RegCount = 2
    Kseg0 = 512
    MemSize = 96
    OffsetSpan = 256
    ElfFiles <- PairFiles
    BaseAddrs = {784}
    DiskMayFail = FALSE
SPECIFICATION Spec
INVARIANTS
    DropsFirstHalf
