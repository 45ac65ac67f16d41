CONSTANTS
    Half = 32
    RegCount = 2
    Kseg0 = 512
    MemSize = 96
    OffsetSpan = 256
    ElfFiles <- RelocatedFiles
    BaseAddrs = {768}
    DiskMayFail = FALSE
SPECIFICATION Spec
INVARIANTS
    NoNullDereference
    PassesAgree
    DropsFirstHalfOfAdjacentPair
    TableExact
    ReferencesMoved
    IInv
