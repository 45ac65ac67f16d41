CONSTANTS
    Half = 32
    RegCount = 2
    Kseg0 = 512
    MemSize = 96
    OffsetSpan = 256
    ElfFiles <- ListedFiles
    BaseAddrs = {768, 760, 1008}
    DiskMayFail = TRUE
SPECIFICATION FairTwoRuns
INVARIANTS
    PlacesPredicted
    ReadsBack
    InOrder
    ReadsInImage
    FailureLeavesNoPiece
    WritesOverlay
    ListsWhatWasConverted
PROPERTIES
    Termination
