CONSTANTS
    SHN_LORESERVE = 4
    PN_XNUM = 2
    SHN_XINDEX = 99
    HighWord = 4096
    Alignments = {0, 1, 4, 8}
    Files <- MCFiles
    Headers <- MCHeaders
    Buffers <- MCBuffers
    PhdrCounts = {0, 1, 2}
    FlagOps <- MCFlagOps
    Plans <- MCPlans
    MaxScns = 5
SPECIFICATION Spec
INVARIANT SectionsStillThere
CHECK_DEADLOCK FALSE
