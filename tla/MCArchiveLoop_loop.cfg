SPECIFICATION LoopSpec
CONSTANTS
    Files <- MCFiles
    Offsets = {8, 78, 200}
    Fds = {3}
    MaxElfs = 5
    MaxRefs = 6
PROPERTIES
    WalksArchive
CHECK_DEADLOCK FALSE
