SPECIFICATION Spec
CONSTANTS
    Files <- MCFiles
    Offsets = {0, 8, 78, 198, 500}
    Fds = {3, 4}
    MaxElfs = 3
    MaxRefs = 3
INVARIANTS
    DescriptorsTypeOK
    CountsReferences
    NothingLeaks
    DisabledTogether
    RawIsRaw
    AroffLeadsBack
