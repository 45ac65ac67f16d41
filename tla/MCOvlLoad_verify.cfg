CONSTANTS
    Half = 32
    RegCount = 2
    Kseg0 = 512
    OffsetSpan = 256
    Disks <- DamagedDisks
    BaseAddrs = {768, 1008}
SPECIFICATION Spec
INVARIANTS
    AcceptsOnlyOverlays
