CONSTANTS
    SeqMax = 31
    Isns = {8, 29}
    StreamLen = 4
    MaxPackets = 5
    pageBytes = 2
    PageLimits = {0, 2}
SPECIFICATION Spec
INVARIANTS
    PagesAreKept
    StreamIsFaithful
    NoByteLost
