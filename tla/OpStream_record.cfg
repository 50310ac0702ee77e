CONSTANTS
    HeaderLen = 2
    MessageLens <- MCMessageLens
    PacketBufSize = 2
    MaxCalls = 3
    MaxBidis = 2
SPECIFICATION FairSpec
INVARIANTS
    Consistent
    RecordedIsRight
PROPERTIES
    RecordingEnds
