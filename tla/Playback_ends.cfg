CONSTANTS
    k1 = k1
    k2 = k2
    Conns = {c1, c2}
    Cursors = {k1, k2}
    QueueCap = 1
    Cases <- EndCases
SPECIFICATION FairSpec
PROPERTIES
    PlaybackEnds
CHECK_DEADLOCK FALSE
