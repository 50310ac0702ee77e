CONSTANTS
    k1 = k1
    k2 = k2
    Conns = {c1, c2}
    Cursors = {k1, k2}
    QueueCap = 1
    Cases <- SafetyCases
SPECIFICATION Spec
SYMMETRY MCSymmetry
CHECK_DEADLOCK FALSE
INVARIANTS
    Consistent
    SentCursorsAreRight
    CursorNotForgotten
