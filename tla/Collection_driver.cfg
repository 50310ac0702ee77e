SPECIFICATION Spec
CONSTANTS
    c1 = c1
    c2 = c2
    Callers = {c1, c2}
    QueueCap = 1
    BatchMax = 2
    Plans <- MCPlans
    Queries <- MCQueries
INVARIANTS
    WritesTellTheTruth
    CursorsAreKept
    WrittenIsRead
PROPERTIES
    ImplementsStream
    ProgramEnds
