CONSTANTS
    MaxDocs = 5
    NumWorkers = 3
SPECIFICATION FairSpec
INVARIANTS
    InOrder
    EOFIsComplete
    EOFMeansQuiet
    IInv
PROPERTIES
    ImplementsOrderedRead
    PassEnds
