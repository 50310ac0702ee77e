SPECIFICATION Spec
CONSTANTS
    Cases <- MCCases
    QueueCap = 2
    StatCap = 2
    MaxFaults = 2
INVARIANTS
    OpsAreFaithful
    FilterIsExact
    LinesAreRight
PROPERTIES
    CommandEnds
