SPECIFICATION Spec
CONSTANT Scenarios <- MCScenarios
INVARIANTS
    FilesAreWhole
    ReadsRightBytes
PROPERTIES
    CallsReturn
