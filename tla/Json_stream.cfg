SPECIFICATION Spec
CONSTANTS
    Streams <- MCStreams
    Texts <- MCTexts
    MaxRead = 2
    MaxCalls = 2
CHECK_DEADLOCK FALSE
INVARIANTS
    StreamIsRight
    ValuesAreRight
    TextsAreRight
