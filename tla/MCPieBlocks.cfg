CONSTANTS
    Texts <- MCTexts
    Modes <- MCModes
    iMax = 5
SPECIFICATION Spec
INVARIANTS OrderKept NothingLost Nested
CHECK_DEADLOCK FALSE
