SPECIFICATION Spec
CHECK_DEADLOCK FALSE
CONSTANTS
    Docs <- MCDocs
    NoId = NoId
    None = None
    Limits = {None, 2}
    NMax = 2
    LoopsMax = 12
INVARIANTS PathsSimple Complete
