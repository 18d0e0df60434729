CONSTANTS
    fileA = fileA
    fileB = fileB
    fileC = fileC
    None = None
    Files <- MCFiles
    Root = fileA
    Inputs <- MCInputs
    StdinContent <- MCStdin
    MaxDepth = 9
SPECIFICATION Spec
INVARIANTS NotInItself AllProcessed
PROPERTY Terminates
CHECK_DEADLOCK FALSE
