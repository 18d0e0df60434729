CONSTANTS
    None = None
    Garbage = Garbage
    Kinds = {"file", "dir", "std", "url"}
    Contents <- MCContents
    BlockSize = 2
    MaxLoop = 1
    MaxLen = 3
SPECIFICATION Spec
INVARIANTS HandlesOwned SavedIsContent StatusRight
PROPERTY ReadWholeOrError
