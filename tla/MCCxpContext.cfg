SPECIFICATION Spec
CHECK_DEADLOCK FALSE
CONSTANTS
    None = None
    main = main
    c1 = c1
    c2 = c2
    Main = main
    Ctxs = {main, c1, c2}
    Dirs = {"root", "sub", "out"}
    Below <- MCBelow
    Root = "root"
    Cwd = "sub"
    Locs = {"out"}
    Searches <- MCSearches
    Levels = {5}
    MaxErrors = 1
INVARIANTS TreeWhole CountsExact PermittedInMain ReadsBack
