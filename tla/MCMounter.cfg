\* One child, written on both sides, its mount yielded and activated.
SPECIFICATION SteadySpec
CONSTANTS
    Child = {c1}
    Val = {v0, v1}
    None = None
    TrimParent <- Permissive
    TrimChild <- Permissive
    MaxSize = 99
    Env <- Writes
    MaxOps = 3
    MaxErr = 0
    MaxGen = 9
INVARIANTS
    SkipLosesNothing
PROPERTIES
    NoStaleOverwrite
    Converges
\* Once all is handled the mounter waits for the next event.
CHECK_DEADLOCK FALSE
