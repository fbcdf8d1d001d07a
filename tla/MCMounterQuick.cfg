\* Two writes of a copy in quick succession.
SPECIFICATION SteadySpec
CONSTANTS
    Child = {c1}
    Val = {v0, v1}
    None = None
    TrimParent <- Permissive
    TrimChild <- Permissive
    MaxSize = 99
    Env <- CopyWrites
    MaxOps = 2
    MaxErr = 0
    MaxGen = 99
PROPERTIES
    CopyFollows
\* Once all is handled the mounter waits for the next event.
CHECK_DEADLOCK FALSE
