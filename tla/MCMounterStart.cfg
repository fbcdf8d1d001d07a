\* Strict mode from the start of the driver, with every operation and fault.
SPECIFICATION StartSpec
CONSTANTS
    Child = {c1}
    Val = {v0, v1}
    None = None
    TrimParent <- Strict
    TrimChild <- StrictFromChild
    MaxSize = 99
    Env <- All
    MaxOps = 2
    MaxErr = 1
    MaxGen = 5
INVARIANTS
    TypeOK
PROPERTIES
    StatusIsTheChilds
\* Once all is handled the mounter waits for the next event.
CHECK_DEADLOCK FALSE
