\* Reviews, discovery and crashes at the lock; and a graph of five names: a
\* diamond, and a node above or below it.
SPECIFICATION UserSpec
CONSTANTS
    a = a
    b = b
    c = c
    d = d
    e = e
    Node = {a, b, c, d, e}
    Digi = {a, b, c}
    Wants <- MCWants
    Resources <- MCResources
    MaxWrites = 3
    MaxCrash = 2
    Nobody = Nobody
INVARIANTS
    TypeOK
    HookTypeOK
    RootsAreRight
    CheckIsExact
PROPERTIES
    EveryReviewAnswered
CHECK_DEADLOCK FALSE
