SPECIFICATION Spec
CONSTANTS
    a = a
    p = p
    q = q
    k = k
    v1 = v1
    v2 = v2
    s1 = s1
    s2 = s2
    y = y
    Digi = {a, p, q, k}
    KindOf <- MCKindOf
    Val = {v1, v2}
    None = None
    SyncName = {s1, s2}
    PolicyName = {y}
    Client = {c1}
    NoSpec = NoSpec
    Nothing = Nothing
    Fires = {v2}
    NumRetry = 1
    Setup <- MCSetup
    Specs <- MCSpecs
    MountArgs <- MCMountArgs
INVARIANTS
    TypeOK
    NothingLeft
    BindingsSettle
    PoliciesEnforced
PROPERTIES
    BoundWrites
    TargetAfterSource
    MountsKept
    ComesToRest
CHECK_DEADLOCK FALSE
