SPECIFICATION Spec
CONSTANTS
    n1 = n1
    n2 = n2
    k1 = k1
    k2 = k2
    v = v
    x = x
    y = y
    z = z
    sx = sx
    sy = sy
    Terminal = {t1, t2}
    Shell = {t1, t2}
    Name = {n1, n2}
    Kind = {k1, k2}
    Setting = {v}
    Main = Main
    Nil = Nil
    Garbled = Garbled
    Id = {x, y, z}
    Server = {sx, sy}
    Nowhere = Nowhere
    NoId = NoId
    User <- MCUser
    Session <- MCSession
SYMMETRY Symmetry
INVARIANTS
    TypeOK
    HomeKept
PROPERTIES
    MakesAll
    StopStopsAll
    SpacesKept
CHECK_DEADLOCK FALSE
