SPECIFICATION Spec
CONSTANTS
    n1 = n1
    n2 = n2
    k1 = k1
    k2 = k2
    v = v
    x = x
    y = y
    z = z
    sx = sx
    sy = sy
    Terminal = {t1}
    Shell = {t1}
    Name = {n1, n2}
    Kind = {k1, k2}
    Setting = {v}
    Main = Main
    Nil = Nil
    Garbled = Garbled
    Id = {x, y, z}
    Server = {sx, sy}
    Nowhere = Nowhere
    NoId = NoId
    User <- MCUser
    Session <- RunSession
PROPERTY RunStartsAll
CHECK_DEADLOCK FALSE
