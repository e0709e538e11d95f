CONSTANTS
    a = a
    b = b
    i1 = i1
    i2 = i2
    c1 = c1
    x = x
    p1 = p1
    p2 = p2
    oc = oc
    s1 = s1
    u1 = u1
    u2 = u2
    h1 = h1
    h2 = h2
    s2 = s2
    NoRow = NoRow
    NoPool = NoPool
    ProviderIDs = {i1, i2}
    ProviderNames = {a, b}
    ComboIDs = {c1}
    ComboNames = {x}
    PoolIDs = {p1}
    Builtins = {oc}
    Selections = {s1, s2}
    URLs = {u1}
    Handlers = {h1, h2}
SPECIFICATION Spec
PROPERTIES
    AbsentModelsKeepStored
