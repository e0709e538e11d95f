CONSTANTS
    a = a
    b = b
    i1 = i1
    i2 = i2
    c1 = c1
    c2 = c2
    y = y
    x = x
    p1 = p1
    p2 = p2
    oc = oc
    s1 = s1
    u1 = u1
    u2 = u2
    h1 = h1
    NoRow = NoRow
    NoPool = NoPool
    ProviderIDs = {i1, i2}
    ProviderNames = {a, b}
    ComboIDs = {c1, c2}
    ComboNames = {x}
    PoolIDs = {p1, p2}
    Builtins = {oc}
    Selections = {s1}
    URLs = {u1}
    Handlers = {h1}
SPECIFICATION Spec
SYMMETRY Symmetry
INVARIANTS
    TypeOK
    PinsResolve
    TiersIntact
