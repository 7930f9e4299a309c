CONSTANTS
    m = m
    a = a
    b = b
    c = c
    x = x
    y = y
    z = z
    wide = wide
    narrow = narrow
    Peers = {m, a, b, c}
    Me = m
    None = None
    Ips = {x, y, z}
    Cidrs = {wide, narrow}
    Within <- MCWithin
    Cost <- MCCost
    AVOID_RELAY_COST = 100
    t1 = t1
    t2 = t2
    t3 = t3
    Tasks = {t1, t2, t3}
    Starts <- MCStarts
    NewInfos <- MCNewInfos
    NewLists <- MCNewLists
    NewSuppressed <- MCNewSuppressed
SPECIFICATION Spec
INVARIANTS
    TypeOK
    RoutesAreBest
    OwnersAreNearest
    NeverLost
SYMMETRY TasksAreAlike
