SPECIFICATION Spec
CONSTANTS
    p1 = p1
    p2 = p2
    v1 = v1
    v2 = v2
    t1 = t1
    t2 = t2
    Root = Root
    Op = Op
    NoId = NoId
    Keep = Keep
    VenueIds = {v1, v2}
    TagIds = {t1}
    Threads = {p1, p2}
    MaxCrashes = 2
SYMMETRY Symmetric
INVARIANTS NoResurrection StartsConsistent
CHECK_DEADLOCK FALSE
