SPECIFICATION MCSpec
CONSTANTS
    Op = Op
    e1 = e1
    v1 = v1
    v2 = v2
    t1 = t1
    c1 = c1
    s1 = s1
    Root = Root
    NoId = NoId
    Keep = Keep
    EntityIds = {Root, Op, e1}
    OperatorEntities = {Op}
    VenueIds = {v1, v2}
    TagIds = {t1}
    ConfigIds = {c1}
    SubscriberOnly = {}
    Subscribers = {s1}
    Spent = {{c1, s1}, {v1, v2}, {e1, c1}, {e1, v2, s1}, {e1, v1, s1}}
SYMMETRY SymmetricVenues
INVARIANTS TagsPlaced VenuesPlaced ConfigurationsHeld
PROPERTIES NothingOrphaned RestartRepairs
CHECK_DEADLOCK FALSE
