SPECIFICATION Spec
CONSTANTS
    p1 = p1
    p2 = p2
    e1 = e1
    e2 = e2
    u1 = u1
    u2 = u2
    o1 = o1
    o2 = o2
    g1 = g1
    g2 = g2
    d1 = d1
    d2 = d2
    s1 = s1
    s2 = s2
    NoId = NoId
    Keep = Keep
    Ordinary = Ordinary
    Threads = {p1, p2}
    Emails = {e1}
    UserIds = {u1}
    Operators = {o1}
    SignupIds = {g1, g2}
    DeviceIds = {d1, d2}
    Serials = {s1, s2}
    Unassigned = {}
INVARIANTS OneGateway
CHECK_DEADLOCK FALSE
