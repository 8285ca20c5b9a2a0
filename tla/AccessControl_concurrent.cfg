SPECIFICATION MCSpec
CONSTANTS
    p1 = p1
    p2 = p2
    u1 = u1
    u2 = u2
    s1 = s1
    s2 = s2
    s3 = s3
    q1 = q1
    r1 = r1
    r2 = r2
    r3 = r3
    r4 = r4
    weak = weak
    strong = strong
    NoId = NoId
    Threads = {p1, p2}
    Users = {u1}
    Scopes = {s1, s2}
    Venues = {s2}
    PolicyIds = {q1}
    RoleIds = {r1, r2}
    Contents = {weak}
    PlaceEntity <- MCPlaceEntity
    PlaceParent <- MCPlaceParent
    OperatorOf <- MCOperatorOf
    PlaceOfRow <- MCPlaceOfRow
    PolicyEntries <- MCListPolicies
    None = ""
    MaxPlaces = 5
    MaxGrants = 3
    Follows = {"cache", "tree"}
SYMMETRY Symmetric
INVARIANTS ListsShowReadable 
PROPERTIES RolesKeepScope
CHECK_DEADLOCK FALSE
