SPECIFICATION MCSpec
CONSTANTS
    p1 = p1
    p2 = p2
    u1 = u1
    u2 = u2
    s1 = s1
    s2 = s2
    s3 = s3
    q1 = q1
    r1 = r1
    r2 = r2
    r3 = r3
    r4 = r4
    weak = weak
    strong = strong
    NoId = NoId
    Threads = {p1}
    Users = {u1, u2}
    Scopes = {s2, s3}
    Venues = {s2, s3}
    PolicyIds = {q1}
    RoleIds = {r1, r2, r3}
    Contents = {weak, strong}
    PlaceEntity <- MCPlaceEntity
    PlaceParent <- MCPlaceParent
    OperatorOf <- MCOperatorOf
    PlaceOfRow <- MCPlaceOfRow
    PolicyEntries <- MCPolicyEntries
    None = ""
    MaxPlaces = 6
    MaxGrants = 3
    Follows = {"cache", "decisions"}
SYMMETRY Symmetric
INVARIANTS OneRolePerScope CachedRolesExist CachedPoliciesCurrent CreatorKeepsAccess RecordsFollowTheirPlace
CHECK_DEADLOCK FALSE
