--------------------------- MODULE Authorization ---------------------------
(***************************************************************************)
(* Whether a request is let through: RESTAPIHandler::RoleIsAuthorized.     *)
(*                                                                         *)
(* The path of a request names a resource.  The request is about a scope,  *)
(* an entity or a venue of it, found from the record the path names, or    *)
(* else from the query parameters, or else from the body; the roles of the *)
(* user on that scope decide.  Whoever creates an entity or a venue is     *)
(* given a role on it with the policy of the role on what it is in.        *)
(*                                                                         *)
(* Here one user, not root, has roles; the roles are those of the tables   *)
(* (AccessControl is about the cache they are read through).  The records  *)
(* of a place are there while the place is.  What a place is in is a       *)
(* constant: a venue may be in any, as PUTs leave it, and does not move.   *)
(***************************************************************************)
EXTENDS FiniteSets

CONSTANTS
    PlaceEntity,    \* PlaceEntity[v]: the entity of venue v
    PlaceParent,    \* PlaceParent[p]: the parent of entity or venue p, None if none
    OperatorOf,     \* OperatorOf[e]: the operator whose entity e is, None if none
    PlaceOfRow,     \* the records by path and id: [entity, venue, operator]
    PolicyEntries,  \* PolicyEntries[q]: its entries, a set of [resources, access]
    None            \* the empty string

AllVenues == DOMAIN PlaceEntity
AllPlaces == DOMAIN PlaceParent
Policies == DOMAIN PolicyEntries
OperatorIds == {OperatorOf[e] : e \in DOMAIN OperatorOf} \ {None}

ASSUME AuthorizationAssumption ==
    /\ AllVenues \subseteq AllPlaces /\ DOMAIN OperatorOf = AllPlaces \ AllVenues
    /\ PlaceEntity \in [AllVenues -> AllPlaces \ AllVenues]
    /\ {None, "0"} \intersect (AllPlaces \union Policies \union OperatorIds) = {}
    /\ AllPlaces \intersect OperatorIds = {} /\ None # "0"

\* A tag is in a venue, in an entity, or after a PUT in both; contacts and locations are
\* in entities only; what belongs to an operator is in neither.
ASSUME RowsAssumption ==
    \A k \in DOMAIN PlaceOfRow :
        LET row == PlaceOfRow[k]
        IN  /\ k = <<k[1], k[2]>> /\ k[2] \notin {None, "0"}
            /\ row.entity \in (AllPlaces \ AllVenues) \union {None}
            /\ row.venue \in AllVenues \union {None}
            /\ row.operator \in OperatorIds \union {None}
            /\ \/ k[1] = "inventory"
               \/ /\ k[1] \in {"configuration", "map", "managementPolicy"}
                  /\ row.operator = None
               \/ k[1] \in {"contact", "location"} /\ row.venue = None /\ row.operator = None
               \/ /\ k[1] \in {"serviceClass", "subscriberDevice", "subscriber"}
                  /\ row.entity = None /\ row.venue = None

VARIABLES
    places,     \* the entities and venues there are
    grants,     \* the user's roles: sets of [entity, venue, policy]
    made        \* made[p]: the policies of the user's roles on what p was made in

authVars == <<places, grants, made>>

Entity(p) == IF p \in AllVenues THEN PlaceEntity[p] ELSE p
Venue(p) == IF p \in AllVenues THEN p ELSE None

AuthInit ==
    /\ places = {p \in AllPlaces \ AllVenues : PlaceParent[p] = None \/ OperatorOf[p] # None}
    /\ grants = {}
    /\ made = [p \in AllPlaces |-> {}]

(***************************************************************************)
(* The resource of a path is the first the path begins with, so that the   *)
(* contacts and locations of an operator are governed as the operator, and *)
(* a single RADIUS endpoint, variables and the system as nothing at all.   *)
(***************************************************************************)
Paths == {"entity", "venue", "inventory", "subscriberDevice", "subscriber",
          "configurationOverrides", "configuration", "managementRole", "managementPolicy",
          "operator", "operatorContact", "operatorLocation", "contact", "location", "map",
          "variable", "RADIUSEndPoint", "RADIUSEndPoints", "openroaming", "serviceClass",
          "iptocountry", "systemConfiguration", "system"}

GetResourceName(path) ==
    CASE path = "configurationOverrides" -> "overrides"
      [] path \in {"operatorContact", "operatorLocation"} -> "operator"
      [] path = "RADIUSEndPoints" -> "radiusEndpoint"
      [] path \in {"variable", "RADIUSEndPoint", "system"} -> None
      [] OTHER -> path

\* The empty string is none of them.
ASSUME PathsAssumption == None \notin Paths \union {"overrides", "radiusEndpoint"}

Methods == {"GET", "POST", "PUT", "DELETE"}

\* What an entry must name, any one of these, to be about a resource.
AlsoGovernedBy(resource) ==
    {resource, "*"} \union
    CASE resource \in {"managementRole", "managementPolicy", "serviceClass"} -> {"entity", "operator"}
      [] resource \in {"subscriberDevice", "overrides"} -> {"inventory"}
      [] OTHER -> {}

\* What an entry must grant, any one of these, to allow a method.
Access(method) ==
    {"FULL"} \union
    CASE method = "GET" -> {"READ", "READWRITE", "MODIFY"}
      [] method = "POST" -> {"CREATE", "MODIFY", "UPDATE", "READWRITE"}
      [] method = "PUT" -> {"UPDATE", "MODIFY", "READWRITE"}
      [] method = "DELETE" -> {"DELETE"}

PolicyAllows(policy, resource, method) ==
    \E entry \in PolicyEntries[policy] :
        /\ entry.resources \intersect AlsoGovernedBy(resource) # {}
        /\ entry.access \intersect Access(method) # {}

(***************************************************************************)
(* ResolveTargetContext.  A request is a method, a path, the identifier it *)
(* is bound to ("0" or None if none) and the members of its query and body *)
(* that matter, as functions from their names.                             *)
(***************************************************************************)
Unresolved == [entity |-> None, venue |-> None, found |-> FALSE]
Target(entity, venue) == [entity |-> entity, venue |-> venue, found |-> TRUE]

\* The entity of the operator that has this identifier.
OperatorEntity(o) == CHOOSE e \in DOMAIN OperatorOf : OperatorOf[e] = o

Exists(path, id) ==
    /\ <<path, id>> \in DOMAIN PlaceOfRow
    /\ LET row == PlaceOfRow[<<path, id>>]
       IN  /\ row.entity \in places \union {None}
           /\ row.venue \in places \union {None}
           /\ row.operator # None => OperatorEntity(row.operator) \in places

OperatorTarget(o) ==
    IF o \in OperatorIds THEN Target(OperatorEntity(o), None) ELSE Unresolved

PlaceTarget(path, id) ==
    IF id \notin places \/ (path = "venue") # (id \in AllVenues) THEN Unresolved
    ELSE Target(Entity(id), Venue(id))

\* A mutation: the entity of a tag's venue is not looked up.
TagTargetBare(path, id) ==
    LET row == PlaceOfRow[<<"inventory", id>>]
    IN  IF ~Exists("inventory", id) THEN Unresolved
        ELSE IF row.entity # None \/ row.venue # None THEN Target(row.entity, row.venue)
        ELSE IF path = "inventory" THEN OperatorTarget(row.operator) ELSE Unresolved

\* A tag is where its entity or venue is; a tag in neither, and a device that is known
\* as a subscriber's only, is where the subscriber's operator is.
TagTarget(path, id) ==
    LET row == PlaceOfRow[<<"inventory", id>>]
    IN  IF ~Exists("inventory", id) THEN Unresolved
        ELSE IF row.venue # None
        THEN Target(IF row.entity = None THEN PlaceEntity[row.venue] ELSE row.entity, row.venue)
        ELSE IF row.entity # None THEN Target(row.entity, None)
        ELSE IF path = "inventory" THEN OperatorTarget(row.operator) ELSE Unresolved

\* Records that name an entity or a venue, and records that name an operator.
PlacedPaths == {"configuration", "contact", "location", "map", "managementPolicy"}
OperatorPaths == {"serviceClass", "subscriberDevice", "subscriber"}

RowTarget(path, id) ==
    LET row == PlaceOfRow[<<path, id>>]
    IN  IF ~Exists(path, id) THEN Unresolved
        ELSE IF path \in OperatorPaths THEN OperatorTarget(row.operator)
        ELSE Target(row.entity, row.venue)

RoleTarget(id) == IF id \in grants THEN Target(id.entity, id.venue) ELSE Unresolved

BoundTarget(path, id) ==
    CASE path \in {"entity", "venue"} -> PlaceTarget(path, id)
      [] path \in {"inventory", "configurationOverrides"} -> TagTarget(path, id)
      [] path = "managementRole" -> RoleTarget(id)
      [] path \in PlacedPaths \union OperatorPaths -> RowTarget(path, id)
      [] path \in {"operator", "operatorContact", "operatorLocation"} -> OperatorTarget(id)
      [] OTHER -> Unresolved

Bound(req) == req.id \notin {None, "0"}

\* With a POST to these an identifier that is not found does not end the search.
PostContinues(req) ==
    /\ req.method = "POST"
    /\ req.path \notin {"entity", "venue", "inventory", "configurationOverrides", "operator",
                        "operatorContact", "operatorLocation", "configuration", "contact",
                        "location", "map"} \union OperatorPaths

Member(f, name) == IF name \in DOMAIN f THEN f[name] ELSE None
Or(a, b) == IF a # None THEN a ELSE b

SubscriberOperator(s) ==
    IF Exists("subscriber", s) THEN PlaceOfRow[<<"subscriber", s>>].operator ELSE None

Candidates(req) ==
    LET query == [entity |-> Member(req.query, "entity"), venue |-> Member(req.query, "venue"),
                  operator |-> Or(Or(Member(req.query, "operatorId"),
                                     Member(req.query, "registrationId")),
                                  SubscriberOperator(Member(req.query, "subscriberId")))]
        body == [entity |-> Member(req.body, "entity"),
                 venue |-> Or(Member(req.body, "venue"), Member(req.body, "venueIds")),
                 operator |-> Or(Member(req.body, "operatorId"), Member(req.body, "registrationId"))]
        parent == [entity |-> IF req.path = "entity" THEN Member(req.body, "parent") ELSE None,
                   venue |-> IF req.path = "venue" THEN Member(req.body, "parent") ELSE None,
                   operator |-> None]
        nothing == [entity |-> None, venue |-> None, operator |-> None]
    IN  IF query # nothing THEN query ELSE IF body # nothing THEN body ELSE parent

\* The venue counts before the entity, the entity before the operator.  What is called an
\* operator may be the identifier of an entity.
CandidateTarget(c) ==
    IF c.venue # None THEN PlaceTarget("venue", c.venue)
    ELSE IF c.entity # None THEN PlaceTarget("entity", c.entity)
    ELSE IF c.operator \in places THEN PlaceTarget("entity", c.operator)
    ELSE OperatorTarget(c.operator)

ResolveTargetContext(req) ==
    IF Bound(req) /\ (BoundTarget(req.path, req.id).found \/ ~PostContinues(req))
    THEN BoundTarget(req.path, req.id)
    ELSE CandidateTarget(Candidates(req))

HasScopeConstraint(req) ==
    /\ GetResourceName(req.path) \in
         {"entity", "venue", "inventory", "configuration", "managementRole", "contact",
          "location", "managementPolicy", "map", "serviceClass", "operator", "overrides",
          "subscriber", "subscriberDevice"}
    /\ \/ Bound(req)
       \/ DOMAIN req.query \intersect {"entity", "venue", "operatorId"} # {}
       \/ DOMAIN req.body \intersect {"entity", "venue", "operatorId", "parent"} # {}

(***************************************************************************)
(* RoleIsAuthorized.  A role on a venue decides for the venue; without one *)
(* the roles on its entity do, for the venues below the entity.            *)
(***************************************************************************)
\* The least subset of next's domain that has from, and with p what next[p] has of it.
Reached(from, next) ==
    LET closed == {S \in SUBSET DOMAIN next :
                      from \subseteq S /\ \A q \in S : next[q] \subseteq S}
    IN  {p \in DOMAIN next : \A S \in closed : p \in S}

ChildVenues ==
    [v \in places \intersect AllVenues |-> {w \in places \intersect AllVenues : PlaceParent[w] = v}]

VenuesOf(e) == {v \in places \intersect AllVenues : PlaceEntity[v] = e}

\* GetDescendantVenues of the venues in the entity's list.
AllowedVenues(e) == Reached(VenuesOf(e), ChildVenues)

\* It recurses for ever once it meets a venue that is below itself, as venue PUT allows.
Endless(e) == \E v \in AllowedVenues(e) : v \in Reached(ChildVenues[v], ChildVenues)

OpenToRead == {"managementPolicy", "systemConfiguration", "radiusEndpoint", "openroaming", "iptocountry"}

RoleIsAuthorized(req) ==
    LET resource == GetResourceName(req.path)
        target == ResolveTargetContext(req)
        allows(roles) == \E r \in roles : PolicyAllows(r.policy, resource, req.method)
        onVenue == {r \in grants : r.venue = target.venue}
        onEntity == {r \in grants : r.entity = target.entity /\ r.venue = None}
    IN  /\ resource # None
        /\ IF resource \in OpenToRead /\ req.method = "GET" THEN TRUE
           ELSE IF ~target.found THEN ~HasScopeConstraint(req) /\ allows(grants)
           ELSE IF target.venue = None THEN allows(onEntity)
           ELSE IF onVenue # {} THEN allows(onVenue)
           ELSE /\ allows(onEntity)
                /\ ~Endless(target.entity) /\ target.venue \in AllowedVenues(target.entity)

(***************************************************************************)
(* An entity or a venue is created.  The user's role on the parent venue,  *)
(* or else on the entity, is repeated on it.                               *)
(***************************************************************************)
On(entity, venue) == {r \in grants : r.entity = entity /\ r.venue = venue}

\* A mutation: any role of the user will do.
AnyRole(p) == grants

ParentRole(p) ==
    LET up == PlaceParent[p]
    IN  IF p \notin AllVenues THEN On(up, None)
        ELSE IF up # None /\ On(PlaceEntity[p], up) # {} THEN On(PlaceEntity[p], up)
        ELSE On(PlaceEntity[p], None)

\* A venue is in an entity that exists, and an entity in one.
Creatable(p) ==
    /\ p \notin places
    /\ IF p \in AllVenues THEN PlaceEntity[p] \in places ELSE PlaceParent[p] \in places \union {None}

PostRequest(p) ==
    [method |-> "POST", id |-> "0", query |-> <<>>,
     path |-> IF p \in AllVenues THEN "venue" ELSE "entity",
     body |-> IF PlaceParent[p] # None THEN [parent |-> PlaceParent[p]]
              ELSE [entity |-> PlaceEntity[p]]]

\* POST makes a venue in another, in the other's entity, or in an entity.
PlacePost(p) ==
    /\ Creatable(p)
    /\ p \in AllVenues /\ PlaceParent[p] # None =>
          PlaceParent[p] \in places /\ PlaceEntity[PlaceParent[p]] = PlaceEntity[p]
    /\ RoleIsAuthorized(PostRequest(p))
    /\ places' = places \union {p}
    /\ \E copied \in (IF ParentRole(p) = {} THEN {{}} ELSE {{r} : r \in ParentRole(p)}) :
          grants' = grants \union
              {[entity |-> Entity(p), venue |-> Venue(p), policy |-> r.policy] : r \in copied}
    /\ made' = [made EXCEPT ![p] =
          {r.policy : r \in IF p \in AllVenues /\ On(Entity(p), PlaceParent[p]) = {}
                            THEN On(Entity(p), None)
                            ELSE On(IF p \in AllVenues THEN Entity(p) ELSE PlaceParent[p],
                                    IF p \in AllVenues THEN PlaceParent[p] ELSE None)}]

\* Root creates one, and PUTs move it where it is: a venue's entity need not be its
\* parent's, the parent may be any venue, itself too, and be gone.
RootPlacePost(p) ==
    /\ Creatable(p)
    /\ places' = places \union {p}
    /\ UNCHANGED <<grants, made>>

\* Root gives or takes the user's role on a place; an existing role is given the new
\* policy.
OnPlace(p) == On(Entity(p), Venue(p))

RoleGiven(p, q) ==
    /\ p \in places
    /\ grants' = (grants \ OnPlace(p)) \union {[entity |-> Entity(p), venue |-> Venue(p), policy |-> q]}
    /\ made' = [made EXCEPT ![p] = {}]
    /\ UNCHANGED places

RoleTaken(p) ==
    /\ OnPlace(p) # {}
    /\ grants' = grants \ OnPlace(p)
    /\ made' = [made EXCEPT ![p] = {}]
    /\ UNCHANGED places

\* DELETE of a place without anything below it takes its roles along.
PlaceDelete(p) ==
    /\ p \in places
    /\ p \notin AllVenues => PlaceParent[p] # None /\ OperatorOf[p] = None
    /\ \A x \in places : PlaceParent[x] # p /\ (Entity(x) = p => x = p)
    /\ RoleIsAuthorized([PostRequest(p) EXCEPT !.method = "DELETE", !.id = p])
    /\ places' = places \ {p}
    /\ grants' = grants \ OnPlace(p)
    /\ made' = [made EXCEPT ![p] = {}]

AuthNext ==
    \E p \in AllPlaces :
        \/ PlacePost(p) \/ RootPlacePost(p) \/ PlaceDelete(p) \/ RoleTaken(p)
        \/ \E q \in Policies : RoleGiven(p, q)

-----------------------------------------------------------------------------

\* A request bound to a record, and one that names a scope in the query.
BoundTo(method, path, id) ==
    [method |-> method, path |-> path, id |-> id, query |-> <<>>, body |-> <<>>]
About(method, path, name, id) ==
    [method |-> method, path |-> path, id |-> None, query |-> [x \in {name} |-> id], body |-> <<>>]

(***************************************************************************)
(* Whoever creates an entity or a venue, with a role on what it is created *)
(* in, may do to it exactly what that role's policy allows to do to an     *)
(* entity or a venue, until root changes the role: whatever other roles    *)
(* the user has, is given or loses elsewhere.  About AutoCreateCreatorRole *)
(* and the scope its role is given.                                        *)
(***************************************************************************)
CreatorKeepsAccess ==
    \A p \in places : made[p] # {} =>
        \A method \in Methods :
            LET path == IF p \in AllVenues THEN "venue" ELSE "entity"
            IN  RoleIsAuthorized(BoundTo(method, path, p))
                  <=> \E q \in made[p] : PolicyAllows(q, path, method)

(***************************************************************************)
(* A record is governed as the venue, entity or operator it belongs to: a  *)
(* request bound to it is let through exactly when one that names its      *)
(* place in the query is, on every path.  Configurations, maps and         *)
(* policies are the exception: in a venue, they name no entity, and the    *)
(* roles on the entity do not reach them.  A tag in an entity and in a     *)
(* venue of another is governed by the user's role on the venue, and       *)
(* without one by those on the tag's entity, never by those on the         *)
(* venue's.  About ResolveTargetContext.                                   *)
(***************************************************************************)
RecordsFollowTheirPlace ==
    \A k \in {k \in DOMAIN PlaceOfRow : Exists(k[1], k[2])}, method \in Methods :
        LET row == PlaceOfRow[k]
            onVenueOnly == k[1] \in {"configuration", "map", "managementPolicy"} /\ row.venue # None
            inTwo == {row.entity, row.venue} \intersect {None} = {} /\ row.entity # PlaceEntity[row.venue]
            onVenue == \E r \in grants : r.venue = row.venue
        IN  \A path \in {k[1]} \union IF k[1] = "inventory" /\ {row.entity, row.venue} # {None}
                                      THEN {"configurationOverrides"} ELSE {} :
              LET named == IF row.venue # None THEN About(method, path, "venue", row.venue)
                           ELSE IF row.entity # None THEN About(method, path, "entity", row.entity)
                           ELSE About(method, path, "operatorId", row.operator)
                  allowed == RoleIsAuthorized(BoundTo(method, path, k[2]))
              IN  /\ ~onVenueOnly /\ (inTwo => onVenue) => (allowed <=> RoleIsAuthorized(named))
                  /\ k[1] = "inventory" /\ inTwo /\ ~onVenue /\ allowed =>
                        RoleIsAuthorized(About(method, path, "entity", row.entity))
=============================================================================
